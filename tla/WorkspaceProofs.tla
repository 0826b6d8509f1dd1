---------------------------- MODULE WorkspaceProofs ----------------------------
(***************************************************************************)
(* The workspace a person works in is sound: who is admitted to it, and    *)
(* what its pages show.                                                    *)
(*                                                                         *)
(* AccessAdmission is sound for any keys, requests, listener, life of the  *)
(* cache, limit of a fetch, interval of the membership file and number of  *)
(* rotations, edits and failures.  The inductive invariant bounds the age  *)
(* of everything a decision is made from by the time that has passed       *)
(* since it was read.                                                      *)
(*                                                                         *)
(* Browser is sound for any Projects, Assets, drafts, calls and failures.  *)
(* Each of its parts has an inductive invariant of its own: it says which  *)
(* of the answers on their way may still be shown, and that such an answer *)
(* is not older than what is shown.                                        *)
(*                                                                         *)
(* PlanPage is sound for any edits and any number of saves, previews,      *)
(* moves of control, turns of the page and losses.                         *)
(***************************************************************************)
EXTENDS Origin, Browser, FiniteSetTheorems, TLAPS

(* What the provider serves now has no age.                                  *)
ProviderIsSound ==
  /\ keys \subseteq Kids /\ keyAge \in [Kids -> 0 .. KeyHorizon]
  /\ \A k \in keys : keyAge[k] = 0

(* A document on its way is no older than its fetch.                         *)
Fetch == [at : {"idle", "expired", "unfamiliar"},
          served : {None} \cup SUBSET Kids, left : 0 .. FetchLimit]
FetchesAreSound ==
  /\ pending \in [Requests -> Fetch]
  /\ \A r \in Requests : pending[r].served # None =>
       \A k \in pending[r].served : keyAge[k] <= FetchLimit - pending[r].left

(* The cache is no older than a fetch and the part of its life that is over. *)
CacheIsSound ==
  /\ cached \in {None} \cup ((SUBSET Kids) \ {{}})
  /\ expiresIn \in 0 .. Ttl /\ unknownKids \subseteq Kids
  /\ cached # None /\ expiresIn > 0 =>
       \A k \in cached : keyAge[k] <= FetchLimit + Ttl - expiresIn
  /\ UnknownIsUnknown

(* The policy is the file's as long as its modification time is, and         *)
(* otherwise no older than the last look at the file.                        *)
PolicyAges ==
  /\ seen => policy = file
  /\ policy \in Roles /\ checked < Interval => roleAge[policy] <= checked
MembersAreSound ==
  /\ file \in Roles \cup {"none", "broken"}
  /\ roleAge \in [Roles -> 0 .. RoleHorizon]
  /\ seen \in BOOLEAN /\ checked \in 0 .. Interval
  /\ policy \in Roles \cup {"none", None}
  /\ file \in Roles => roleAge[file] = 0
  /\ PolicyAges

AnswersAreSound ==
  /\ membership \in Roles \cup {None}
  /\ answered \in [Requests -> {None, "admitted", "refused"}]
  /\ GrantIsRecent

Inv ==
  /\ ProviderIsSound /\ FetchesAreSound /\ CacheIsSound
  /\ MembersAreSound /\ AnswersAreSound

LEMMA Limits ==
  /\ Ttl \in Nat \ {0} /\ FetchLimit \in Nat \ {0} /\ Interval \in Nat \ {0}
  /\ MaxUnknown \in Nat \ {0}
  /\ KeyHorizon \in Nat /\ RoleHorizon \in Nat
  /\ KidOf \in [Requests -> Kids]
BY AccessAssumption DEF AccessOK, KeyHorizon, RoleHorizon

LEMMA InvInit == Init => Inv
<1> SUFFICES ASSUME Init PROVE Inv
  OBVIOUS
<1>1. ProviderIsSound
  <2>1. /\ keys \subseteq Kids
        /\ keyAge = [k \in Kids |-> IF k \in keys THEN 0 ELSE KeyHorizon]
    BY DEF Init
  <2> QED BY <2>1, Limits DEF ProviderIsSound
<1>2. FetchesAreSound
  BY Limits DEF Init, FetchesAreSound, Fetch, Idle
<1>3. CacheIsSound
  BY Limits, FS_EmptySet DEF Init, CacheIsSound, UnknownIsUnknown
<1>4. MembersAreSound
  <2>1. /\ file \in Roles \cup {"none"}
        /\ roleAge = [r \in Roles |-> IF r = file THEN 0 ELSE RoleHorizon]
    BY DEF Init
  <2>2. /\ roleAge \in [Roles -> 0 .. RoleHorizon]
        /\ file \in Roles => roleAge[file] = 0
    BY <2>1, Limits
  <2>3. /\ seen = FALSE /\ checked = Interval /\ policy = None
        /\ Interval \in 0 .. Interval /\ ~(Interval < Interval)
    BY Limits DEF Init
  <2>4. PolicyAges
    BY <2>3 DEF PolicyAges
  <2> QED BY <2>1, <2>2, <2>3, <2>4 DEF MembersAreSound
<1>5. AnswersAreSound
  BY DEF Init, AnswersAreSound, GrantIsRecent
<1> QED BY <1>1, <1>2, <1>3, <1>4, <1>5 DEF Inv

-----------------------------------------------------------------------------
(* The membership file.                                                      *)

(* What load answers was in the file within the interval.                    *)
LEMMA LoadedIsRecent ==
  ASSUME Inv, Loaded \in Roles
  PROVE  roleAge[Loaded] <= Interval /\ (Checks => roleAge[Loaded] = 0)
<1>1. /\ checked \in 0 .. Interval
      /\ file \in Roles => roleAge[file] = 0
      /\ seen => policy = file
      /\ policy \in Roles /\ checked < Interval => roleAge[policy] <= checked
  BY DEF Inv, MembersAreSound, PolicyAges
<1>2. CASE ~Checks
  <2>1. Loaded = policy /\ checked < Interval
    BY <1>1, <1>2, Limits DEF Loaded, Checks
  <2>2. roleAge[policy] \in 0 .. RoleHorizon
    BY <2>1 DEF Inv, MembersAreSound
  <2> QED BY <1>1, <1>2, <2>1, <2>2, Limits
<1>3. CASE Checks
  <2>1. CASE seen /\ policy # None
    <3>1. Loaded = file
      BY <1>1, <1>3, <2>1 DEF Loaded
    <3> QED BY <1>1, <3>1, Limits
  <2>2. CASE ~(seen /\ policy # None)
    <3>1. Loaded = IF file = "broken" THEN None ELSE file
      BY <1>3, <2>2 DEF Loaded
    <3>2. Loaded = file
      BY <3>1, AccessAssumption DEF AccessOK
    <3> QED BY <1>1, <3>2, Limits
  <2> QED BY <2>1, <2>2
<1> QED BY <1>2, <1>3

LEMMA LoadStep ==
  ASSUME Inv, Load
  PROVE  /\ PolicyAges'
         /\ policy' \in Roles \cup {"none", None} /\ seen' \in BOOLEAN
         /\ checked' \in 0 .. Interval
         /\ UNCHANGED <<file, roleAge>>
<1>1. /\ policy' = Loaded /\ UNCHANGED <<file, roleAge>>
      /\ checked' = IF Checks THEN 0 ELSE checked
      /\ seen' = IF Checks THEN Loaded # None ELSE seen
  BY DEF Load
<1>2. /\ policy \in Roles \cup {"none", None} /\ seen \in BOOLEAN
      /\ file \in Roles \cup {"none", "broken"} /\ checked \in 0 .. Interval
  BY DEF Inv, MembersAreSound
<1>3. Loaded \in Roles \cup {"none", None}
  BY <1>2 DEF Loaded
<1>4. CASE Checks
  <2>1. Loaded # None => Loaded = file
    BY <1>2, <1>4 DEF Loaded, Inv, MembersAreSound, PolicyAges
  <2>2. Loaded \in Roles => roleAge[Loaded] = 0
    BY <1>4, LoadedIsRecent
  <2>3. checked' = 0 /\ policy' = Loaded /\ file' = file /\ roleAge' = roleAge
    BY <1>1, <1>4
  <2>5. /\ seen' => Loaded # None
        /\ seen' \in BOOLEAN
    BY <1>1, <1>4, Zenon
  <2>6. policy' \in Roles => roleAge'[policy'] <= checked'
    BY <2>2, <2>3
  <2>4. PolicyAges'
    BY <2>1, <2>3, <2>5, <2>6 DEF PolicyAges
  <2> QED BY <1>1, <1>3, <2>3, <2>4, <2>5, Limits
<1>5. CASE ~Checks
  BY <1>1, <1>2, <1>5 DEF Loaded, PolicyAges, Inv, MembersAreSound
<1> QED BY <1>4, <1>5

-----------------------------------------------------------------------------
(* The answers.                                                              *)

(* What a step leaves alone of the documents and of what is remembered.      *)
KeysRest == UNCHANGED <<keys, keyAge>>
MembersRest ==
  UNCHANGED <<file, roleAge, seen, checked, policy>>
CacheRests == UNCHANGED <<cached, expiresIn, unknownKids>>

LEMMA PartsRest ==
  /\ FetchesAreSound /\ KeysRest /\ pending' = pending => FetchesAreSound'
  /\ CacheIsSound /\ KeysRest /\ CacheRests => CacheIsSound'
  /\ MembersAreSound /\ MembersRest => MembersAreSound'
  /\ ProviderIsSound /\ KeysRest => ProviderIsSound'
  /\ AnswersAreSound /\ UNCHANGED outcome => AnswersAreSound'
<1> USE DEF KeysRest, CacheRests, MembersRest, outcome
<1>1. FetchesAreSound /\ KeysRest /\ pending' = pending => FetchesAreSound'
  BY DEF FetchesAreSound
<1>2. CacheIsSound /\ KeysRest /\ CacheRests => CacheIsSound'
  BY DEF CacheIsSound, UnknownIsUnknown
<1>3. MembersAreSound /\ MembersRest => MembersAreSound'
  BY DEF MembersAreSound, PolicyAges
<1>4. ProviderIsSound /\ KeysRest => ProviderIsSound'
  BY DEF ProviderIsSound
<1>5. AnswersAreSound /\ UNCHANGED outcome => AnswersAreSound'
  BY DEF AnswersAreSound, GrantIsRecent
<1> QED BY <1>1, <1>2, <1>3, <1>4, <1>5

(* A request that ends its fetch, or begins one, has no document.            *)
LEMMA FetchEnds ==
  ASSUME FetchesAreSound, KeysRest, NEW r \in Requests,
         NEW p \in {Idle, Fetching("expired"), Fetching("unfamiliar")},
         pending' = [pending EXCEPT ![r] = p]
  PROVE  FetchesAreSound'
<1>1. p \in Fetch /\ p.served = None
  BY Limits DEF Idle, Fetching, Fetch
<1> QED BY <1>1 DEF FetchesAreSound, KeysRest

LEMMA RefusedStep ==
  ASSUME FetchesAreSound, AnswersAreSound, MembersAreSound, KeysRest,
         NEW r \in Requests, Refused(r)
  PROVE  FetchesAreSound' /\ AnswersAreSound' /\ MembersAreSound'
<1>1. FetchesAreSound'
  BY FetchEnds DEF Refused, Answer
<1>2. AnswersAreSound'
  BY DEF Refused, Answer, AnswersAreSound, GrantIsRecent
<1>3. MembersAreSound'
  BY PartsRest DEF Refused, members, MembersRest
<1> QED BY <1>1, <1>2, <1>3

LEMMA AdmittedStep ==
  ASSUME Inv, KeysRest, NEW r \in Requests, Admitted(r),
         keyAge[KidOf[r]] <= Ttl + FetchLimit
  PROVE  FetchesAreSound' /\ AnswersAreSound' /\ MembersAreSound'
<1>1. FetchesAreSound'
  BY FetchEnds DEF Inv, Admitted, Answer
<1>2. MembersAreSound'
  BY LoadStep DEF Inv, Admitted, MembersAreSound
<1>3. CASE Loaded \in Roles
  <2>1. /\ membership' = Loaded
        /\ grant' = [key |-> keyAge[KidOf[r]], role |-> Loaded,
                     since |-> roleAge[Loaded], at |-> Context,
                     capability |-> IF Loaded = "owner" /\ Context = "desktop"
                                    THEN "controlCapable" ELSE "readOnly"]
        /\ answered' = [answered EXCEPT ![r] = "admitted"]
    BY <1>3 DEF Admitted, Answer
  <2>2. answered' \in [Requests -> {None, "admitted", "refused"}]
    BY <2>1 DEF Inv, AnswersAreSound
  <2>3. GrantIsRecent'
    BY <1>3, <2>1, LoadedIsRecent DEF GrantIsRecent
  <2> QED BY <1>1, <1>2, <1>3, <2>1, <2>2, <2>3 DEF AnswersAreSound
<1>4. CASE Loaded \notin Roles
  BY <1>1, <1>2, <1>4
  DEF Inv, Admitted, Answer, AnswersAreSound, GrantIsRecent
<1> QED BY <1>3, <1>4

-----------------------------------------------------------------------------
(* The steps.                                                                *)

LEMMA AskStep ==
  ASSUME Inv, NEW r \in Requests, Ask(r) PROVE Inv'
<1>1. KeysRest /\ CacheRests
  BY DEF Ask, provider, resolver, KeysRest, CacheRests
<1>2. CacheIsSound' /\ ProviderIsSound'
  BY <1>1, PartsRest DEF Inv
<1>3. CASE \E for \in {"expired", "unfamiliar"} :
             /\ pending' = [pending EXCEPT ![r] = Fetching(for)]
             /\ UNCHANGED <<members, outcome>>
  <2>1. FetchesAreSound'
    BY <1>1, <1>3, FetchEnds DEF Inv
  <2> QED BY <1>2, <1>3, <2>1, PartsRest
          DEF Inv, members, MembersRest
<1>4. CASE ~Expired /\ KidOf[r] \in cached /\ Admitted(r)
  <2>1. keyAge[KidOf[r]] <= Ttl + FetchLimit
    BY <1>4, Limits
    DEF Inv, Expired, CacheIsSound, ProviderIsSound
  <2> QED BY <1>1, <1>2, <1>4, <2>1, AdmittedStep DEF Inv
<1>5. CASE Refused(r)
  BY <1>1, <1>2, <1>5, RefusedStep DEF Inv
<1> QED BY <1>3, <1>4, <1>5 DEF Ask

LEMMA ArriveStep ==
  ASSUME Inv, NEW r \in Requests, Arrive(r) PROVE Inv'
<1> DEFINE doc == pending[r].served
           k == KidOf[r]
<1>1. /\ doc \in SUBSET Kids /\ doc # {} /\ doc # None /\ k \in Kids
      /\ \A l \in doc : keyAge[l] <= FetchLimit /\ keyAge[l] \in Nat
      /\ KeysRest /\ cached' = doc /\ expiresIn' = Ttl
  BY Limits
  DEF Inv, Arrive, FetchesAreSound, Fetch, ProviderIsSound, KeysRest, provider,
      Refreshed
<1>2. ProviderIsSound'
  BY <1>1, PartsRest DEF Inv
<1>3. ASSUME NEW ks \in SUBSET Kids, unknownKids' = ks, ks \cap doc = {},
             Cardinality(ks) <= MaxUnknown
      PROVE  CacheIsSound'
  <2>1. ASSUME NEW l \in doc
        PROVE  keyAge'[l] <= FetchLimit + Ttl - Ttl
    <3>1. keyAge'[l] <= FetchLimit
      BY <1>1, <2>1 DEF KeysRest
    <3>2. FetchLimit + Ttl - Ttl = FetchLimit
      BY Limits
    <3> QED BY <3>1, <3>2
  <2>2. UnknownIsUnknown'
    BY <1>1, <1>3 DEF UnknownIsUnknown
  <2>3. Ttl \in 0 .. Ttl
    BY Limits
  <2>4. doc \in SUBSET Kids /\ doc # {}
    BY <1>1
  <2> HIDE DEF doc
  <2>5. cached' = doc /\ expiresIn' = Ttl
    BY <1>1
  <2>6. cached' \in {None} \cup ((SUBSET Kids) \ {{}})
    BY <2>4, <2>5
  <2>7. \A l \in cached' : keyAge'[l] <= FetchLimit + Ttl - expiresIn'
    BY <2>1, <2>5
  <2> QED BY <1>3, <2>2, <2>3, <2>5, <2>6, <2>7 DEF CacheIsSound
<1>7. unknownKids' = {} => CacheIsSound'
  BY <1>3, Limits, FS_EmptySet
<1>4. CASE k \in doc /\ unknownKids' = {} /\ Admitted(r)
  <2>1. keyAge[KidOf[r]] <= Ttl + FetchLimit
    BY <1>1, <1>4, Limits
  <2> QED BY <1>1, <1>2, <1>7, <1>4, <2>1, AdmittedStep DEF Inv
<1>5. CASE /\ unknownKids' = {}
           /\ pending' = [pending EXCEPT ![r] = Fetching("unfamiliar")]
           /\ UNCHANGED <<members, outcome>>
  <2>1. FetchesAreSound'
    BY <1>1, <1>5, FetchEnds DEF Inv
  <2> QED BY <1>2, <1>7, <1>5, <2>1, PartsRest
          DEF Inv, members, MembersRest
<1>6. CASE k \notin doc /\ unknownKids' = Remembered({}, k) /\ Refused(r)
  <2>1. unknownKids' = {k}
    BY <1>6 DEF Remembered
  <2>2. Cardinality({k}) = 1
    BY FS_Singleton
  <2>3. {k} \in SUBSET Kids /\ {k} \cap doc = {}
    BY <1>1, <1>6
  <2>4. Cardinality({k}) <= MaxUnknown
    BY <2>2, Limits
  <2>5. CacheIsSound'
    BY <1>3, <2>1, <2>3, <2>4
  <2> QED BY <1>1, <1>2, <1>6, <2>5, RefusedStep DEF Inv
<1> QED BY <1>4, <1>5, <1>6 DEF Arrive

LEMMA ServeStep ==
  ASSUME Inv, NEW r \in Requests, Serve(r) PROVE Inv'
<1>1. /\ KeysRest /\ CacheRests /\ MembersRest /\ UNCHANGED outcome
      /\ pending' = [pending EXCEPT ![r].served = keys]
  BY DEF Serve, provider, resolver, members, KeysRest, CacheRests, MembersRest
<1>2. FetchesAreSound'
  <2> DEFINE p == [at |-> pending[r].at, served |-> keys,
                   left |-> pending[r].left]
  <2>1. pending \in [Requests -> Fetch] /\ pending[r] \in Fetch
    BY DEF Inv, FetchesAreSound
  <2>2. [pending[r] EXCEPT !.served = keys] = p
    BY <2>1 DEF Fetch
  <2>3. pending' = [pending EXCEPT ![r] = p]
    BY <1>1, <2>2
  <2>4. /\ p \in Fetch /\ p.served = keys
        /\ \A k \in keys : keyAge[k] <= FetchLimit - p.left
    BY <2>1, Limits DEF Inv, Fetch, ProviderIsSound
  <2> HIDE DEF p
  <2> QED BY <1>1, <2>3, <2>4 DEF Inv, FetchesAreSound, KeysRest
<1> QED BY <1>1, <1>2, PartsRest DEF Inv

LEMMA RefusalStep ==
  ASSUME Inv, NEW r \in Requests, Unusable(r) \/ Fail(r) PROVE Inv'
<1>1. KeysRest /\ CacheRests /\ Refused(r)
  BY DEF Unusable, Fail, provider, resolver, KeysRest, CacheRests
<1> QED BY <1>1, RefusedStep, PartsRest DEF Inv

LEMMA EditStep ==
  ASSUME Inv, Edit PROVE Inv'
<1>1. /\ KeysRest /\ CacheRests /\ UNCHANGED <<pending, outcome>>
  BY DEF Edit, provider, resolver, KeysRest, CacheRests
<1>2. PICK f \in (Roles \cup {"none", "broken"}) \ {file} :
        /\ file' = f
        /\ roleAge' = [r \in Roles |-> IF r = f THEN 0 ELSE roleAge[r]]
        /\ seen' = FALSE /\ UNCHANGED <<checked, policy>>
  BY DEF Edit
<1>3. MembersAreSound'
  <2>1. /\ roleAge \in [Roles -> 0 .. RoleHorizon]
        /\ policy \in Roles /\ checked < Interval => roleAge[policy] <= checked
        /\ checked \in 0 .. Interval /\ policy \in Roles \cup {"none", None}
    BY DEF Inv, MembersAreSound, PolicyAges
  <2>2. /\ roleAge' \in [Roles -> 0 .. RoleHorizon]
        /\ f \in Roles => roleAge'[f] = 0
        /\ policy \in Roles => roleAge'[policy] \in {0, roleAge[policy]}
    BY <1>2, <2>1, Limits
  <2>3. PolicyAges'
    BY <1>2, <2>1, <2>2, Limits DEF PolicyAges
  <2> QED BY <1>2, <2>1, <2>2, <2>3 DEF MembersAreSound
<1> QED BY <1>1, <1>3, PartsRest DEF Inv

LEMMA RotateStep ==
  ASSUME Inv, Rotate PROVE Inv'
<1>1. /\ CacheRests /\ MembersRest /\ UNCHANGED <<pending, outcome>>
  BY DEF Rotate, resolver, members, CacheRests, MembersRest
<1>2. PICK ks \in (SUBSET Kids) \ {keys} :
        /\ keys' = ks
        /\ keyAge' = [k \in Kids |-> IF k \in ks THEN 0 ELSE keyAge[k]]
  BY DEF Rotate
<1>3. /\ ProviderIsSound'
      /\ \A k \in Kids : keyAge'[k] <= keyAge[k] /\ keyAge'[k] \in Nat
                         /\ keyAge[k] \in Nat
  BY <1>2, Limits DEF Inv, ProviderIsSound
<1>4. FetchesAreSound'
  <2>1. ASSUME NEW r \in Requests, pending[r].served # None,
               NEW k \in pending[r].served
        PROVE  keyAge'[k] <= FetchLimit - pending[r].left
    <3>1. /\ k \in Kids /\ pending[r].left \in Nat
          /\ keyAge[k] <= FetchLimit - pending[r].left
      BY <2>1 DEF Inv, FetchesAreSound, Fetch
    <3> QED BY <1>3, <3>1, Limits
  <2> QED BY <1>1, <2>1 DEF Inv, FetchesAreSound
<1>5. CacheIsSound'
  <2>1. ASSUME cached # None, expiresIn > 0, NEW k \in cached
        PROVE  keyAge'[k] <= FetchLimit + Ttl - expiresIn
    <3>1. /\ k \in Kids /\ expiresIn \in Nat
          /\ keyAge[k] <= FetchLimit + Ttl - expiresIn
      BY <2>1 DEF Inv, CacheIsSound
    <3> QED BY <1>3, <3>1, Limits
  <2> QED BY <1>1, <2>1
          DEF Inv, CacheIsSound, CacheRests, UnknownIsUnknown
<1> QED BY <1>1, <1>3, <1>4, <1>5, PartsRest DEF Inv

LEMMA TickStep ==
  ASSUME Inv, Tick PROVE Inv'
<1>1. /\ UNCHANGED <<keys, cached, unknownKids, file, seen, policy, outcome>>
      /\ expiresIn' = IF expiresIn = 0 THEN 0 ELSE expiresIn - 1
      /\ checked' = IF Checks THEN Interval ELSE checked + 1
      /\ keyAge' = [k \in Kids |->
           IF k \in keys THEN 0
           ELSE IF keyAge[k] = KeyHorizon THEN KeyHorizon ELSE keyAge[k] + 1]
      /\ roleAge' = [r \in Roles |->
           IF r = file THEN 0
           ELSE IF roleAge[r] = RoleHorizon THEN RoleHorizon
                ELSE roleAge[r] + 1]
  BY DEF Tick
<1>2. /\ ProviderIsSound'
      /\ \A k \in Kids : keyAge'[k] <= keyAge[k] + 1 /\ keyAge'[k] \in Nat
                         /\ keyAge[k] \in Nat
  BY <1>1, Limits DEF Inv, ProviderIsSound
<1>3. MembersAreSound'
  <2>1. \A r \in Roles : /\ roleAge'[r] \in 0 .. RoleHorizon
                         /\ roleAge'[r] <= roleAge[r] + 1
    BY <1>1, Limits DEF Inv, MembersAreSound
  <2>2. checked' \in 0 .. Interval
    BY <1>1, Limits DEF Inv, MembersAreSound, Checks
  <2>3. policy' \in Roles /\ checked' < Interval =>
          roleAge'[policy'] <= checked'
    <3> SUFFICES ASSUME policy \in Roles, checked' < Interval
                 PROVE  roleAge'[policy] <= checked'
      BY <1>1
    <3>1. checked' = checked + 1 /\ checked \in 0 .. Interval
      BY <1>1, Limits DEF Inv, MembersAreSound, Checks
    <3>2. roleAge[policy] <= checked /\ roleAge[policy] \in Nat
      BY <3>1, Limits DEF Inv, MembersAreSound, PolicyAges
    <3> QED BY <2>1, <3>1, <3>2
  <2> QED BY <1>1, <2>1, <2>2, <2>3
          DEF Inv, MembersAreSound, PolicyAges
<1>4. FetchesAreSound'
  <2>1. pending \in [Requests -> Fetch]
    BY DEF Inv, FetchesAreSound
  <2>2. ASSUME NEW r \in Requests
        PROVE  /\ pending'[r] \in Fetch
               /\ pending'[r].served # None =>
                    \A k \in pending'[r].served :
                      keyAge'[k] <= FetchLimit - pending'[r].left
    <3>1. CASE pending[r].at = "idle"
      <4>1. pending'[r] = Idle
        BY <3>1 DEF Tick
      <4> QED BY <4>1, Limits DEF Idle, Fetch
    <3>2. CASE pending[r].at # "idle"
      <4> DEFINE p == [at |-> pending[r].at, served |-> pending[r].served,
                       left |-> pending[r].left - 1]
      <4>1. pending'[r] = [pending[r] EXCEPT !.left = @ - 1]
        BY <3>2 DEF Tick
      <4>2. pending[r] \in Fetch /\ pending[r].left > 0
        BY <2>1, <3>2 DEF Tick
      <4>3. pending'[r] = p /\ p \in Fetch
        BY <4>1, <4>2, Limits DEF Fetch
      <4>4. ASSUME p.served # None, NEW k \in p.served
            PROVE  keyAge'[k] <= FetchLimit - p.left
        <5>1. /\ k \in Kids /\ pending[r].left \in Nat
              /\ keyAge[k] <= FetchLimit - pending[r].left
          BY <4>2, <4>4 DEF Inv, FetchesAreSound, Fetch
        <5> QED BY <1>2, <5>1, Limits
      <4> QED BY <4>3, <4>4
    <3> QED BY <3>1, <3>2
  <2>3. pending' = [r \in Requests |-> pending'[r]]
    BY DEF Tick
  <2> HIDE DEF Fetch
  <2> QED BY <2>2, <2>3 DEF FetchesAreSound
<1>5. CacheIsSound'
  <2>1. ASSUME cached # None, expiresIn' > 0, NEW k \in cached
        PROVE  keyAge'[k] <= FetchLimit + Ttl - expiresIn'
    <3>1. /\ k \in Kids /\ expiresIn \in Nat /\ expiresIn > 0
          /\ expiresIn' = expiresIn - 1
          /\ keyAge[k] <= FetchLimit + Ttl - expiresIn
      BY <1>1, <2>1 DEF Inv, CacheIsSound
    <3> QED BY <1>2, <3>1, Limits
  <2>2. expiresIn' \in 0 .. Ttl
    BY <1>1, Limits DEF Inv, CacheIsSound
  <2> QED BY <1>1, <2>1, <2>2 DEF Inv, CacheIsSound, UnknownIsUnknown
<1> QED BY <1>1, <1>2, <1>3, <1>4, <1>5, PartsRest DEF Inv

LEMMA InvNext == Inv /\ [Next]_vars => Inv'
<1> SUFFICES ASSUME Inv, [Next]_vars PROVE Inv'
  OBVIOUS
<1>1. CASE UNCHANGED vars
  BY <1>1, PartsRest
  DEF Inv, vars, provider, resolver, members, KeysRest, CacheRests, MembersRest
<1> QED BY <1>1, EditStep, RotateStep, TickStep, AskStep, ServeStep,
           ArriveStep, RefusalStep DEF Next

(* Whoever is admitted holds a key the provider served within the life of    *)
(* the cache and the time of a fetch, and a role the file gave within its    *)
(* interval, and controls only as an owner at the desktop listener; what is  *)
(* remembered as unknown is not in the cache: through any rotations, edits,  *)
(* failures and overlapping fetches.                                         *)
THEOREM AdmissionStaysSound == Spec => []AdmissionIsSound
<1>1. Inv => AdmissionIsSound
  BY DEF Inv, ProviderIsSound, FetchesAreSound, Fetch, CacheIsSound,
         MembersAreSound, AnswersAreSound, AdmissionIsSound, TypeOK
<1> QED BY <1>1, InvInit, InvNext, PTL DEF Spec

-----------------------------------------------------------------------------
(* The open Project.  Every call has a commit generation of its own, so at   *)
(* most one of them owns the page, and what the owner has read is not older  *)
(* than what the page shows of the Project.                                  *)
DeskCalls ==
  [at : Desk!Steps, projectId : Projects, generation : Nat,
   commitGeneration : Nat, expected : Nat, project : Nat, evidence : Nat]

DeskTyped ==
  /\ truth \in [Projects -> Nat]
  /\ routeGeneration \in Nat /\ processPairCommitGeneration \in Nat
  /\ operations \in Nat
  /\ process \in [projectId : Projects \cup {"Nothing"}, project : Nat,
                  evidence : Nat,
                  state : {"loading", "current", "unavailable"}]
  /\ calls \in [Desk!Callers -> DeskCalls \cup {Desk!NoCall}]

CallsAreNumbered ==
  \A c \in Desk!Callers : calls[c] # Desk!NoCall =>
    /\ calls[c].commitGeneration <= processPairCommitGeneration
    /\ calls[c].generation <= routeGeneration
    /\ calls[c].generation = routeGeneration =>
         calls[c].projectId = currentRoute
    /\ \A d \in Desk!Callers \ {c} : calls[d] # Desk!NoCall =>
         calls[d].commitGeneration # calls[c].commitGeneration

(* What a call has read, against the service and the page.                   *)
ReadAfterShown(read, has) == read # Desk!Unread => read >= has
CallsAreFresh ==
  \A c \in Desk!Callers : calls[c] # Desk!NoCall =>
    /\ calls[c].project <= truth[calls[c].projectId]
    /\ calls[c].evidence <= truth[calls[c].projectId]
    /\ (/\ calls[c].commitGeneration = processPairCommitGeneration
        /\ calls[c].projectId = process.projectId) =>
         /\ ReadAfterShown(calls[c].project, process.project)
         /\ ReadAfterShown(calls[c].evidence, process.evidence)

ShownWasTrue ==
  process.projectId \in Projects =>
    /\ process.project <= truth[process.projectId]
    /\ process.evidence <= truth[process.projectId]

DeskInv ==
  /\ DeskTyped /\ CallsAreNumbered /\ CallsAreFresh /\ ShownWasTrue
  /\ Desk!RoutedProject

LEMMA DeskConstants ==
  /\ "Elsewhere" \notin Projects /\ "Nothing" \notin Projects
  /\ MaxOperations \in Nat
BY BrowserAssumption DEF Desk!DeskAssumption

LEMMA DeskInit == Desk!Init => DeskInv
<1> SUFFICES ASSUME Desk!Init PROVE DeskInv
  OBVIOUS
<1>1. DeskTyped
  BY DEF Desk!Init, DeskTyped, Desk!Unread
<1>2. \A c \in Desk!Callers : calls[c] = Desk!NoCall
  BY DEF Desk!Init
<1>3. process.projectId = "Nothing" /\ currentRoute = "Elsewhere"
  BY DEF Desk!Init
<1> QED BY <1>1, <1>2, <1>3, DeskConstants
  DEF DeskInv, CallsAreNumbered, CallsAreFresh, ShownWasTrue,
    Desk!RoutedProject

(* The service has a newer revision, and every call keeps what it read.      *)
LEMMA ServiceMoves ==
  ASSUME DeskInv, truth' \in [Projects -> Nat],
         \A p \in Projects : truth'[p] >= truth[p],
         UNCHANGED <<currentRoute, routeGeneration, calls, operations,
                     processPairCommitGeneration, process>>
  PROVE  DeskInv'
<1>1. DeskTyped' /\ CallsAreNumbered' /\ Desk!RoutedProject'
  BY DEF DeskInv, DeskTyped, CallsAreNumbered, Desk!RoutedProject
<1>2. ASSUME NEW c \in Desk!Callers, calls[c] # Desk!NoCall
      PROVE  /\ calls[c].project <= truth'[calls[c].projectId]
             /\ calls[c].evidence <= truth'[calls[c].projectId]
  <2>1. calls[c] \in DeskCalls
    BY <1>2 DEF DeskInv, DeskTyped
  <2>2. /\ calls[c].project \in Nat /\ calls[c].evidence \in Nat
        /\ calls[c].projectId \in Projects
    BY <2>1 DEF DeskCalls
  <2>3. truth[calls[c].projectId] \in Nat /\ truth'[calls[c].projectId] \in Nat
    BY <2>2 DEF DeskInv, DeskTyped
  <2> QED BY <1>2, <2>2, <2>3 DEF DeskInv, CallsAreFresh
<1>3. CallsAreFresh'
  BY <1>2 DEF DeskInv, CallsAreFresh
<1>4. ShownWasTrue'
  BY DEF DeskInv, DeskTyped, ShownWasTrue
<1> QED BY <1>1, <1>3, <1>4 DEF DeskInv

(* A call reads the Project or its evidence, or drops what it read.          *)
LEMMA CallReads ==
  ASSUME DeskInv, truth' \in [Projects -> Nat],
         \A p \in Projects : truth'[p] >= truth[p],
         NEW c \in Desk!Callers, NEW moved \in DeskCalls,
         calls[c] # Desk!NoCall,
         calls' = [calls EXCEPT ![c] = moved],
         moved.projectId = calls[c].projectId,
         moved.generation = calls[c].generation,
         moved.commitGeneration = calls[c].commitGeneration,
         moved.project \in
           {calls[c].project, Desk!Unread, truth'[calls[c].projectId]},
         moved.evidence \in
           {calls[c].evidence, Desk!Unread, truth'[calls[c].projectId]},
         UNCHANGED <<currentRoute, routeGeneration, operations,
                     processPairCommitGeneration, process>>
  PROVE  DeskInv'
<1> DEFINE p == calls[c].projectId
<1>1. /\ calls'[c] = moved
      /\ \A d \in Desk!Callers \ {c} : calls'[d] = calls[d]
      /\ calls' \in [Desk!Callers -> DeskCalls \cup {Desk!NoCall}]
  BY DEF DeskInv, DeskTyped
<1>2. /\ p \in Projects /\ truth[p] \in Nat /\ truth'[p] \in Nat
      /\ calls[c].project \in Nat /\ calls[c].evidence \in Nat
      /\ process.project \in Nat /\ process.evidence \in Nat
      /\ process'.project \in Nat /\ process'.evidence \in Nat
  BY DEF DeskInv, DeskTyped, DeskCalls
<1>3. DeskTyped' /\ Desk!RoutedProject'
  BY <1>1 DEF DeskInv, DeskTyped, Desk!RoutedProject
<1>4. CallsAreNumbered'
  BY <1>1 DEF DeskInv, CallsAreNumbered
<1>5. ShownWasTrue'
  BY DEF DeskInv, DeskTyped, ShownWasTrue
<1>6. ASSUME NEW d \in Desk!Callers \ {c}, calls[d] # Desk!NoCall
      PROVE  /\ calls[d].project <= truth'[calls[d].projectId]
             /\ calls[d].evidence <= truth'[calls[d].projectId]
  <2>1. calls[d] \in DeskCalls
    BY <1>6 DEF DeskInv, DeskTyped
  <2>2. /\ calls[d].project \in Nat /\ calls[d].evidence \in Nat
        /\ calls[d].projectId \in Projects
    BY <2>1 DEF DeskCalls
  <2>3. truth[calls[d].projectId] \in Nat /\ truth'[calls[d].projectId] \in Nat
    BY <2>2 DEF DeskInv, DeskTyped
  <2> QED BY <1>6, <2>2, <2>3 DEF DeskInv, CallsAreFresh
<1>7. /\ moved.project <= truth'[p] /\ moved.evidence <= truth'[p]
      /\ (/\ moved.commitGeneration = processPairCommitGeneration
          /\ moved.projectId = process.projectId) =>
           /\ ReadAfterShown(moved.project, process.project)
           /\ ReadAfterShown(moved.evidence, process.evidence)
  BY <1>2 DEF DeskInv, CallsAreFresh, ShownWasTrue, ReadAfterShown, Desk!Unread
<1>8. CallsAreFresh'
  BY <1>1, <1>6, <1>7 DEF DeskInv, CallsAreFresh
<1> QED BY <1>3, <1>4, <1>5, <1>8 DEF DeskInv

(* A step of the page: nothing older, and unavailable only when no call that *)
(* may still show the Project is left.                                       *)
NotOlder ==
  process'.projectId = process.projectId =>
    /\ process'.project >= process.project
    /\ process'.evidence >= process.evidence
NoOwner ==
  ~\E c \in Desk!Callers :
     /\ calls'[c] # Desk!NoCall
     /\ calls'[c].generation = routeGeneration'
     /\ calls'[c].commitGeneration = processPairCommitGeneration'
NotLate ==
  (process.state # "unavailable" /\ process'.state = "unavailable") => NoOwner

LEMMA OwnerIsAlone ==
  ASSUME DeskInv, NEW c \in Desk!Callers, Desk!ownsResult(c)
  PROVE  /\ calls[c] \in DeskCalls
         /\ calls[c].projectId = currentRoute
         /\ \A d \in Desk!Callers \ {c} : calls[d] # Desk!NoCall =>
              calls[d].commitGeneration # processPairCommitGeneration
<1>1. calls[c] # Desk!NoCall /\ calls[c].generation = routeGeneration
  BY DEF Desk!ownsResult, Desk!NoCall
<1>2. calls[c].commitGeneration = processPairCommitGeneration
  BY DEF Desk!ownsResult
<1>3. calls[c] \in DeskCalls
  BY <1>1 DEF DeskInv, DeskTyped
<1>4. calls[c].projectId = currentRoute
  BY <1>1 DEF DeskInv, CallsAreNumbered
<1>5. ASSUME NEW d \in Desk!Callers \ {c}, calls[d] # Desk!NoCall
      PROVE  calls[d].commitGeneration # processPairCommitGeneration
  BY <1>1, <1>2, <1>5 DEF DeskInv, CallsAreNumbered
<1> QED BY <1>3, <1>4, <1>5

LEMMA CallEnds ==
  ASSUME DeskInv, NEW c \in Desk!Callers, Desk!Ended(c),
         \/ process' = process
         \/ /\ Desk!ownsResult(c)
            /\ process' = [process EXCEPT !.state = "unavailable"]
         \/ /\ Desk!ownsResult(c) /\ Desk!publishProjectPair(c)
            /\ Desk!Unread \notin {calls[c].project, calls[c].evidence},
         UNCHANGED <<truth, currentRoute, routeGeneration, operations,
                     processPairCommitGeneration>>
  PROVE  DeskInv' /\ NotOlder /\ NotLate
<1>1. /\ calls'[c] = Desk!NoCall
      /\ \A d \in Desk!Callers \ {c} : calls'[d] = calls[d]
      /\ calls' \in [Desk!Callers -> DeskCalls \cup {Desk!NoCall}]
  BY DEF Desk!Ended, DeskInv, DeskTyped
<1>2. CallsAreNumbered'
  BY <1>1 DEF DeskInv, CallsAreNumbered
<1>3. Desk!ownsResult(c) => NoOwner
  BY <1>1, OwnerIsAlone DEF NoOwner
<1>4. CASE process' = process
  <2>1. DeskTyped' /\ CallsAreFresh' /\ ShownWasTrue' /\ Desk!RoutedProject'
    BY <1>1, <1>4 DEF DeskInv, DeskTyped, CallsAreFresh, ShownWasTrue,
      Desk!RoutedProject
  <2>2. NotOlder /\ NotLate
    BY <1>4 DEF DeskInv, DeskTyped, NotOlder, NotLate
  <2> QED BY <1>2, <2>1, <2>2 DEF DeskInv
<1>5. CASE /\ Desk!ownsResult(c)
           /\ process' = [process EXCEPT !.state = "unavailable"]
  <2>1. /\ process'.state = "unavailable"
        /\ process'.projectId = process.projectId
        /\ process'.project = process.project
        /\ process'.evidence = process.evidence
    BY <1>5 DEF DeskInv, DeskTyped
  <2>2. DeskTyped'
    BY <1>1, <1>5 DEF DeskInv, DeskTyped
  <2>3. CallsAreFresh' /\ ShownWasTrue' /\ Desk!RoutedProject'
    BY <1>1, <2>1 DEF DeskInv, CallsAreFresh, ShownWasTrue, Desk!RoutedProject
  <2>4. NotOlder /\ NotLate
    BY <1>3, <1>5, <2>1 DEF DeskInv, DeskTyped, NotOlder, NotLate
  <2> QED BY <1>2, <2>2, <2>3, <2>4 DEF DeskInv
<1>6. CASE /\ Desk!ownsResult(c) /\ Desk!publishProjectPair(c)
           /\ Desk!Unread \notin {calls[c].project, calls[c].evidence}
  <2>1. /\ process'.state = "current"
        /\ process'.projectId = calls[c].projectId
        /\ process'.project = calls[c].project
        /\ process'.evidence = calls[c].evidence
        /\ calls[c] # Desk!NoCall
        /\ calls[c].commitGeneration = processPairCommitGeneration
    BY <1>6 DEF Desk!publishProjectPair, Desk!ownsResult, Desk!NoCall
  <2>2. /\ calls[c] \in DeskCalls /\ calls[c].projectId = currentRoute
        /\ \A d \in Desk!Callers \ {c} : calls[d] # Desk!NoCall =>
             calls[d].commitGeneration # processPairCommitGeneration
    BY <1>6, OwnerIsAlone
  <2>3. DeskTyped'
    BY <1>1, <1>6, <2>2
    DEF DeskInv, DeskTyped, DeskCalls, Desk!publishProjectPair
  <2>4. ShownWasTrue' /\ Desk!RoutedProject'
    BY <2>1, <2>2 DEF DeskInv, CallsAreFresh, ShownWasTrue, Desk!RoutedProject
  <2>5. CallsAreFresh'
    BY <1>1, <2>2 DEF DeskInv, CallsAreFresh
  <2>6. NotOlder
    BY <1>6, <2>1 DEF DeskInv, CallsAreFresh, ReadAfterShown, NotOlder
  <2>7. NotLate
    BY <2>1 DEF NotLate
  <2> QED BY <1>2, <2>3, <2>4, <2>5, <2>6, <2>7 DEF DeskInv
<1> QED BY <1>4, <1>5, <1>6

(* A new call has the newest number and has read nothing.                    *)
LEMMA CallBegins ==
  ASSUME DeskInv, NEW c \in Desk!Callers, NEW begun \in DeskCalls,
         calls' = [calls EXCEPT ![c] = begun],
         begun.projectId = currentRoute',
         begun.generation = routeGeneration',
         begun.commitGeneration = processPairCommitGeneration + 1,
         begun.project = Desk!Unread, begun.evidence = Desk!Unread,
         processPairCommitGeneration' = processPairCommitGeneration + 1,
         \/ UNCHANGED <<currentRoute, routeGeneration, process>>
         \/ /\ routeGeneration' = routeGeneration + 1
            /\ process' = [process EXCEPT !.state = "loading"],
         operations' \in Nat,
         UNCHANGED truth
  PROVE  DeskInv' /\ NotOlder /\ NotLate
<1> DEFINE n == processPairCommitGeneration
<1>1. /\ calls'[c] = begun
      /\ \A d \in Desk!Callers \ {c} : calls'[d] = calls[d]
      /\ calls' \in [Desk!Callers -> DeskCalls \cup {Desk!NoCall}]
      /\ n \in Nat /\ routeGeneration \in Nat
  BY DEF DeskInv, DeskTyped
<1>2. /\ process'.projectId = process.projectId
      /\ process'.project = process.project
      /\ process'.evidence = process.evidence
      /\ process'.state \in {process.state, "loading"}
      /\ routeGeneration' >= routeGeneration
      /\ process'.state = "current" =>
           UNCHANGED <<currentRoute, routeGeneration, process>>
  BY <1>1 DEF DeskInv, DeskTyped
<1>3. DeskTyped'
  BY <1>1 DEF DeskInv, DeskTyped
<1>4. \A d \in Desk!Callers \ {c} : calls[d] # Desk!NoCall =>
        /\ calls[d].commitGeneration \in Nat /\ calls[d].generation \in Nat
        /\ calls[d].commitGeneration <= n
        /\ calls[d].generation <= routeGeneration
        /\ calls[d].generation = routeGeneration' =>
             calls[d].projectId = currentRoute'
  <2>1. ASSUME NEW d \in Desk!Callers \ {c}, calls[d] # Desk!NoCall
        PROVE  calls[d] \in DeskCalls
    BY <2>1 DEF DeskInv, DeskTyped
  <2> QED BY <1>1, <2>1 DEF DeskCalls, DeskInv, CallsAreNumbered
<1>5. CallsAreNumbered'
  <2>1. ASSUME NEW d \in Desk!Callers, calls'[d] # Desk!NoCall
        PROVE  /\ calls'[d].commitGeneration <= n + 1
               /\ calls'[d].generation <= routeGeneration'
               /\ calls'[d].generation = routeGeneration' =>
                    calls'[d].projectId = currentRoute'
    BY <1>1, <1>2, <1>4, <2>1
  <2>2. ASSUME NEW d \in Desk!Callers, NEW e \in Desk!Callers \ {d},
               calls'[d] # Desk!NoCall, calls'[e] # Desk!NoCall
        PROVE  calls'[e].commitGeneration # calls'[d].commitGeneration
    <3>1. CASE d # c /\ e # c
      BY <1>1, <2>2, <3>1 DEF DeskInv, CallsAreNumbered
    <3>2. CASE d = c \/ e = c
      BY <1>1, <1>4, <2>2, <3>2
    <3> QED BY <3>1, <3>2
  <2> QED BY <2>1, <2>2 DEF CallsAreNumbered
<1>6. CallsAreFresh'
  <2>1. begun.project <= truth[begun.projectId]
        /\ begun.evidence <= truth[begun.projectId]
    BY DEF DeskCalls, DeskInv, DeskTyped, Desk!Unread
  <2>2. ReadAfterShown(begun.project, process'.project)
        /\ ReadAfterShown(begun.evidence, process'.evidence)
    BY DEF ReadAfterShown
  <2>3. ASSUME NEW d \in Desk!Callers \ {c}, calls'[d] # Desk!NoCall
        PROVE  /\ calls'[d].project <= truth[calls'[d].projectId]
               /\ calls'[d].evidence <= truth[calls'[d].projectId]
               /\ calls'[d].commitGeneration # n + 1
    BY <1>1, <1>4, <2>3 DEF DeskInv, CallsAreFresh
  <2> QED BY <1>1, <2>1, <2>2, <2>3 DEF CallsAreFresh
<1>7. ShownWasTrue' /\ Desk!RoutedProject'
  BY <1>2 DEF DeskInv, ShownWasTrue, Desk!RoutedProject
<1>8. NotOlder
  BY <1>2 DEF NotOlder, DeskInv, DeskTyped
<1>9. NotLate
  BY <1>2 DEF NotLate
<1> QED BY <1>3, <1>5, <1>6, <1>7, <1>8, <1>9 DEF DeskInv

LEMMA BeginsReading ==
  ASSUME NEW p \in Projects, NEW g \in Nat, NEW n \in Nat
  PROVE  /\ Desk!Reading(p, g, n) \in DeskCalls
         /\ Desk!Reading(p, g, n).project = Desk!Unread
         /\ Desk!Reading(p, g, n).evidence = Desk!Unread
         /\ Desk!Reading(p, g, n).projectId = p
         /\ Desk!Reading(p, g, n).generation = g
         /\ Desk!Reading(p, g, n).commitGeneration = n
BY DEF Desk!Reading, DeskCalls, Desk!Steps, Desk!Unread

LEMMA Unmoved ==
  ASSUME DeskInv, UNCHANGED process
  PROVE  NotOlder /\ NotLate
BY DEF DeskInv, DeskTyped, NotOlder, NotLate

LEMMA ReadingStep ==
  ASSUME DeskInv, NEW c \in Desk!Callers,
         \/ Desk!ReadProject(c) \/ Desk!ReadEvidence(c)
         \/ Desk!EvidenceFailed(c) \/ Desk!changeProject(c)
  PROVE  DeskInv' /\ NotOlder /\ NotLate
<1> USE DEF Desk!Elsewhere, Desk!service, Desk!generations
<1> DEFINE p == calls[c].projectId
<1>1. /\ calls[c] # Desk!NoCall /\ calls[c] \in DeskCalls
      /\ p \in Projects /\ truth[p] \in Nat /\ truth \in [Projects -> Nat]
      /\ \A q \in Projects : truth[q] >= truth[q]
      /\ calls \in [Desk!Callers -> DeskCalls \cup {Desk!NoCall}]
  <2>1. calls[c] # Desk!NoCall
    BY DEF Desk!ReadProject, Desk!ReadEvidence, Desk!EvidenceFailed,
      Desk!changeProject, Desk!NoCall
  <2> QED BY <2>1 DEF DeskInv, DeskTyped, DeskCalls
<1>2. UNCHANGED <<currentRoute, routeGeneration, operations, process,
                  processPairCommitGeneration>>
  BY DEF Desk!ReadProject, Desk!ReadEvidence, Desk!EvidenceFailed,
    Desk!changeProject
<1>3. CASE Desk!ReadProject(c)
  <2> DEFINE moved == [calls[c] EXCEPT !.project = truth[p]]
  <2>1. calls' = [calls EXCEPT ![c] = moved]
    BY <1>1, <1>3 DEF Desk!ReadProject
  <2>2. /\ moved \in DeskCalls /\ moved.project = truth[p]
        /\ moved.evidence = calls[c].evidence /\ moved.projectId = p
        /\ moved.generation = calls[c].generation
        /\ moved.commitGeneration = calls[c].commitGeneration
    BY <1>1 DEF DeskCalls
  <2>3. truth' = truth
    BY <1>3 DEF Desk!ReadProject
  <2> HIDE DEF moved
  <2> QED BY <1>1, <1>2, <2>1, <2>2, <2>3, CallReads, Unmoved
<1>4. CASE Desk!ReadEvidence(c)
  <2> DEFINE moved == [calls[c] EXCEPT !.evidence = truth[p]]
  <2>1. calls' = [calls EXCEPT ![c] = moved]
    BY <1>1, <1>4 DEF Desk!ReadEvidence
  <2>2. /\ moved \in DeskCalls /\ moved.evidence = truth[p]
        /\ moved.project = calls[c].project /\ moved.projectId = p
        /\ moved.generation = calls[c].generation
        /\ moved.commitGeneration = calls[c].commitGeneration
    BY <1>1 DEF DeskCalls
  <2>3. truth' = truth
    BY <1>4 DEF Desk!ReadEvidence
  <2> HIDE DEF moved
  <2> QED BY <1>1, <1>2, <2>1, <2>2, <2>3, CallReads, Unmoved
<1>5. CASE Desk!EvidenceFailed(c)
  <2> DEFINE moved ==
        Desk!Reading(p, calls[c].generation, calls[c].commitGeneration)
  <2>1. calls' = [calls EXCEPT ![c] = moved]
    BY <1>1, <1>5 DEF Desk!EvidenceFailed
  <2>2. calls[c].generation \in Nat /\ calls[c].commitGeneration \in Nat
    BY <1>1 DEF DeskCalls
  <2>3. /\ moved \in DeskCalls /\ moved.evidence = Desk!Unread
        /\ moved.project = Desk!Unread /\ moved.projectId = p
        /\ moved.generation = calls[c].generation
        /\ moved.commitGeneration = calls[c].commitGeneration
    BY <1>1, <2>2, BeginsReading
  <2>4. truth' = truth
    BY <1>5 DEF Desk!EvidenceFailed
  <2> HIDE DEF moved
  <2> QED BY <1>1, <1>2, <2>1, <2>3, <2>4, CallReads, Unmoved
<1>6. CASE Desk!changeProject(c)
  <2> DEFINE settled == [[calls[c] EXCEPT !.at = "Changed"]
                            EXCEPT !.project = truth[p] + 1]
             unknown == [calls[c] EXCEPT !.at = "Reading"]
  <2>1. /\ settled \in DeskCalls /\ settled.project = truth[p] + 1
        /\ settled.evidence = calls[c].evidence /\ settled.projectId = p
        /\ settled.generation = calls[c].generation
        /\ settled.commitGeneration = calls[c].commitGeneration
    <3>1. [calls[c] EXCEPT !.at = "Changed"] \in DeskCalls
      BY <1>1 DEF DeskCalls, Desk!Steps
    <3>2. truth[p] + 1 \in Nat
      BY <1>1
    <3>3. settled \in DeskCalls
      BY <3>1, <3>2 DEF DeskCalls
    <3> QED BY <1>1, <3>3 DEF DeskCalls
  <2>2. /\ unknown \in DeskCalls /\ unknown.project = calls[c].project
        /\ unknown.evidence = calls[c].evidence /\ unknown.projectId = p
        /\ unknown.generation = calls[c].generation
        /\ unknown.commitGeneration = calls[c].commitGeneration
    BY <1>1 DEF DeskCalls, Desk!Steps
  <2>3. /\ calls' = [calls EXCEPT ![c] = settled] =>
             truth' = [truth EXCEPT ![p] = @ + 1]
        /\ truth' = truth \/ truth' = [truth EXCEPT ![p] = @ + 1]
        /\ \/ calls' = [calls EXCEPT ![c] = settled]
           \/ calls' = [calls EXCEPT ![c] = unknown]
    PROOF
    <3>1. \/ /\ truth' = [truth EXCEPT ![p] = @ + 1]
             /\ \/ calls' = [calls EXCEPT ![c].at = "Changed",
                                         ![c].project = truth[p] + 1]
                \/ calls' = [calls EXCEPT ![c].at = "Reading"]
          \/ truth' = truth /\ calls' = [calls EXCEPT ![c].at = "Reading"]
      BY <1>6 DEF Desk!changeProject, Desk!Changed
    <3>2. [calls EXCEPT ![c].at = "Changed", ![c].project = truth[p] + 1]
            = [calls EXCEPT ![c] = settled]
      BY <1>1
    <3>3. [calls EXCEPT ![c].at = "Reading"] = [calls EXCEPT ![c] = unknown]
      BY <1>1
    <3>4. [calls EXCEPT ![c] = settled] # [calls EXCEPT ![c] = unknown]
      <4>1. settled.at = "Changed" /\ unknown.at = "Reading"
        BY <1>1 DEF DeskCalls
      <4>2. /\ [calls EXCEPT ![c] = settled][c] = settled
            /\ [calls EXCEPT ![c] = unknown][c] = unknown
        BY <1>1
      <4> HIDE DEF settled, unknown
      <4> QED BY <4>1, <4>2
    <3> HIDE DEF settled, unknown
    <3> QED BY <3>1, <3>2, <3>3, <3>4
  <2>4. /\ truth' \in [Projects -> Nat]
        /\ \A q \in Projects : truth'[q] >= truth[q]
        /\ calls' = [calls EXCEPT ![c] = settled] => truth'[p] = truth[p] + 1
    BY <1>1, <2>3
  <2> HIDE DEF settled, unknown
  <2>5. CASE calls' = [calls EXCEPT ![c] = settled]
    BY <1>1, <1>2, <2>1, <2>4, <2>5, CallReads, Unmoved
  <2>6. CASE calls' = [calls EXCEPT ![c] = unknown]
    BY <1>1, <1>2, <2>2, <2>4, <2>6, CallReads, Unmoved
  <2> QED BY <2>3, <2>5, <2>6
<1> QED BY <1>3, <1>4, <1>5, <1>6

LEMMA DeskStep ==
  ASSUME DeskInv, [Desk!Next]_Desk!vars
  PROVE  DeskInv' /\ NotOlder /\ NotLate
<1> USE DEF Desk!Elsewhere, Desk!service, Desk!generations
<1>0. /\ truth \in [Projects -> Nat] /\ routeGeneration \in Nat
      /\ processPairCommitGeneration \in Nat /\ operations \in Nat
      /\ calls \in [Desk!Callers -> DeskCalls \cup {Desk!NoCall}]
      /\ Desk!Loader \in Desk!Callers
  BY DeskConstants DEF DeskInv, DeskTyped, Desk!Loader, Desk!Callers
<1>1. ASSUME NEW p \in Projects, Desk!ChangedElsewhere(p)
      PROVE  DeskInv' /\ NotOlder /\ NotLate
  <2>1. /\ truth' \in [Projects -> Nat]
        /\ \A q \in Projects : truth'[q] >= truth[q]
    BY <1>0, <1>1 DEF Desk!ChangedElsewhere, Desk!Changed
  <2> QED BY <1>1, <2>1, ServiceMoves, Unmoved
        DEF Desk!ChangedElsewhere, Desk!NothingShown
<1>2. ASSUME NEW route \in Projects \cup {"Elsewhere"},
             Desk!routeChanged(route)
      PROVE  DeskInv' /\ NotOlder /\ NotLate
  <2>1. CASE route \in Projects
    <3> DEFINE begun == Desk!Reading(route, routeGeneration + 1,
                                     processPairCommitGeneration + 1)
    <3>0. /\ routeGeneration + 1 \in Nat
          /\ processPairCommitGeneration + 1 \in Nat
      BY <1>0
    <3>1. /\ begun \in DeskCalls /\ begun.project = Desk!Unread
          /\ begun.evidence = Desk!Unread /\ begun.projectId = route
          /\ begun.generation = routeGeneration + 1
          /\ begun.commitGeneration = processPairCommitGeneration + 1
      BY <2>1, <3>0, BeginsReading
    <3>2. /\ calls' = [calls EXCEPT ![Desk!Loader] = begun]
          /\ currentRoute' = route /\ routeGeneration' = routeGeneration + 1
          /\ processPairCommitGeneration' = processPairCommitGeneration + 1
          /\ process' = [process EXCEPT !.state = "loading"]
          /\ UNCHANGED <<truth, operations>>
      BY <1>2, <2>1 DEF Desk!routeChanged, Desk!loadProcess
    <3> HIDE DEF begun
    <3> QED BY <1>0, <3>1, <3>2, CallBegins
  <2>2. CASE route \notin Projects
    <3>1. /\ calls'[Desk!Loader] = Desk!NoCall
          /\ \A d \in Desk!Callers \ {Desk!Loader} : calls'[d] = calls[d]
          /\ calls' \in [Desk!Callers -> DeskCalls \cup {Desk!NoCall}]
          /\ currentRoute' \notin Projects
          /\ routeGeneration' = routeGeneration + 1
          /\ UNCHANGED <<truth, operations, process,
                         processPairCommitGeneration>>
      BY <1>0, <1>2, <2>2 DEF Desk!routeChanged
    <3>2. \A d \in Desk!Callers : calls[d] # Desk!NoCall =>
            /\ calls[d].generation \in Nat
            /\ calls[d].generation <= routeGeneration
      BY DEF DeskInv, DeskTyped, DeskCalls, CallsAreNumbered
    <3>3. DeskTyped' /\ ShownWasTrue' /\ Desk!RoutedProject'
      BY <1>0, <3>1 DEF DeskInv, DeskTyped, ShownWasTrue, Desk!RoutedProject
    <3>4. CallsAreNumbered'
      BY <1>0, <3>1, <3>2 DEF DeskInv, CallsAreNumbered
    <3>5. CallsAreFresh'
      BY <3>1 DEF DeskInv, CallsAreFresh
    <3> QED BY <3>1, <3>3, <3>4, <3>5, Unmoved DEF DeskInv
  <2> QED BY <2>1, <2>2
<1>3. CASE Desk!bootstrapState
  <2>1. CASE lastBootstrapCursor # 0 /\ currentRoute \in Projects
    <3> DEFINE begun == Desk!Reading(currentRoute, routeGeneration,
                                     processPairCommitGeneration + 1)
    <3>1. /\ begun \in DeskCalls /\ begun.project = Desk!Unread
          /\ begun.evidence = Desk!Unread /\ begun.projectId = currentRoute
          /\ begun.generation = routeGeneration
          /\ begun.commitGeneration = processPairCommitGeneration + 1
      BY <1>0, <2>1, BeginsReading
    <3>2. /\ calls' = [calls EXCEPT ![Desk!Loader] = begun]
          /\ processPairCommitGeneration' = processPairCommitGeneration + 1
          /\ UNCHANGED <<truth, operations, currentRoute, routeGeneration,
                         process>>
      BY <1>3, <2>1 DEF Desk!bootstrapState, Desk!loadProcess
    <3> HIDE DEF begun
    <3> QED BY <1>0, <3>1, <3>2, CallBegins
  <2>2. CASE UNCHANGED <<calls, processPairCommitGeneration>>
    <3>1. \A q \in Projects : truth'[q] >= truth[q] /\ truth' = truth
      BY <1>0, <1>3 DEF Desk!bootstrapState
    <3> QED BY <1>0, <1>3, <2>2, <3>1, ServiceMoves, Unmoved
          DEF Desk!bootstrapState
  <2> QED BY <1>3, <2>1, <2>2 DEF Desk!bootstrapState
<1>4. CASE Desk!Process
  <2> DEFINE c == operations + 1
             reading == Desk!Reading(currentRoute, routeGeneration,
                                     processPairCommitGeneration + 1)
             begun == [[reading EXCEPT !.at = "Sent"]
                         EXCEPT !.expected = process.project]
  <2>1. currentRoute \in Projects /\ operations < MaxOperations
    BY <1>4 DEF Desk!Process
  <2>2. c \in Desk!Callers
    BY <1>0, <2>1, DeskConstants DEF Desk!Callers
  <2>3. /\ reading \in DeskCalls /\ reading.project = Desk!Unread
        /\ reading.evidence = Desk!Unread /\ reading.projectId = currentRoute
        /\ reading.generation = routeGeneration
        /\ reading.commitGeneration = processPairCommitGeneration + 1
    <3>1. processPairCommitGeneration + 1 \in Nat
      BY <1>0
    <3> QED BY <1>0, <2>1, <3>1, BeginsReading
  <2>4. /\ calls' = [calls EXCEPT ![c] = begun]
        /\ processPairCommitGeneration' = processPairCommitGeneration + 1
        /\ UNCHANGED <<truth, currentRoute, routeGeneration, process>>
        /\ operations' \in Nat
    BY <1>0, <1>4 DEF Desk!Process
  <2>5. process.project \in Nat
    BY DEF DeskInv, DeskTyped
  <2> HIDE DEF reading
  <2>6. /\ begun \in DeskCalls /\ begun.project = Desk!Unread
        /\ begun.evidence = Desk!Unread /\ begun.projectId = currentRoute
        /\ begun.generation = routeGeneration
        /\ begun.commitGeneration = processPairCommitGeneration + 1
    BY <2>3, <2>5 DEF DeskCalls, Desk!Steps
  <2> HIDE DEF begun, c
  <2> QED BY <1>0, <2>2, <2>4, <2>6, CallBegins
<1>5. ASSUME NEW c \in Desk!Callers, Desk!Close(c)
      PROVE  DeskInv' /\ NotOlder /\ NotLate
  <2>1. /\ Desk!Ended(c)
        /\ UNCHANGED <<truth, currentRoute, routeGeneration, operations,
                       processPairCommitGeneration>>
    BY <1>5 DEF Desk!Close, Desk!PairRead, Desk!PairFailed
  <2>2. \/ process' = process
        \/ /\ Desk!ownsResult(c)
           /\ process' = [process EXCEPT !.state = "unavailable"]
        \/ /\ Desk!ownsResult(c) /\ Desk!publishProjectPair(c)
           /\ Desk!Unread \notin {calls[c].project, calls[c].evidence}
    BY <1>5 DEF Desk!Close, Desk!PairRead, Desk!PairFailed
  <2> QED BY <2>1, <2>2, CallEnds
<1>6. ASSUME NEW c \in Desk!Callers,
             Desk!Read(c) \/ Desk!EvidenceFailed(c) \/ Desk!changeProject(c)
      PROVE  DeskInv' /\ NotOlder /\ NotLate
  BY <1>6, ReadingStep DEF Desk!Read
<1>7. CASE \/ Desk!publishProcessingProjection \/ Desk!Restart
           \/ UNCHANGED Desk!vars
  <2>1. /\ UNCHANGED <<truth, currentRoute, routeGeneration, calls,
                       operations, processPairCommitGeneration, process>>
        /\ \A q \in Projects : truth'[q] >= truth[q]
    BY <1>0, <1>7 DEF Desk!publishProcessingProjection, Desk!Restart,
      Desk!NothingShown, Desk!vars
  <2> QED BY <1>0, <2>1, ServiceMoves, Unmoved
<1> QED BY <1>1, <1>2, <1>3, <1>4, <1>5, <1>6, <1>7 DEF Desk!Next

-----------------------------------------------------------------------------
(* The review of an Asset.  While the detail of the route is read, nothing   *)
(* of that route is reviewed; once it is shown, only the latest review may   *)
(* replace it, and that review is of the revision shown or a newer one.      *)
Reviews ==
  [at : {"Sent", "Accepted", "Failed", "Read", "Saved", "NotSaved"},
   assetId : Assets, generation : Nat, mount : Nat, expected : Nat,
   revision : Nat]
Details ==
  [assetId : Assets \cup {"Nothing"}, revision : Nat,
   state : {"shown", "loading", "unavailable"}]
DetailReads ==
  [assetId : Assets, generation : Nat, revision : Nat \cup {-1}]

Panels ==
  [mount : Nat, seen : (Assets \cup {"Nothing"}) \X Nat, pending : Nat,
   result : {"none", "saved", "notSaved"}]

ReviewTyped ==
  /\ reviewTruth \in [Assets -> Nat]
  /\ reviewRoute \in Assets \cup {"Library"}
  /\ reviewGeneration \in Nat
  /\ latestReviewOperation \in Nat /\ submitted \in Nat
  /\ libraryDetail \in Details
  /\ detailFiber \in DetailReads \cup {Review!NoRead}
  /\ reviews \in [Review!Operations -> Reviews \cup {Review!NoReview}]
  /\ panel \in Panels

(* The detail shown is of the route, and was true.                           *)
DetailWasTrue ==
  /\ libraryDetail.assetId \in {reviewRoute, "Nothing"}
  /\ libraryDetail.assetId \in Assets =>
       libraryDetail.revision <= reviewTruth[libraryDetail.assetId]
  /\ libraryDetail.assetId = "Nothing" => libraryDetail.revision = 0

Answering == {"Sent", "Accepted", "Failed", "Read"}
DetailIsAlone ==
  detailFiber # Review!NoRead =>
    /\ detailFiber.assetId = reviewRoute
    /\ libraryDetail.state = "loading"
    /\ \A o \in Review!Operations : reviews[o].at \in Answering =>
         reviews[o].generation # reviewGeneration
    /\ detailFiber.revision # Review!Unread =>
         /\ detailFiber.revision <= reviewTruth[detailFiber.assetId]
         /\ libraryDetail.assetId = detailFiber.assetId =>
              detailFiber.revision >= libraryDetail.revision

(* A review that was answered, of the route that is open.                    *)
ReviewsAreNewer ==
  \A o \in Review!Operations : reviews[o].at \in Answering =>
    /\ reviews[o].generation <= reviewGeneration
    /\ reviews[o].at \in {"Accepted", "Read"} =>
         /\ reviews[o].revision <= reviewTruth[reviews[o].assetId]
         /\ (/\ o = latestReviewOperation
             /\ reviews[o].generation = reviewGeneration
             /\ libraryDetail.assetId = reviews[o].assetId) =>
              reviews[o].revision >= libraryDetail.revision

ReviewInv ==
  /\ ReviewTyped /\ DetailWasTrue /\ DetailIsAlone /\ ReviewsAreNewer

LEMMA ReviewConstants ==
  /\ MaxReviews \in Nat
  /\ "Library" \notin Assets /\ "Nothing" \notin Assets
BY BrowserAssumption DEF Review!ReviewAssumption

LEMMA ReviewInit == Review!Init => ReviewInv
<1> SUFFICES ASSUME Review!Init PROVE ReviewInv
  OBVIOUS
<1>1. ReviewTyped
  BY DEF Review!Init, ReviewTyped, Review!NoDetail, Details, Review!Mounted,
    Panels, Review!Seen
<1>2. /\ detailFiber = Review!NoRead
      /\ \A o \in Review!Operations : reviews[o].at = "None"
      /\ libraryDetail.assetId = "Nothing" /\ libraryDetail.revision = 0
  BY DEF Review!Init, Review!NoDetail, Review!NoReview
<1> QED BY <1>1, <1>2, ReviewConstants
  DEF ReviewInv, DetailWasTrue, DetailIsAlone, ReviewsAreNewer, Answering

NewerShown ==
  libraryDetail'.assetId = libraryDetail.assetId =>
    libraryDetail'.revision >= libraryDetail.revision

LEMMA TypedReview ==
  ASSUME ReviewTyped, NEW o \in Review!Operations,
         reviews[o].at # "None"
  PROVE  /\ reviews[o] \in Reviews /\ reviews[o].assetId \in Assets
         /\ reviews[o].revision \in Nat /\ reviews[o].generation \in Nat
         /\ reviewTruth[reviews[o].assetId] \in Nat
BY DEF ReviewTyped, Reviews, Review!NoReview

LEMMA TypedDetail ==
  ASSUME ReviewTyped
  PROVE  /\ libraryDetail.revision \in Nat
         /\ libraryDetail.assetId \in Assets \cup {"Nothing"}
         /\ detailFiber # Review!NoRead =>
              /\ detailFiber \in DetailReads
              /\ detailFiber.assetId \in Assets
              /\ detailFiber.revision \in Int /\ detailFiber.generation \in Nat
              /\ reviewTruth[detailFiber.assetId] \in Nat
BY DEF ReviewTyped, Details, DetailReads

(* The reviews move on, the detail stays: a review that has just been        *)
(* answered is of what the service has.                                      *)
LEMMA ReviewMoves ==
  ASSUME ReviewInv, ReviewTyped', NEW o \in Review!Operations,
         \A a \in Assets : reviewTruth'[a] >= reviewTruth[a],
         \A n \in Review!Operations \ {o} : reviews'[n] = reviews[n],
         \/ reviews'[o].at \notin Answering
         \/ /\ reviews[o].at \in Answering /\ reviews'[o].at \in Answering
            /\ reviews'[o].generation = reviews[o].generation
            /\ reviews'[o].assetId = reviews[o].assetId
            /\ reviews'[o].at \in {"Accepted", "Read"} =>
                 reviews'[o].revision = reviewTruth'[reviews[o].assetId],
         libraryDetail'.assetId = libraryDetail.assetId,
         libraryDetail'.revision = libraryDetail.revision,
         libraryDetail'.state = libraryDetail.state
           \/ detailFiber = Review!NoRead,
         UNCHANGED <<reviewRoute, reviewGeneration, latestReviewOperation,
                     detailFiber>>
  PROVE  ReviewInv' /\ NewerShown
<1>1. DetailWasTrue'
  BY TypedDetail DEF ReviewInv, ReviewTyped, DetailWasTrue
<1>2. DetailIsAlone'
  <2>1. \A n \in Review!Operations : reviews'[n].at \in Answering =>
          /\ reviews[n].at \in Answering
          /\ reviews'[n].generation = reviews[n].generation
    OBVIOUS
  <2>2. detailFiber # Review!NoRead =>
          reviewTruth'[detailFiber.assetId] >= reviewTruth[detailFiber.assetId]
          /\ reviewTruth'[detailFiber.assetId] \in Nat
    BY TypedDetail DEF ReviewInv, ReviewTyped
  <2> QED BY <2>1, <2>2, TypedDetail DEF ReviewInv, DetailIsAlone
<1>3. ReviewsAreNewer'
  <2> SUFFICES ASSUME NEW n \in Review!Operations, reviews'[n].at \in Answering
      PROVE  /\ reviews'[n].generation <= reviewGeneration
             /\ reviews'[n].at \in {"Accepted", "Read"} =>
                  /\ reviews'[n].revision <= reviewTruth'[reviews'[n].assetId]
                  /\ (/\ n = latestReviewOperation
                      /\ reviews'[n].generation = reviewGeneration
                      /\ libraryDetail.assetId = reviews'[n].assetId) =>
                       reviews'[n].revision >= libraryDetail.revision
    BY DEF ReviewsAreNewer
  <2>1. /\ reviews[n].at \in Answering
        /\ reviews'[n].generation = reviews[n].generation
        /\ reviews'[n].assetId = reviews[n].assetId
        /\ reviews[n].assetId \in Assets /\ reviews[n].revision \in Nat
        /\ reviewTruth[reviews[n].assetId] \in Nat
        /\ reviewTruth'[reviews[n].assetId] \in Nat
        /\ reviewTruth'[reviews[n].assetId] >= reviewTruth[reviews[n].assetId]
    <3>1. /\ reviews[n].at \in Answering
          /\ reviews'[n].generation = reviews[n].generation
          /\ reviews'[n].assetId = reviews[n].assetId
      OBVIOUS
    <3> QED BY <3>1, TypedReview DEF ReviewInv, ReviewTyped, Answering
  <2>2. CASE n # o
    BY <2>1, <2>2, TypedDetail DEF ReviewInv, ReviewsAreNewer
  <2>3. CASE n = o
    <3>1. reviews'[n].at \in {"Accepted", "Read"} =>
            reviews'[n].revision = reviewTruth'[reviews[n].assetId]
      BY <2>3
    <3>2. libraryDetail.assetId = reviews[n].assetId =>
            libraryDetail.revision <= reviewTruth[reviews[n].assetId]
      BY <2>1 DEF ReviewInv, DetailWasTrue
    <3> QED BY <2>1, <3>1, <3>2, TypedDetail DEF ReviewInv, ReviewsAreNewer
  <2> QED BY <2>2, <2>3
<1> QED BY <1>1, <1>2, <1>3, TypedDetail DEF ReviewInv, NewerShown

(* The review that owns the route shows what it was answered, and is over.   *)
LEMMA OwnerShows ==
  ASSUME ReviewInv, ReviewTyped', NEW o \in Review!Operations,
         reviews[o].at \in {"Accepted", "Read"},
         Review!ownsCurrentAssetRoute(o),
         Review!Show(reviews[o].assetId, reviews[o].revision),
         reviews'[o].at \notin Answering,
         \A n \in Review!Operations \ {o} : reviews'[n] = reviews[n],
         UNCHANGED <<reviewTruth, reviewRoute, reviewGeneration,
                     latestReviewOperation, detailFiber>>
  PROVE  ReviewInv' /\ NewerShown
<1>1. /\ reviews[o].generation = reviewGeneration
      /\ reviewRoute = reviews[o].assetId /\ latestReviewOperation = o
  BY DEF Review!ownsCurrentAssetRoute
<1>2. /\ libraryDetail'.assetId = reviews[o].assetId
      /\ libraryDetail'.revision = reviews[o].revision
      /\ reviews[o].at \in Answering
  BY DEF Review!Show, Answering
<1>3. reviews[o].assetId \in Assets
  BY TypedReview DEF ReviewInv
<1>4. detailFiber = Review!NoRead
  BY <1>1, <1>2 DEF ReviewInv, DetailIsAlone
<1>5. DetailWasTrue'
  BY <1>1, <1>2, <1>3, ReviewConstants DEF ReviewInv, ReviewsAreNewer,
    DetailWasTrue
<1>6. DetailIsAlone'
  BY <1>4 DEF DetailIsAlone
<1>7. ReviewsAreNewer'
  BY <1>1, <1>2 DEF ReviewInv, ReviewsAreNewer
<1>8. NewerShown
  BY <1>1, <1>2 DEF ReviewInv, ReviewsAreNewer, NewerShown
<1> QED BY <1>5, <1>6, <1>7, <1>8 DEF ReviewInv

LEMMA RouteChanges ==
  ASSUME ReviewInv, ReviewTyped', NEW route \in Assets \cup {"Library"},
         Review!routeChanged(route)
  PROVE  ReviewInv' /\ NewerShown
<1>1. /\ reviewRoute' = route /\ reviewGeneration' = reviewGeneration + 1
      /\ reviewGeneration \in Nat
      /\ UNCHANGED <<reviewTruth, reviews, latestReviewOperation>>
  BY DEF Review!routeChanged, ReviewInv, ReviewTyped
<1>2. \A o \in Review!Operations : reviews[o].at \in Answering =>
        /\ reviews[o].generation \in Nat
        /\ reviews[o].generation <= reviewGeneration
  BY TypedReview DEF ReviewInv, ReviewsAreNewer, Answering
<1>3. \A o \in Review!Operations : reviews[o].at \in Answering =>
        /\ reviews[o].generation <= reviewGeneration'
        /\ reviews[o].generation # reviewGeneration'
  BY <1>1, <1>2
<1>4. /\ libraryDetail'.assetId \in {route, "Nothing"}
      /\ libraryDetail'.assetId = "Nothing" => libraryDetail'.revision = 0
      /\ libraryDetail'.assetId # "Nothing" =>
           /\ libraryDetail'.assetId = libraryDetail.assetId
           /\ libraryDetail'.revision = libraryDetail.revision
      /\ route # "Library" => libraryDetail'.state = "loading"
  BY ReviewConstants
  DEF Review!routeChanged, ReviewInv, ReviewTyped, Details, Review!NoDetail
<1>5. DetailWasTrue'
  BY <1>1, <1>4, ReviewConstants DEF ReviewInv, DetailWasTrue
<1>6. DetailIsAlone'
  <2>1. CASE route = "Library"
    BY <2>1 DEF Review!routeChanged, DetailIsAlone
  <2>2. CASE route # "Library"
    <3>1. detailFiber'.assetId = route /\ detailFiber'.revision = Review!Unread
      BY <2>2 DEF Review!routeChanged
    <3> QED BY <1>1, <1>3, <1>4, <2>2, <3>1 DEF DetailIsAlone
  <2> QED BY <2>1, <2>2
<1>7. ReviewsAreNewer'
  BY <1>1, <1>3 DEF ReviewInv, ReviewsAreNewer
<1>8. NewerShown
  BY <1>4, TypedDetail DEF ReviewInv, DetailWasTrue, NewerShown
<1> QED BY <1>5, <1>6, <1>7, <1>8 DEF ReviewInv

(* A review moves to another step with what it was answered.                 *)
LEMMA MovedReview ==
  ASSUME ReviewTyped, NEW o \in Review!Operations, reviews[o].at # "None",
         NEW step \in {"Sent", "Accepted", "Failed", "Read", "Saved",
                       "NotSaved"},
         NEW revised \in Nat,
         reviews' = [reviews EXCEPT ![o] =
           [[reviews[o] EXCEPT !.at = step] EXCEPT !.revision = revised]]
  PROVE  /\ reviews' \in [Review!Operations -> Reviews \cup {Review!NoReview}]
         /\ reviews'[o].at = step /\ reviews'[o].revision = revised
         /\ reviews'[o].generation = reviews[o].generation
         /\ reviews'[o].assetId = reviews[o].assetId
         /\ \A n \in Review!Operations \ {o} : reviews'[n] = reviews[n]
<1> DEFINE half == [reviews[o] EXCEPT !.at = step]
           moved == [half EXCEPT !.revision = revised]
<1>1. reviews[o] \in Reviews
  BY DEF ReviewTyped, Review!NoReview
<1>2. /\ half \in Reviews /\ half.at = step
      /\ half.generation = reviews[o].generation
      /\ half.assetId = reviews[o].assetId
  BY <1>1 DEF Reviews
<1> HIDE DEF half
<1>3. /\ moved \in Reviews /\ moved.at = step /\ moved.revision = revised
      /\ moved.generation = half.generation
      /\ moved.assetId = half.assetId
  BY <1>2 DEF Reviews
<1>4. reviews' = [reviews EXCEPT ![o] = moved]
  BY DEF half
<1> HIDE DEF moved
<1> QED BY <1>2, <1>3, <1>4 DEF ReviewTyped

(* The steps of a review, one by one.                                        *)
LEMMA ReviewAnswered ==
  ASSUME ReviewInv, NEW o \in Review!Operations, Review!review(o)
  PROVE  ReviewInv' /\ NewerShown
<1> USE DEF Review!runtime, Review!bounds
<1> DEFINE a == reviews[o].assetId
<1>1. /\ reviews[o].at = "Sent" /\ reviews[o].at \in Answering
      /\ reviews[o] \in Reviews /\ a \in Assets /\ reviewTruth[a] \in Nat
      /\ reviews[o].revision \in Nat
      /\ reviews \in [Review!Operations -> Reviews \cup {Review!NoReview}]
      /\ UNCHANGED <<reviewRoute, reviewGeneration, latestReviewOperation,
                     libraryDetail, detailFiber, panel, submitted>>
  BY TypedReview DEF Review!review, Review!Failing, Answering, ReviewInv,
    ReviewTyped
<1>2. /\ \/ reviewTruth' = [reviewTruth EXCEPT ![a] = @ + 1]
         \/ reviewTruth' = reviewTruth
      /\ \/ /\ reviewTruth' = [reviewTruth EXCEPT ![a] = @ + 1]
            /\ reviews' = [reviews EXCEPT ![o].at = "Accepted",
                                         ![o].revision = reviewTruth[a] + 1]
         \/ reviews' = [reviews EXCEPT ![o].at = "Failed"]
  BY DEF Review!review
<1>3. /\ reviewTruth' \in [Assets -> Nat]
      /\ \A b \in Assets : reviewTruth'[b] >= reviewTruth[b]
  BY <1>1, <1>2 DEF ReviewInv, ReviewTyped
<1>4. CASE /\ reviewTruth' = [reviewTruth EXCEPT ![a] = @ + 1]
           /\ reviews' = [reviews EXCEPT ![o].at = "Accepted",
                                         ![o].revision = reviewTruth[a] + 1]
  <2>1. /\ reviewTruth[a] + 1 \in Nat
        /\ reviewTruth'[a] = reviewTruth[a] + 1
    BY <1>1, <1>4 DEF ReviewInv, ReviewTyped
  <2>2. reviews' = [reviews EXCEPT ![o] =
          [[reviews[o] EXCEPT !.at = "Accepted"]
             EXCEPT !.revision = reviewTruth[a] + 1]]
    BY <1>1, <1>4
  <2>3. /\ reviews' \in [Review!Operations -> Reviews \cup {Review!NoReview}]
        /\ reviews'[o].at = "Accepted"
        /\ reviews'[o].revision = reviewTruth[a] + 1
        /\ reviews'[o].generation = reviews[o].generation
        /\ reviews'[o].assetId = reviews[o].assetId
        /\ \A n \in Review!Operations \ {o} : reviews'[n] = reviews[n]
    BY <1>1, <2>1, <2>2, MovedReview DEF ReviewInv
  <2>4. ReviewTyped'
    BY <1>1, <1>3, <2>3 DEF ReviewInv, ReviewTyped
  <2> QED BY <1>1, <1>3, <2>1, <2>3, <2>4, ReviewMoves DEF Answering
<1>5. CASE reviews' = [reviews EXCEPT ![o].at = "Failed"]
  <2> DEFINE moved == [reviews[o] EXCEPT !.at = "Failed"]
  <2>1. /\ moved \in Reviews /\ moved.at = "Failed"
        /\ moved.generation = reviews[o].generation
        /\ moved.assetId = reviews[o].assetId
    BY <1>1 DEF Reviews
  <2>2. reviews' = [reviews EXCEPT ![o] = moved]
    BY <1>1, <1>5
  <2> HIDE DEF moved
  <2>3. /\ reviews' \in [Review!Operations -> Reviews \cup {Review!NoReview}]
        /\ reviews'[o] = moved
        /\ \A n \in Review!Operations \ {o} : reviews'[n] = reviews[n]
    BY <1>1, <2>1, <2>2
  <2>4. ReviewTyped'
    BY <1>1, <1>3, <2>3 DEF ReviewInv, ReviewTyped
  <2> QED BY <1>1, <1>3, <2>1, <2>3, <2>4, ReviewMoves DEF Answering
<1> QED BY <1>2, <1>4, <1>5

(* A step after which a review no longer answers, or reads.                  *)
LEMMA Moved ==
  ASSUME ReviewInv, NEW o \in Review!Operations, reviews[o].at # "None",
         NEW step \in {"Saved", "NotSaved"},
         reviews' = [reviews EXCEPT ![o].at = step]
  PROVE  /\ reviews' \in [Review!Operations -> Reviews \cup {Review!NoReview}]
         /\ reviews'[o].at \notin Answering
         /\ \A n \in Review!Operations \ {o} : reviews'[n] = reviews[n]
<1> DEFINE moved == [reviews[o] EXCEPT !.at = step]
<1>1. reviews[o] \in Reviews
  BY TypedReview DEF ReviewInv
<1>2. moved \in Reviews /\ moved.at = step
  BY <1>1 DEF Reviews
<1>3. /\ reviews' = [reviews EXCEPT ![o] = moved]
      /\ reviews \in [Review!Operations -> Reviews \cup {Review!NoReview}]
  BY DEF ReviewInv, ReviewTyped
<1> HIDE DEF moved
<1> QED BY <1>2, <1>3 DEF Answering

LEMMA ShowTyped ==
  ASSUME NEW a \in Assets, NEW r \in Nat, Review!Show(a, r)
  PROVE  libraryDetail' \in Details
BY DEF Review!Show, Details

LEMMA ReviewClosed ==
  ASSUME ReviewInv, NEW o \in Review!Operations,
         Review!AcceptedReview(o) \/ Review!Reconciled(o)
  PROVE  ReviewInv' /\ NewerShown
<1> USE DEF Review!runtime, Review!bounds
<1>1. /\ reviews[o].at \in {"Accepted", "Read", "Failed"}
      /\ reviews[o] \in Reviews /\ reviews[o].assetId \in Assets
      /\ reviews[o].revision \in Nat
      /\ UNCHANGED <<reviewTruth, reviewRoute, reviewGeneration,
                     latestReviewOperation, detailFiber, panel, submitted>>
  BY TypedReview DEF Review!AcceptedReview, Review!Reconciled,
    Review!Failing, ReviewInv
<1>2. \E step \in {"Saved", "NotSaved"} :
        reviews' = [reviews EXCEPT ![o].at = step]
  BY DEF Review!AcceptedReview, Review!Reconciled
<1>3. /\ reviews' \in [Review!Operations -> Reviews \cup {Review!NoReview}]
      /\ reviews'[o].at \notin Answering
      /\ \A n \in Review!Operations \ {o} : reviews'[n] = reviews[n]
  BY <1>1, <1>2, Moved
<1>4. \/ /\ reviews[o].at \in {"Accepted", "Read"}
         /\ Review!ownsCurrentAssetRoute(o)
         /\ Review!Show(reviews[o].assetId, reviews[o].revision)
      \/ libraryDetail' = libraryDetail
      \/ /\ Review!ownsCurrentAssetRoute(o) /\ reviews[o].at = "Failed"
         /\ libraryDetail' = [libraryDetail EXCEPT !.state = "unavailable"]
  BY DEF Review!AcceptedReview, Review!Reconciled
<1>5. CASE /\ reviews[o].at \in {"Accepted", "Read"}
           /\ Review!ownsCurrentAssetRoute(o)
           /\ Review!Show(reviews[o].assetId, reviews[o].revision)
  <2>1. ReviewTyped'
    BY <1>1, <1>3, <1>5, ShowTyped DEF ReviewInv, ReviewTyped
  <2> QED BY <1>1, <1>3, <1>5, <2>1, OwnerShows
<1>6. CASE libraryDetail' = libraryDetail
  <2>1. ReviewTyped' /\ \A a \in Assets : reviewTruth'[a] >= reviewTruth[a]
    BY <1>1, <1>3, <1>6 DEF ReviewInv, ReviewTyped
  <2> QED BY <1>1, <1>3, <1>6, <2>1, ReviewMoves
<1>7. CASE /\ Review!ownsCurrentAssetRoute(o) /\ reviews[o].at = "Failed"
           /\ libraryDetail' = [libraryDetail EXCEPT !.state = "unavailable"]
  <2>1. /\ libraryDetail' \in Details
        /\ libraryDetail'.assetId = libraryDetail.assetId
        /\ libraryDetail'.revision = libraryDetail.revision
    BY <1>7 DEF ReviewInv, ReviewTyped, Details
  <2>2. detailFiber = Review!NoRead
    BY <1>7 DEF ReviewInv, DetailIsAlone, Answering,
      Review!ownsCurrentAssetRoute
  <2>3. ReviewTyped' /\ \A a \in Assets : reviewTruth'[a] >= reviewTruth[a]
    BY <1>1, <1>3, <2>1 DEF ReviewInv, ReviewTyped
  <2> QED BY <1>1, <1>3, <2>1, <2>2, <2>3, ReviewMoves
<1> QED BY <1>4, <1>5, <1>6, <1>7

LEMMA ReconcileReads ==
  ASSUME ReviewInv, NEW o \in Review!Operations, Review!ReconcileRead(o)
  PROVE  ReviewInv' /\ NewerShown
<1> USE DEF Review!runtime, Review!bounds
<1>1. /\ reviews[o].at = "Failed" /\ reviews[o].at \in Answering
      /\ reviewTruth[reviews[o].assetId] \in Nat
      /\ reviews \in [Review!Operations -> Reviews \cup {Review!NoReview}]
      /\ reviewTruth \in [Assets -> Nat]
      /\ UNCHANGED <<reviewTruth, reviewRoute, reviewGeneration,
                     latestReviewOperation, libraryDetail, detailFiber, panel,
                     submitted>>
  BY TypedReview DEF Review!ReconcileRead, Answering, ReviewInv, ReviewTyped
<1>2. reviews' = [reviews EXCEPT ![o] =
        [[reviews[o] EXCEPT !.at = "Read"]
           EXCEPT !.revision = reviewTruth[reviews[o].assetId]]]
  BY <1>1 DEF Review!ReconcileRead
<1>3. /\ reviews' \in [Review!Operations -> Reviews \cup {Review!NoReview}]
      /\ reviews'[o].at = "Read"
      /\ reviews'[o].revision = reviewTruth[reviews[o].assetId]
      /\ reviews'[o].generation = reviews[o].generation
      /\ reviews'[o].assetId = reviews[o].assetId
      /\ \A n \in Review!Operations \ {o} : reviews'[n] = reviews[n]
  BY <1>1, <1>2, MovedReview DEF ReviewInv
<1>4. ReviewTyped' /\ \A a \in Assets : reviewTruth'[a] >= reviewTruth[a]
  BY <1>1, <1>3 DEF ReviewInv, ReviewTyped
<1> QED BY <1>1, <1>3, <1>4, ReviewMoves DEF Answering

LEMMA MountedTyped ==
  ASSUME NEW mount \in Nat, NEW detail \in Details
  PROVE  Review!Mounted(mount, detail) \in Panels
<1>1. Review!Seen(detail) \in (Assets \cup {"Nothing"}) \X Nat
  BY DEF Details, Review!Seen
<1> QED BY <1>1 DEF Review!Mounted, Panels

LEMMA ReviewBegins ==
  ASSUME ReviewInv, Review!ReviewCurrentLibraryAsset
  PROVE  ReviewInv' /\ NewerShown
<1> DEFINE o == submitted + 1
           begun == [at |-> "Sent", assetId |-> reviewRoute,
                     generation |-> reviewGeneration, mount |-> panel.mount,
                     expected |-> libraryDetail.revision, revision |-> 0]
<1>1. /\ submitted < MaxReviews /\ reviewRoute \in Assets
      /\ libraryDetail.state = "shown"
      /\ submitted' = o /\ latestReviewOperation' = o
      /\ panel' = [panel EXCEPT !.pending = o, !.result = "none"]
      /\ reviews' = [reviews EXCEPT ![o] = begun]
      /\ UNCHANGED <<reviewTruth, reviewRoute, reviewGeneration, libraryDetail,
                     detailFiber>>
  BY DEF Review!ReviewCurrentLibraryAsset
<1>2. o \in Review!Operations /\ o \in Nat
  BY <1>1, ReviewConstants DEF ReviewInv, ReviewTyped, Review!Operations
<1>3. /\ begun \in Reviews /\ begun.at = "Sent"
      /\ begun.generation = reviewGeneration
  BY <1>1 DEF ReviewInv, ReviewTyped, Reviews, Details, Panels
<1>4. panel' \in Panels
  BY <1>1, <1>2 DEF ReviewInv, ReviewTyped, Panels
<1> HIDE DEF o, begun
<1>5. /\ reviews'[o] = begun
      /\ \A n \in Review!Operations \ {o} : reviews'[n] = reviews[n]
      /\ reviews' \in [Review!Operations -> Reviews \cup {Review!NoReview}]
  BY <1>1, <1>2, <1>3 DEF ReviewInv, ReviewTyped
<1>6. ReviewTyped'
  BY <1>1, <1>2, <1>4, <1>5 DEF ReviewInv, ReviewTyped
<1>7. detailFiber = Review!NoRead
  BY <1>1 DEF ReviewInv, DetailIsAlone
<1>8. DetailIsAlone'
  BY <1>1, <1>7 DEF DetailIsAlone
<1>9. DetailWasTrue'
  BY <1>1 DEF ReviewInv, DetailWasTrue
<1>10. ReviewsAreNewer'
  <2>1. \A n \in Review!Operations : reviews'[n].at \in Answering =>
          \/ n = o /\ reviews'[n] = begun
          \/ n # o /\ reviews'[n] = reviews[n] /\ reviews[n].at \in Answering
    BY <1>5
  <2>2. reviewGeneration <= reviewGeneration
    BY DEF ReviewInv, ReviewTyped
  <2> QED BY <1>1, <1>3, <2>1, <2>2 DEF ReviewInv, ReviewsAreNewer
<1>11. NewerShown
  BY <1>1, TypedDetail DEF ReviewInv, NewerShown
<1> QED BY <1>6, <1>8, <1>9, <1>10, <1>11 DEF ReviewInv

LEMMA DetailIsRead ==
  ASSUME ReviewInv, Review!DetailRead
  PROVE  ReviewInv' /\ NewerShown
<1> USE DEF Review!runtime, Review!bounds
<1>1. /\ detailFiber # Review!NoRead /\ detailFiber \in DetailReads
      /\ detailFiber' = [detailFiber EXCEPT !.revision =
                           reviewTruth[detailFiber.assetId]]
      /\ reviewTruth[detailFiber.assetId] \in Nat
      /\ UNCHANGED <<reviewTruth, reviewRoute, reviewGeneration,
                     latestReviewOperation, libraryDetail, reviews, panel,
                     submitted>>
  BY TypedDetail DEF Review!DetailRead, ReviewInv
<1>2. /\ detailFiber' \in DetailReads
      /\ detailFiber'.assetId = detailFiber.assetId
      /\ detailFiber'.revision = reviewTruth[detailFiber.assetId]
  BY <1>1 DEF DetailReads
<1>3. ReviewTyped'
  BY <1>1, <1>2 DEF ReviewInv, ReviewTyped
<1>4. DetailIsAlone'
  BY <1>1, <1>2 DEF ReviewInv, DetailIsAlone, DetailWasTrue, DetailReads
<1>5. DetailWasTrue' /\ ReviewsAreNewer' /\ NewerShown
  BY <1>1, TypedDetail DEF ReviewInv, DetailWasTrue, ReviewsAreNewer,
    NewerShown
<1> QED BY <1>3, <1>4, <1>5 DEF ReviewInv

LEMMA DetailLoads ==
  ASSUME ReviewInv, Review!loadDetail
  PROVE  ReviewInv' /\ NewerShown
<1> USE DEF Review!runtime, Review!bounds
<1> DEFINE owns == detailFiber.generation = reviewGeneration
<1>1. /\ detailFiber # Review!NoRead /\ detailFiber \in DetailReads
      /\ detailFiber' = Review!NoRead
      /\ UNCHANGED <<reviewTruth, reviewRoute, reviewGeneration,
                     latestReviewOperation, reviews, panel, submitted>>
      /\ \/ /\ detailFiber.revision # Review!Unread
            /\ Review!Show(detailFiber.assetId, detailFiber.revision)
         \/ libraryDetail' = libraryDetail
         \/ libraryDetail' = [libraryDetail EXCEPT !.state = "unavailable"]
  BY TypedDetail DEF Review!loadDetail, Review!Failing, ReviewInv
<1>2. DetailIsAlone'
  BY <1>1 DEF DetailIsAlone
<1>3. CASE /\ detailFiber.revision # Review!Unread
           /\ Review!Show(detailFiber.assetId, detailFiber.revision)
  <2>1. /\ detailFiber.assetId \in Assets /\ detailFiber.revision \in Nat
        /\ detailFiber.assetId = reviewRoute
        /\ detailFiber.revision <= reviewTruth[detailFiber.assetId]
        /\ libraryDetail.assetId = detailFiber.assetId =>
             detailFiber.revision >= libraryDetail.revision
        /\ \A o \in Review!Operations : reviews[o].at \in Answering =>
             reviews[o].generation # reviewGeneration
    BY <1>1, <1>3 DEF ReviewInv, DetailIsAlone, DetailReads, Review!Unread
  <2>2. /\ libraryDetail'.assetId = detailFiber.assetId
        /\ libraryDetail'.revision = detailFiber.revision
        /\ libraryDetail' \in Details
    BY <1>3, <2>1, ShowTyped DEF Review!Show
  <2>3. ReviewTyped'
    BY <1>1, <2>2 DEF ReviewInv, ReviewTyped
  <2>4. DetailWasTrue' /\ NewerShown
    BY <1>1, <2>1, <2>2, ReviewConstants DEF DetailWasTrue, NewerShown
  <2>5. ReviewsAreNewer'
    BY <1>1, <2>1 DEF ReviewInv, ReviewsAreNewer
  <2> QED BY <1>2, <2>3, <2>4, <2>5 DEF ReviewInv
<1>4. CASE \/ libraryDetail' = libraryDetail
           \/ libraryDetail' = [libraryDetail EXCEPT !.state = "unavailable"]
  <2>1. /\ libraryDetail' \in Details
        /\ libraryDetail'.assetId = libraryDetail.assetId
        /\ libraryDetail'.revision = libraryDetail.revision
    BY <1>4 DEF ReviewInv, ReviewTyped, Details
  <2>2. ReviewTyped'
    BY <1>1, <2>1 DEF ReviewInv, ReviewTyped
  <2>3. DetailWasTrue' /\ ReviewsAreNewer' /\ NewerShown
    BY <1>1, <2>1, TypedDetail DEF ReviewInv, DetailWasTrue, ReviewsAreNewer,
      NewerShown
  <2> QED BY <1>2, <2>2, <2>3 DEF ReviewInv
<1> QED BY <1>1, <1>3, <1>4

LEMMA ReviewStep ==
  ASSUME ReviewInv, [Review!Next]_Review!vars
  PROVE  ReviewInv' /\ NewerShown
<1> USE DEF Review!runtime, Review!bounds
<1>1. ASSUME NEW a \in Assets, Review!ChangedElsewhere(a)
      PROVE  ReviewInv' /\ NewerShown
  <2>1. /\ reviewTruth' \in [Assets -> Nat]
        /\ \A b \in Assets : reviewTruth'[b] >= reviewTruth[b]
        /\ UNCHANGED <<reviewRoute, reviewGeneration, latestReviewOperation,
                       libraryDetail, detailFiber, reviews, panel, submitted>>
    BY <1>1 DEF Review!ChangedElsewhere, ReviewInv, ReviewTyped
  <2>2. ReviewTyped'
    BY <2>1 DEF ReviewInv, ReviewTyped
  <2>3. DetailWasTrue' /\ NewerShown
    BY <2>1, TypedDetail DEF ReviewInv, ReviewTyped, DetailWasTrue, NewerShown
  <2>4. DetailIsAlone'
    BY <2>1, TypedDetail DEF ReviewInv, ReviewTyped, DetailIsAlone
  <2>5. ReviewsAreNewer'
    <3>1. \A o \in Review!Operations : reviews[o].at \in Answering =>
            /\ reviews[o].revision \in Nat
            /\ reviewTruth[reviews[o].assetId] \in Nat
            /\ reviewTruth'[reviews[o].assetId] \in Nat
            /\ reviewTruth'[reviews[o].assetId] >=
                 reviewTruth[reviews[o].assetId]
      BY <2>1, TypedReview DEF ReviewInv, ReviewTyped, Answering
    <3> QED BY <2>1, <3>1 DEF ReviewInv, ReviewsAreNewer
  <2> QED BY <2>2, <2>3, <2>4, <2>5 DEF ReviewInv
<1>2. ASSUME NEW route \in Assets \cup {"Library"}, Review!routeChanged(route)
      PROVE  ReviewInv' /\ NewerShown
  <2>1. libraryDetail' \in Details
    BY <1>2 DEF Review!routeChanged, ReviewInv, ReviewTyped, Details,
      Review!NoDetail
  <2>2. panel' \in Panels
    <3>1. Review!NoDetail \in Details /\ panel.mount + 1 \in Nat
      BY DEF Review!NoDetail, Details, ReviewInv, ReviewTyped, Panels
    <3>2. panel' = panel \/ panel' = Review!Mounted(panel.mount + 1,
                                                    Review!NoDetail)
      BY <1>2 DEF Review!routeChanged
    <3> QED BY <3>1, <3>2, MountedTyped DEF ReviewInv, ReviewTyped
  <2>3. detailFiber' \in DetailReads \cup {Review!NoRead}
    <3>1. reviewGeneration + 1 \in Nat
      BY DEF ReviewInv, ReviewTyped
    <3> QED BY <1>2, <3>1 DEF Review!routeChanged, DetailReads, Review!Unread
  <2>4. ReviewTyped'
    BY <1>2, <2>1, <2>2, <2>3 DEF Review!routeChanged, ReviewInv, ReviewTyped
  <2> QED BY <1>2, <2>4, RouteChanges
<1>3. CASE Review!PanelReset \/ UNCHANGED Review!vars
  <2>1. UNCHANGED <<reviewTruth, reviewRoute, reviewGeneration, libraryDetail,
                    latestReviewOperation, detailFiber, reviews, submitted>>
    BY <1>3 DEF Review!PanelReset, Review!vars
  <2>2. panel' \in Panels
    <3>1. libraryDetail \in Details /\ panel.mount \in Nat /\ panel \in Panels
      BY DEF ReviewInv, ReviewTyped, Panels
    <3> QED BY <1>3, <3>1, MountedTyped DEF Review!PanelReset, Review!vars
  <2>3. ReviewTyped'
    BY <2>1, <2>2 DEF ReviewInv, ReviewTyped
  <2>4. DetailWasTrue' /\ DetailIsAlone' /\ ReviewsAreNewer' /\ NewerShown
    BY <2>1, TypedDetail DEF ReviewInv, DetailWasTrue, DetailIsAlone,
      ReviewsAreNewer, NewerShown
  <2> QED BY <2>3, <2>4 DEF ReviewInv
<1>4. ASSUME NEW o \in Review!Operations, Review!Told(o)
      PROVE  ReviewInv' /\ NewerShown
  <2>1. /\ reviews'[o].at \notin Answering
        /\ \A n \in Review!Operations \ {o} : reviews'[n] = reviews[n]
        /\ reviews' \in [Review!Operations -> Reviews \cup {Review!NoReview}]
        /\ UNCHANGED <<reviewTruth, reviewRoute, reviewGeneration, detailFiber,
                       latestReviewOperation, libraryDetail, submitted>>
    BY <1>4 DEF Review!Told, ReviewInv, ReviewTyped, Review!NoReview, Answering
  <2>2. panel' \in Panels
    BY <1>4 DEF Review!Told, ReviewInv, ReviewTyped, Panels
  <2>3. ReviewTyped' /\ \A a \in Assets : reviewTruth'[a] >= reviewTruth[a]
    BY <2>1, <2>2 DEF ReviewInv, ReviewTyped
  <2> QED BY <2>1, <2>3, ReviewMoves
<1> QED BY <1>1, <1>2, <1>3, <1>4, ReviewAnswered, ReviewClosed,
          ReconcileReads, ReviewBegins, DetailIsRead, DetailLoads
    DEF Review!Next, Review!Answered

-----------------------------------------------------------------------------
(* The live projection.  Of all the snapshots on the way to the browser, one *)
(* with a later cursor has no earlier content, and none is ahead of the      *)
(* service; a load brings nothing older than what was shown when it began;   *)
(* until its first command, a browser that waits is in the state it falls    *)
(* back to.                                                                  *)
Messages ==
  [_tag : {"ProjectionChanged", "Disconnected"}, data : Live!Snapshots]

LiveTyped ==
  /\ liveTruth \in Live!Snapshots
  /\ stream \in [first : Live!Snapshots, latest : Live!Snapshots]
  /\ messages \in Seq(Messages)
  /\ client \in Live!ClientStates
  /\ fiber \in [Live!Fibers -> Live!Loads]
  /\ commands \in Nat

OnTheWay(s) ==
  \/ s \in {liveTruth, client.snapshot, stream.first, stream.latest}
  \/ \E i \in 1..Len(messages) : s = messages[i].data
  \/ \E f \in Live!Fibers :
       \/ fiber[f].at # "Idle" /\ s = fiber[f].before.snapshot
       \/ fiber[f].at = "Answered" /\ s = fiber[f].snapshot

NoneIsAhead ==
  \A s \in Live!Snapshots : OnTheWay(s) =>
    s.cursor <= liveTruth.cursor /\ s.content <= liveTruth.content
LaterHasMore ==
  \A s, t \in Live!Snapshots :
    OnTheWay(s) /\ OnTheWay(t) /\ s.cursor < t.cursor =>
      s.content <= t.content

WaitsForNewer ==
  \A f \in Live!Fibers :
    fiber[f].at = "Answered" =>
      Live!NoOlder(fiber[f].snapshot, fiber[f].before.snapshot)

(* A browser that once had a snapshot never falls back to none.              *)
FallsBackToShown ==
  IF client.tag = "Unavailable" THEN commands = 0
  ELSE \A f \in Live!Fibers :
         fiber[f].at # "Idle" => fiber[f].before.tag # "Unavailable"

WaitsAlone ==
  commands = 0 =>
    /\ command.at = "Idle" /\ fiber["Command"].at = "Idle"
    /\ fiber["Listener"].at # "Idle" =>
         /\ client.tag # "Current"
         /\ client = fiber["Listener"].before

Waits == WaitsForNewer /\ FallsBackToShown /\ WaitsAlone
LiveInv == LiveTyped /\ NoneIsAhead /\ LaterHasMore /\ Waits

LEMMA FiberTyped ==
  ASSUME LiveTyped, NEW f \in Live!Fibers
  PROVE  /\ fiber[f].at \in {"Idle", "Asked", "Answered"}
         /\ fiber[f].at # "Idle" =>
              /\ fiber[f].before \in Live!ClientStates
              /\ fiber[f].before.snapshot \in Live!Snapshots
         /\ fiber[f].at = "Answered" => fiber[f].snapshot \in Live!Snapshots
<1>1. fiber[f] \in Live!Loads
  BY DEF LiveTyped
<1> QED BY <1>1 DEF Live!Loads, Live!ClientStates

LEMMA NoneIsFirst ==
  /\ Live!None \in Live!Snapshots
  /\ Live!None.cursor = 0 /\ Live!None.content = 0
BY DEF Live!None, Live!Snapshots

LEMMA LiveInit == Live!Init => LiveInv
<1> SUFFICES ASSUME Live!Init PROVE LiveInv
  OBVIOUS
<1>1. /\ liveTruth = [cursor |-> 1, content |-> 1]
      /\ liveTruth \in Live!Snapshots /\ stream = Live!Nothing
      /\ messages = <<>> /\ Len(messages) = 0 /\ commands = 0
      /\ command.at = "Idle"
      /\ \A f \in Live!Fibers : fiber[f].at = "Idle"
      /\ client.snapshot \in {liveTruth, Live!None}
      /\ client \in Live!ClientStates
  BY DEF Live!Init, Live!Snapshots, Live!Idle, Live!Current, Live!None,
    Live!ClientStates
<1>2. stream.first = Live!None /\ stream.latest = Live!None
  BY <1>1 DEF Live!Nothing
<1>3. LiveTyped
  <2>1. fiber \in [Live!Fibers -> Live!Loads]
    BY DEF Live!Init, Live!Loads, Live!Idle
  <2>2. stream \in [first : Live!Snapshots, latest : Live!Snapshots]
    BY <1>1, NoneIsFirst DEF Live!Nothing
  <2>3. messages \in Seq(Messages)
    BY <1>1
  <2> QED BY <1>1, <2>1, <2>2, <2>3 DEF LiveTyped
<1>4. \A s : OnTheWay(s) => s \in {liveTruth, Live!None}
  BY <1>1, <1>2 DEF OnTheWay
<1>5. liveTruth.cursor = 1 /\ liveTruth.content = 1
  BY <1>1
<1>6. NoneIsAhead /\ LaterHasMore
  BY <1>4, <1>5, NoneIsFirst DEF NoneIsAhead, LaterHasMore
<1>7. Waits
  BY <1>1 DEF Waits, WaitsForNewer, FallsBackToShown, WaitsAlone, Live!Fibers
<1> QED BY <1>3, <1>6, <1>7 DEF LiveInv

(* What is on the way was on the way, or is the service's snapshot of now.   *)
LEMMA OrderKept ==
  ASSUME LiveInv, liveTruth' \in Live!Snapshots,
         \/ liveTruth' = liveTruth
         \/ liveTruth'.content = liveTruth.content + 1
              /\ liveTruth'.cursor \in {liveTruth.cursor, liveTruth.cursor + 1},
         \A s \in Live!Snapshots :
           OnTheWay(s)' => OnTheWay(s) \/ s \in {liveTruth', Live!None}
  PROVE  NoneIsAhead' /\ LaterHasMore'
<1>1. /\ liveTruth.cursor \in Nat /\ liveTruth.content \in Nat
      /\ liveTruth'.cursor \in Nat /\ liveTruth'.content \in Nat
      /\ \A s \in Live!Snapshots : s.cursor \in Nat /\ s.content \in Nat
  BY DEF LiveInv, LiveTyped, Live!Snapshots
<1>2. ASSUME NEW s \in Live!Snapshots, OnTheWay(s)'
      PROVE  s.cursor <= liveTruth'.cursor /\ s.content <= liveTruth'.content
  BY <1>1, <1>2, NoneIsFirst DEF LiveInv, NoneIsAhead
<1>3. ASSUME NEW s \in Live!Snapshots, NEW t \in Live!Snapshots,
             OnTheWay(s)', OnTheWay(t)', s.cursor < t.cursor
      PROVE  s.content <= t.content
  <2>1. CASE t = liveTruth'
    BY <1>2, <1>3, <2>1
  <2>2. CASE s = Live!None \/ t = Live!None
    BY <1>1, <1>3, <2>2, NoneIsFirst
  <2>3. CASE OnTheWay(s) /\ OnTheWay(t)
    BY <1>3, <2>3 DEF LiveInv, LaterHasMore
  <2>4. CASE s = liveTruth' /\ OnTheWay(t)
    <3>1. t.cursor <= liveTruth.cursor
      BY <2>4 DEF LiveInv, NoneIsAhead
    <3> QED BY <1>1, <1>3, <2>4, <3>1
  <2> QED BY <1>3, <2>1, <2>2, <2>3, <2>4
<1> QED BY <1>2, <1>3 DEF NoneIsAhead, LaterHasMore

(* What a step may do to what the browser shows.                             *)
ByLoad ==
  client.tag # "Current" /\ client'.tag = "Current" =>
    \E f \in Live!Fibers : /\ fiber[f].at = "Answered"
                          /\ client'.snapshot = fiber[f].snapshot
Moves == Live!GoesForward /\ Live!StaysShown /\ ByLoad

LEMMA ShownStays ==
  ASSUME LiveTyped, client' = client
  PROVE  Moves
<1>1. client.snapshot.cursor \in Nat /\ client.snapshot.content \in Nat
  BY DEF LiveTyped, Live!ClientStates, Live!Snapshots
<1> QED BY <1>1
    DEF Moves, Live!GoesForward, Live!StaysShown, ByLoad, Live!NoOlder

(* The fibers, the commands and the state of the client stay.                *)
LEMMA WaitingStays ==
  ASSUME Waits, UNCHANGED <<client, fiber, command, commands>>
  PROVE  Waits'
BY DEF Waits, WaitsForNewer, FallsBackToShown, WaitsAlone, Live!NoOlder

TruthMoves ==
  /\ liveTruth' \in Live!Snapshots
  /\ \/ liveTruth' = liveTruth
     \/ liveTruth'.content = liveTruth.content + 1
          /\ liveTruth'.cursor \in {liveTruth.cursor, liveTruth.cursor + 1}

(* The service and the line move; the browser does nothing.                  *)
LEMMA LineMoves ==
  ASSUME LiveInv, TruthMoves,
         stream' \in [first : Live!Snapshots, latest : Live!Snapshots],
         {stream'.first, stream'.latest} \subseteq
           {stream.first, stream.latest, liveTruth', Live!None},
         NEW m \in Messages,
         m.data \in {stream.first, stream.latest, Live!None},
         messages' = messages \/ messages' = Append(messages, m),
         UNCHANGED <<client, fiber, command, commands>>
  PROVE  LiveInv' /\ Moves
<1>1. messages \in Seq(Messages)
  BY DEF LiveInv, LiveTyped
<1>2. LiveTyped'
  <2>1. messages' \in Seq(Messages)
    BY <1>1
  <2> QED BY <2>1 DEF LiveInv, LiveTyped, TruthMoves
<1>3. ASSUME NEW i \in 1..Len(messages')
      PROVE  \/ messages'[i].data \in {stream.first, stream.latest, Live!None}
             \/ \E j \in 1..Len(messages) : messages'[i].data = messages[j].data
  <2>1. CASE messages' = messages
    BY <1>3, <2>1
  <2>2. CASE messages' = Append(messages, m)
    <3>1. /\ Len(messages) \in Nat /\ Len(messages') = Len(messages) + 1
          /\ messages'[i] = IF i <= Len(messages) THEN messages[i] ELSE m
      BY <1>1, <1>3, <2>2
    <3> QED BY <1>3, <3>1
  <2> QED BY <2>1, <2>2
<1>4. ASSUME NEW s, OnTheWay(s)'
      PROVE  OnTheWay(s) \/ s \in {liveTruth', Live!None}
  BY <1>3, <1>4 DEF OnTheWay
<1>5. NoneIsAhead' /\ LaterHasMore'
  BY <1>4, OrderKept DEF TruthMoves
<1>6. Waits'
  BY WaitingStays DEF LiveInv
<1> QED BY <1>2, <1>5, <1>6, ShownStays DEF LiveInv

LEMMA LineSteps ==
  ASSUME LiveInv,
         \/ \E publishes \in BOOLEAN : Live!Commit(publishes)
         \/ Live!expireControlRequests \/ Live!PublishOwed \/ Live!poll
         \/ Live!Restart \/ Live!Connect \/ Live!Deliver \/ Live!Break
         \/ Live!Refuse \/ Live!Stall
  PROVE  LiveInv' /\ Moves
<1> USE DEF Live!service, Live!line, Live!browser
<1> DEFINE Streams == [first : Live!Snapshots, latest : Live!Snapshots]
<1>1. /\ liveTruth \in Live!Snapshots /\ stream \in Streams
      /\ liveTruth.cursor \in Nat /\ liveTruth.content \in Nat
      /\ stream.first \in Live!Snapshots /\ stream.latest \in Live!Snapshots
  BY DEF LiveInv, LiveTyped, Live!Snapshots
<1>2. /\ Live!Disconnected \in Messages
      /\ Live!Disconnected.data = Live!None
      /\ \A s \in Live!Snapshots :
           Live!Changed(s) \in Messages /\ Live!Changed(s).data = s
  BY NoneIsFirst DEF Live!Disconnected, Live!Changed, Messages
<1>3. /\ Live!Nothing \in Streams
      /\ Live!Nothing.first = Live!None /\ Live!Nothing.latest = Live!None
  BY NoneIsFirst DEF Live!Nothing
<1>4. UNCHANGED <<client, fiber, command, commands>>
  BY DEF Live!Commit, Live!expireControlRequests, Live!PublishOwed,
    Live!poll, Live!Restart, Live!Connect, Live!Deliver, Live!Break,
    Live!Refuse, Live!Stall
<1>5. TruthMoves
  <2>1. \/ liveTruth' = [cursor |-> liveTruth.cursor + 1,
                         content |-> liveTruth.content + 1]
        \/ liveTruth' = [liveTruth EXCEPT !.content = @ + 1]
        \/ liveTruth' = liveTruth
    BY DEF Live!Commit, Live!expireControlRequests, Live!PublishOwed,
      Live!poll, Live!Restart, Live!Connect, Live!Deliver, Live!Break,
      Live!Refuse, Live!Stall
  <2> QED BY <1>1, <2>1 DEF TruthMoves, Live!Snapshots
<1>6. /\ stream' \in Streams
      /\ {stream'.first, stream'.latest} \subseteq
           {stream.first, stream.latest, liveTruth', Live!None}
  <2>1. \/ stream' = stream \/ stream' = Live!Nothing
        \/ stream' = [stream EXCEPT !.latest = liveTruth]
             /\ liveTruth' = liveTruth
        \/ stream' = [first |-> liveTruth, latest |-> Live!None]
             /\ liveTruth' = liveTruth
        \/ stream' = [stream EXCEPT !.first = Live!None]
        \/ stream' = [stream EXCEPT !.latest = Live!None]
    BY DEF Live!Commit, Live!expireControlRequests, Live!PublishOwed,
      Live!poll, Live!publish, Live!Offered, Live!Restart, Live!Connect,
      Live!Deliver, Live!Break, Live!Refuse, Live!Stall
  <2> QED BY <1>1, <1>3, <2>1, NoneIsFirst
<1>7. \E m \in Messages :
        /\ m.data \in {stream.first, stream.latest, Live!None}
        /\ messages' = messages \/ messages' = Append(messages, m)
  <2>1. \/ messages' = messages
        \/ messages' = Append(messages, Live!Disconnected)
        \/ messages' = Append(messages, Live!Changed(stream.first))
        \/ messages' = Append(messages, Live!Changed(stream.latest))
    BY DEF Live!Commit, Live!expireControlRequests, Live!PublishOwed,
      Live!poll, Live!Restart, Live!Connect, Live!Deliver, Live!offer,
      Live!Break, Live!Refuse, Live!Stall
  <2> QED BY <1>1, <1>2, <2>1
<1> QED BY <1>4, <1>5, <1>6, <1>7, LineMoves

(* A state the listener falls back to shows what it showed.                  *)
FallsBack(state, from) ==
  /\ state \in Live!ClientStates
  /\ state.snapshot = from.snapshot
  /\ state.tag # "Current"
  /\ state.tag = "Unavailable" <=> from.tag = "Unavailable"

LEMMA TaggedFallsBack ==
  ASSUME NEW from \in Live!ClientStates
  PROVE  /\ FallsBack(Live!stale(from), from)
         /\ FallsBack(Live!reconnecting(from), from)
BY DEF FallsBack, Live!stale, Live!reconnecting, Live!Tagged,
  Live!ClientStates

LEMMA AskingTyped ==
  ASSUME NEW state \in Live!ClientStates
  PROVE  /\ Live!Asking(state) \in Live!Loads
         /\ Live!Asking(state).at = "Asked"
         /\ Live!Asking(state).before = state
BY DEF Live!Asking, Live!Loads

LEMMA CurrentTyped ==
  ASSUME NEW snapshot \in Live!Snapshots
  PROVE  /\ Live!Current(snapshot) \in Live!ClientStates
         /\ Live!Current(snapshot).tag = "Current"
         /\ Live!Current(snapshot).snapshot = snapshot
BY DEF Live!Current, Live!ClientStates

(* The listener takes a message: it installs the next event, asks for a      *)
(* snapshot from the state it falls back to, or does nothing.                *)
LEMMA ReconcileMoves ==
  ASSUME LiveInv, Live!reconcile
  PROVE  LiveInv' /\ Moves
<1> USE DEF Live!service
<1> DEFINE e == Head(messages).data
<1>1. /\ fiber["Listener"].at = "Idle" /\ messages # <<>>
      /\ messages' = Tail(messages)
      /\ Live!receiveEvent(Head(messages))
      /\ UNCHANGED <<liveTruth, stream, command, commands>>
  BY DEF Live!reconcile, Live!Idle
<1>2. /\ messages \in Seq(Messages) /\ client \in Live!ClientStates
      /\ fiber \in [Live!Fibers -> Live!Loads]
      /\ liveTruth \in Live!Snapshots
  BY DEF LiveInv, LiveTyped
<1>3. /\ Len(messages) \in Nat \ {0} /\ messages[1].data = e
      /\ Head(messages) \in Messages /\ Tail(messages) \in Seq(Messages)
      /\ Len(messages') = Len(messages) - 1
      /\ \A i \in 1..Len(messages') :
           i + 1 \in 1..Len(messages) /\ messages'[i] = messages[i + 1]
  BY <1>1, <1>2
<1>4. e \in Live!Snapshots /\ OnTheWay(e)
  <2>1. e \in Live!Snapshots
    BY <1>3 DEF Messages
  <2>2. 1 \in 1..Len(messages)
    BY <1>3
  <2> QED BY <1>3, <2>1, <2>2 DEF OnTheWay
<1>5. /\ client.snapshot \in Live!Snapshots /\ OnTheWay(client.snapshot)
      /\ client.snapshot.cursor \in Nat /\ client.snapshot.content \in Nat
      /\ e.cursor \in Nat /\ e.content \in Nat
  BY <1>2, <1>4 DEF Live!ClientStates, OnTheWay, Live!Snapshots
<1>6. "Listener" \in Live!Fibers /\ "Command" \in Live!Fibers
  BY DEF Live!Fibers
<1>7. \/ /\ client' = Live!Current(e) /\ fiber' = fiber
         /\ client.tag = "Current"
         /\ e.cursor = client.snapshot.cursor + 1
      \/ /\ FallsBack(client', client)
         /\ fiber' = [fiber EXCEPT !["Listener"] = Live!Asking(client')]
      \/ client' = client /\ fiber' = fiber
  <2>1. \/ /\ client' = Live!Current(e) /\ fiber' = fiber
           /\ client.tag = "Current"
           /\ e.cursor = client.snapshot.cursor + 1
        \/ Live!Installs(Live!stale(client))
        \/ Live!Installs(Live!reconnecting(client))
        \/ client' = client /\ fiber' = fiber
    BY <1>1 DEF Live!receiveEvent
  <2> QED BY <1>2, <2>1, TaggedFallsBack DEF Live!Installs
<1>8. CASE /\ client' = Live!Current(e) /\ fiber' = fiber
           /\ client.tag = "Current"
           /\ e.cursor = client.snapshot.cursor + 1
  <2>1. /\ client' \in Live!ClientStates /\ client'.tag = "Current"
        /\ client'.snapshot = e
    BY <1>4, <1>8, CurrentTyped
  <2>2. LiveTyped'
    BY <1>1, <1>2, <1>3, <1>8, <2>1 DEF LiveInv, LiveTyped
  <2>3. ASSUME NEW s, OnTheWay(s)' PROVE OnTheWay(s)
    BY <1>1, <1>3, <1>4, <1>8, <2>1, <2>3 DEF OnTheWay
  <2>4. NoneIsAhead' /\ LaterHasMore'
    BY <1>1, <1>2, <2>3, OrderKept
  <2>5. Waits'
    <3>1. WaitsForNewer'
      BY <1>8 DEF LiveInv, Waits, WaitsForNewer, Live!NoOlder
    <3>2. FallsBackToShown'
      BY <1>8, <2>1 DEF LiveInv, Waits, FallsBackToShown
    <3>3. WaitsAlone'
      BY <1>1, <1>8 DEF LiveInv, Waits, WaitsAlone
    <3> QED BY <3>1, <3>2, <3>3 DEF Waits
  <2>6. e.content >= client.snapshot.content
    BY <1>4, <1>5, <1>8 DEF LiveInv, LaterHasMore
  <2>7. Moves
    BY <1>5, <1>8, <2>1, <2>6
    DEF Moves, Live!GoesForward, Live!StaysShown, ByLoad, Live!NoOlder
  <2> QED BY <2>2, <2>4, <2>5, <2>7 DEF LiveInv
<1>9. CASE /\ FallsBack(client', client)
           /\ fiber' = [fiber EXCEPT !["Listener"] = Live!Asking(client')]
  <2>1. /\ client' \in Live!ClientStates
        /\ client'.snapshot = client.snapshot /\ client'.tag # "Current"
        /\ client.tag # "Unavailable" => client'.tag # "Unavailable"
    BY <1>9 DEF FallsBack
  <2>2. /\ fiber' \in [Live!Fibers -> Live!Loads]
        /\ fiber'["Listener"].at = "Asked"
        /\ fiber'["Listener"].before = client'
        /\ fiber'["Command"] = fiber["Command"]
        /\ \A f \in Live!Fibers : f = "Listener" \/ fiber'[f] = fiber[f]
    BY <1>2, <1>6, <1>9, <2>1, AskingTyped
  <2>3. LiveTyped'
    BY <1>1, <1>2, <1>3, <2>1, <2>2 DEF LiveInv, LiveTyped
  <2>4. ASSUME NEW s, OnTheWay(s)' PROVE OnTheWay(s)
    BY <1>1, <1>3, <2>1, <2>2, <2>4 DEF OnTheWay
  <2>5. NoneIsAhead' /\ LaterHasMore'
    BY <1>1, <1>2, <2>4, OrderKept
  <2>6. Waits'
    <3>1. WaitsForNewer'
      BY <2>2 DEF LiveInv, Waits, WaitsForNewer, Live!NoOlder
    <3>2. FallsBackToShown'
      <4>1. CASE client'.tag = "Unavailable"
        BY <1>1, <2>1, <4>1 DEF LiveInv, Waits, FallsBackToShown
      <4>2. CASE client'.tag # "Unavailable"
        <5>1. client.tag # "Unavailable"
          BY <1>9, <4>2 DEF FallsBack
        <5> QED BY <2>2, <4>2, <5>1 DEF LiveInv, Waits, FallsBackToShown
      <4> QED BY <4>1, <4>2
    <3>3. WaitsAlone'
      BY <1>1, <2>1, <2>2 DEF LiveInv, Waits, WaitsAlone
    <3> QED BY <3>1, <3>2, <3>3 DEF Waits
  <2>7. Moves
    BY <1>5, <2>1
    DEF Moves, Live!GoesForward, Live!StaysShown, ByLoad, Live!NoOlder
  <2> QED BY <2>3, <2>5, <2>6, <2>7 DEF LiveInv
<1>10. CASE client' = client /\ fiber' = fiber
  <2>1. LiveTyped'
    BY <1>1, <1>2, <1>3, <1>10 DEF LiveInv, LiveTyped
  <2>2. ASSUME NEW s, OnTheWay(s)' PROVE OnTheWay(s)
    BY <1>1, <1>3, <1>10, <2>2 DEF OnTheWay
  <2>3. NoneIsAhead' /\ LaterHasMore'
    BY <1>1, <1>2, <2>2, OrderKept
  <2>4. Waits'
    BY <1>1, <1>10, WaitingStays DEF LiveInv
  <2> QED BY <1>10, <2>1, <2>3, <2>4, ShownStays DEF LiveInv
<1> QED BY <1>7, <1>8, <1>9, <1>10

(* A fiber's load is answered with the service's snapshot.                   *)
LEMMA LoadReads ==
  ASSUME LiveInv, NEW f \in Live!Fibers, Live!LoadRead(f)
  PROVE  LiveInv' /\ Moves
<1> USE DEF Live!service, Live!line
<1> DEFINE settled == [at |-> "Answered", before |-> fiber[f].before,
                        snapshot |-> liveTruth]
<1>1. /\ fiber[f].at = "Asked" /\ fiber' = [fiber EXCEPT ![f] = settled]
      /\ fiber \in [Live!Fibers -> Live!Loads]
      /\ liveTruth \in Live!Snapshots
      /\ UNCHANGED <<liveTruth, stream, messages, client, command, commands>>
  BY DEF Live!LoadRead, LiveInv, LiveTyped
<1>2. fiber[f].before \in Live!ClientStates
  BY <1>1, FiberTyped DEF LiveInv
<1>3. /\ settled \in Live!Loads /\ settled.at = "Answered"
      /\ settled.before = fiber[f].before /\ settled.snapshot = liveTruth
  BY <1>1, <1>2 DEF Live!Loads
<1> HIDE DEF settled
<1>4. /\ fiber'[f] = settled /\ fiber' \in [Live!Fibers -> Live!Loads]
      /\ \A g \in Live!Fibers \ {f} : fiber'[g] = fiber[g]
  BY <1>1, <1>3
<1>5. LiveTyped'
  BY <1>1, <1>4 DEF LiveInv, LiveTyped
<1>6. ASSUME NEW s, OnTheWay(s)' PROVE OnTheWay(s)
  BY <1>1, <1>3, <1>4, <1>6 DEF OnTheWay
<1>7. NoneIsAhead' /\ LaterHasMore'
  BY <1>1, <1>6, OrderKept
<1>8. Live!NoOlder(liveTruth, fiber[f].before.snapshot)
  <2>1. /\ OnTheWay(fiber[f].before.snapshot)
        /\ fiber[f].before.snapshot \in Live!Snapshots
    BY <1>1, <1>2 DEF OnTheWay, Live!ClientStates
  <2> QED BY <1>1, <2>1
        DEF LiveInv, NoneIsAhead, Live!NoOlder, Live!Snapshots
<1>9. Waits'
  <2>1. WaitsForNewer'
    BY <1>3, <1>4, <1>8 DEF LiveInv, Waits, WaitsForNewer, Live!NoOlder
  <2>2. FallsBackToShown'
    BY <1>1, <1>3, <1>4 DEF LiveInv, Waits, FallsBackToShown
  <2>3. WaitsAlone'
    BY <1>1, <1>3, <1>4 DEF LiveInv, Waits, WaitsAlone, Live!Fibers
  <2> QED BY <2>1, <2>2, <2>3 DEF Waits
<1> QED BY <1>1, <1>5, <1>7, <1>9, ShownStays DEF LiveInv

(* A load ends with its snapshot, or with the state it began from.           *)
LEMMA LoadEnds ==
  ASSUME LiveInv, NEW f \in Live!Fibers,
         Live!LoadInstalled(f) \/ Live!LoadFailed(f)
  PROVE  LiveInv' /\ Moves
<1> USE DEF Live!service, Live!line
<1>1. /\ fiber[f].at \in {"Asked", "Answered"}
      /\ fiber' = [fiber EXCEPT ![f] = Live!Idle]
      /\ fiber \in [Live!Fibers -> Live!Loads]
      /\ liveTruth \in Live!Snapshots /\ client \in Live!ClientStates
      /\ command' \in {command, Live!Idle}
      /\ UNCHANGED <<liveTruth, stream, messages, commands>>
  BY DEF Live!LoadInstalled, Live!LoadFailed, Live!Finished, LiveInv,
    LiveTyped
<1>2. /\ Live!Idle \in Live!Loads /\ Live!Idle.at = "Idle"
  BY DEF Live!Idle, Live!Loads
<1>3. /\ fiber'[f].at = "Idle" /\ fiber' \in [Live!Fibers -> Live!Loads]
      /\ \A g \in Live!Fibers \ {f} : fiber'[g] = fiber[g]
  BY <1>1, <1>2
<1>4. /\ fiber[f].before \in Live!ClientStates
      /\ fiber[f].at = "Answered" => fiber[f].snapshot \in Live!Snapshots
  BY <1>1, FiberTyped DEF LiveInv
<1>5. \/ /\ fiber[f].at = "Answered"
         /\ client' = Live!Current(fiber[f].snapshot)
      \/ client' = Live!stale(fiber[f].before)
  BY DEF Live!LoadInstalled, Live!LoadFailed
<1>6. \/ /\ fiber[f].at = "Answered" /\ client'.tag = "Current"
         /\ client'.snapshot = fiber[f].snapshot
         /\ client' \in Live!ClientStates
      \/ FallsBack(client', fiber[f].before)
  BY <1>4, <1>5, CurrentTyped, TaggedFallsBack
<1>7. LiveTyped'
  BY <1>1, <1>3, <1>6 DEF LiveInv, LiveTyped, FallsBack
<1>8. ASSUME NEW s, OnTheWay(s)' PROVE OnTheWay(s)
  BY <1>1, <1>3, <1>6, <1>8 DEF OnTheWay, FallsBack
<1>9. NoneIsAhead' /\ LaterHasMore'
  BY <1>1, <1>8, OrderKept
<1>10. /\ client'.tag = "Unavailable" =>
            client.tag = "Unavailable" /\ fiber[f].before.tag = "Unavailable"
       /\ fiber[f].before.tag = "Unavailable" => commands = 0
  <2>1. client'.tag = "Unavailable" => fiber[f].before.tag = "Unavailable"
    BY <1>6 DEF FallsBack
  <2>2. fiber[f].before.tag = "Unavailable" => client.tag = "Unavailable"
    BY <1>1 DEF LiveInv, Waits, FallsBackToShown
  <2> QED BY <2>1, <2>2 DEF LiveInv, Waits, FallsBackToShown
<1>11. Waits'
  <2>1. WaitsForNewer'
    BY <1>3 DEF LiveInv, Waits, WaitsForNewer, Live!NoOlder
  <2>2. commands = 0 => f = "Listener" /\ fiber'["Listener"].at = "Idle"
                          /\ fiber'["Command"].at = "Idle"
    BY <1>1, <1>3 DEF LiveInv, Waits, WaitsAlone, Live!Fibers
  <2>3. FallsBackToShown'
    <3>1. CASE client'.tag = "Unavailable"
      BY <1>1, <1>10, <3>1 DEF FallsBackToShown
    <3>2. CASE client'.tag # "Unavailable" /\ client.tag # "Unavailable"
      BY <1>3, <3>2 DEF LiveInv, Waits, FallsBackToShown
    <3>3. CASE client'.tag # "Unavailable" /\ client.tag = "Unavailable"
      <4>1. commands = 0
        BY <3>3 DEF LiveInv, Waits, FallsBackToShown
      <4> QED BY <2>2, <3>3, <4>1 DEF FallsBackToShown, Live!Fibers
    <3> QED BY <3>1, <3>2, <3>3
  <2>4. WaitsAlone'
    BY <1>1, <1>2, <2>2 DEF LiveInv, Waits, WaitsAlone
  <2> QED BY <2>1, <2>3, <2>4 DEF Waits
<1>12. /\ client.snapshot.cursor \in Nat /\ client.snapshot.content \in Nat
       /\ fiber[f].before.snapshot.cursor \in Nat
       /\ fiber[f].before.snapshot.content \in Nat
  BY <1>1, <1>4 DEF Live!ClientStates, Live!Snapshots
<1>13. /\ Live!NoOlder(client'.snapshot, fiber[f].before.snapshot)
       /\ client'.tag = "Stale" =>
            client'.snapshot = fiber[f].before.snapshot
  <2>1. CASE fiber[f].at = "Answered" /\ client'.tag = "Current"
               /\ client'.snapshot = fiber[f].snapshot
    BY <2>1 DEF LiveInv, Waits, WaitsForNewer
  <2>2. CASE FallsBack(client', fiber[f].before)
    BY <1>12, <2>2 DEF FallsBack, Live!NoOlder
  <2> QED BY <1>6, <2>1, <2>2
<1>14. client.snapshot = fiber[f].before.snapshot \/ Live!Overtaken(f)
  BY <1>1, <1>3 DEF Live!Overtaken
<1>15. Live!GoesForward /\ Live!StaysShown
  BY <1>10, <1>13, <1>14 DEF Live!GoesForward, Live!StaysShown
<1>16. ByLoad
  BY <1>6 DEF ByLoad, FallsBack
<1> QED BY <1>7, <1>9, <1>11, <1>15, <1>16 DEF LiveInv, Moves

(* The commands of the browser.                                              *)
LEMMA CommandMoves ==
  ASSUME LiveInv,
         \/ \E kind \in Kinds : Live!submit(kind)
         \/ Live!Decide \/ Live!AnswerReceived
  PROVE  LiveInv' /\ Moves
<1> USE DEF Live!service, Live!line
<1>1. /\ UNCHANGED <<stream, messages, client>>
      /\ commands' # 0 /\ commands' \in Nat
  <2>1. CASE \E kind \in Kinds : Live!submit(kind)
    BY <2>1 DEF Live!submit, LiveInv, LiveTyped
  <2>2. CASE Live!Decide \/ Live!AnswerReceived
    <3>1. commands # 0
      BY <2>2 DEF Live!Decide, Live!AnswerReceived, LiveInv, Waits,
        WaitsAlone
    <3> QED BY <2>2, <3>1 DEF Live!Decide, Live!AnswerReceived, LiveInv,
              LiveTyped
  <2> QED BY <2>1, <2>2
<1>2. /\ liveTruth \in Live!Snapshots /\ client \in Live!ClientStates
      /\ fiber \in [Live!Fibers -> Live!Loads] /\ "Command" \in Live!Fibers
      /\ liveTruth.cursor \in Nat /\ liveTruth.content \in Nat
  BY DEF LiveInv, LiveTyped, Live!Fibers, Live!Snapshots
<1>3. TruthMoves
  <2>1. \/ liveTruth' = liveTruth
        \/ liveTruth' = [cursor |-> liveTruth.cursor + 1,
                         content |-> liveTruth.content + 1]
    BY DEF Live!submit, Live!Decide, Live!AnswerReceived
  <2> QED BY <1>2, <2>1 DEF TruthMoves, Live!Snapshots
<1>4. \/ fiber' = fiber
      \/ fiber' = [fiber EXCEPT !["Command"] = Live!Asking(client)]
  BY DEF Live!submit, Live!Decide, Live!AnswerReceived
<1>5. /\ fiber' \in [Live!Fibers -> Live!Loads]
      /\ \A f \in Live!Fibers :
           \/ fiber'[f] = fiber[f]
           \/ fiber'[f].at = "Asked" /\ fiber'[f].before = client
  BY <1>2, <1>4, AskingTyped
<1>6. LiveTyped'
  BY <1>1, <1>3, <1>5 DEF LiveInv, LiveTyped, TruthMoves
<1>7. ASSUME NEW s, OnTheWay(s)' PROVE OnTheWay(s) \/ s = liveTruth'
  BY <1>1, <1>5, <1>7 DEF OnTheWay
<1>8. NoneIsAhead' /\ LaterHasMore'
  BY <1>3, <1>7, OrderKept DEF TruthMoves
<1>9. Waits'
  <2>1. client.tag # "Unavailable"
    <3>1. CASE \E kind \in Kinds : Live!submit(kind)
      BY <3>1 DEF Live!submit
    <3>2. CASE Live!Decide \/ Live!AnswerReceived
      BY <1>1, <3>2 DEF Live!Decide, Live!AnswerReceived, LiveInv, Waits,
        FallsBackToShown
    <3> QED BY <3>1, <3>2
  <2>2. WaitsForNewer'
    BY <1>5 DEF LiveInv, Waits, WaitsForNewer, Live!NoOlder
  <2>3. FallsBackToShown'
    BY <1>1, <1>5, <2>1 DEF LiveInv, Waits, FallsBackToShown
  <2>4. WaitsAlone'
    BY <1>1 DEF WaitsAlone
  <2> QED BY <2>2, <2>3, <2>4 DEF Waits
<1> QED BY <1>1, <1>6, <1>8, <1>9, ShownStays DEF LiveInv

LEMMA LiveStep ==
  ASSUME LiveInv, [Live!Next]_Live!vars
  PROVE  LiveInv' /\ Moves
<1>1. CASE UNCHANGED Live!vars
  <2>1. UNCHANGED <<liveTruth, stream, messages, client, fiber, command,
                    commands>>
    BY <1>1 DEF Live!vars, Live!service, Live!line, Live!browser
  <2>2. LiveTyped' /\ Waits'
    BY <2>1, WaitingStays DEF LiveInv, LiveTyped
  <2>3. ASSUME NEW s, OnTheWay(s)' PROVE OnTheWay(s)
    BY <2>1, <2>3 DEF OnTheWay
  <2>4. NoneIsAhead' /\ LaterHasMore'
    BY <2>1, <2>3, OrderKept DEF LiveInv, LiveTyped
  <2> QED BY <2>1, <2>2, <2>4, ShownStays DEF LiveInv
<1> QED BY <1>1, LineSteps, ReconcileMoves, LoadReads, LoadEnds, CommandMoves
    DEF Live!Next

-----------------------------------------------------------------------------
(* The intake of Assets.  A creation in flight carries the intent the page   *)
(* keeps for its name, or one the service has accepted; so as long as that   *)
(* intent is not accepted, the page knows of every Project of the name.      *)
IntakeSteps ==
  {"Sent", "Opened", "Rejected", "Uncertain", "Listing", "Listed",
   "Reconciling", "Told"}
Counts == [Projects -> Int]
Intakes ==
  [at : IntakeSteps, of : Keys \cup Projects, intent : Nat, expected : Int,
   generation : Nat, list : Nat, projects : Counts]
ListReads ==
  [at : {"Reading", "Read"}, generation : Nat, list : Nat, projects : Counts]

IntakeTyped ==
  /\ receipts \subseteq Nat
  /\ created \in [Keys -> Nat] /\ known \in [Keys -> Nat]
  /\ revision \in [Projects -> Nat]
  /\ pendingProjectCreations \in [Keys -> Nat] /\ intents \in Nat
  /\ listGeneration \in Nat /\ processListReadGeneration \in Nat
  /\ listed \in [projects : Counts,
                 state : {"loading", "current", "unavailable"}]
  /\ intakes \in [Forms -> Intakes \cup {Taking!NoIntake}]
  /\ processFiber \in ListReads \cup {Taking!NoRead}

(* What is in flight for a name that was not refused.                        *)
IntentsAreKept ==
  /\ 0 \notin receipts
  /\ \A f \in Forms : intakes[f].at # "None" /\ intakes[f].of \in Keys =>
       LET k == intakes[f].of
           i == intakes[f].intent
       IN  /\ intakes[f].at = "Sent" /\ k \notin refused =>
                i = pendingProjectCreations[k] \/ i \in receipts
           /\ intakes[f].at = "Sent" => i # 0
           /\ intakes[f].at = "Opened" => i \in receipts
           /\ intakes[f].at = "Rejected" => k \in refused

ProjectsAreKnown ==
  \A k \in Keys \ refused :
    /\ created[k] <= known[k] + 1
    /\ pendingProjectCreations[k] \notin receipts => created[k] <= known[k]

CreationInv == IntakeTyped /\ IntentsAreKept /\ ProjectsAreKnown

LEMMA IntakeInit == Taking!Init => CreationInv
BY DEF Taking!Init, CreationInv, IntakeTyped, IntentsAreKept,
  ProjectsAreKnown, Counts, Taking!Unread, Taking!NoIntake, Taking!NoRead

(* An intake moves on and stays what it is.                                  *)
MovesOn(f, step) ==
  /\ intakes'[f] \in Intakes
  /\ intakes'[f].at = step
  /\ intakes'[f].of = intakes[f].of /\ intakes'[f].intent = intakes[f].intent
  /\ intakes'[f].generation = intakes[f].generation
  /\ intakes'[f].list = intakes[f].list
  /\ intakes'[f].projects = intakes[f].projects
  /\ \A g \in Forms \ {f} : intakes'[g] = intakes[g]
  /\ intakes' \in [Forms -> Intakes \cup {Taking!NoIntake}]

LEMMA AtMoves ==
  ASSUME IntakeTyped, NEW f \in Forms, intakes[f].at # "None",
         NEW step \in IntakeSteps, Taking!At(f, step)
  PROVE  intakes[f] \in Intakes /\ MovesOn(f, step)
<1>1. intakes[f] \in Intakes
  BY DEF IntakeTyped, Taking!NoIntake
<1>2. intakes' = [intakes EXCEPT ![f] = [intakes[f] EXCEPT !.at = step]]
  BY DEF Taking!At
<1>3. [intakes[f] EXCEPT !.at = step] \in Intakes
  BY <1>1 DEF Intakes
<1> QED BY <1>1, <1>2, <1>3 DEF MovesOn, IntakeTyped, Intakes

LEMMA Keyed == Keys \cap Projects = {}
BY BrowserAssumption DEF Taking!TakingAssumption

(* A new intake of a name or of a Project.                                   *)
LEMMA Begins ==
  ASSUME IntakeTyped, NEW f \in Forms, NEW of \in Keys \cup Projects,
         NEW intent \in Nat, NEW expected \in Int,
         Taking!Begin(f, of, intent, expected)
  PROVE  /\ intakes'[f].at = "Sent" /\ intakes'[f].of = of
         /\ intakes'[f].intent = intent
         /\ \A g \in Forms \ {f} : intakes'[g] = intakes[g]
         /\ intakes' \in [Forms -> Intakes \cup {Taking!NoIntake}]
BY DEF Taking!Begin, IntakeTyped, Intakes, IntakeSteps, Counts, Taking!Unread

(* An intake that ends leaves its place free.                                *)
LEMMA Ends ==
  ASSUME IntakeTyped, NEW f \in Forms,
         intakes' = [intakes EXCEPT ![f] = Taking!NoIntake]
  PROVE  /\ intakes'[f].at = "None"
         /\ \A g \in Forms \ {f} : intakes'[g] = intakes[g]
         /\ intakes' \in [Forms -> Intakes \cup {Taking!NoIntake}]
BY DEF IntakeTyped, Taking!NoIntake

LEMMA Counted == Taking!Unread \in Counts /\ [Projects -> Nat] \subseteq Counts
BY DEF Taking!Unread, Counts

LEMMA ListReadsType ==
  ASSUME IntakeTyped, NEW read, read.projects \in Counts,
         Taking!Listed(read) \/ Taking!NotListed(read)
  PROVE  listed' \in [projects : Counts,
                      state : {"loading", "current", "unavailable"}]
BY DEF IntakeTyped, Taking!Listed, Taking!NotListed

LEMMA TypesAreKept ==
  ASSUME IntakeTyped, [Taking!Next]_Taking!vars
  PROVE  IntakeTyped'
<1> USE DEF Taking!service, Taking!generations, Taking!page, Taking!bounds
<1>1. ASSUME NEW p \in Projects, Taking!ChangedElsewhere(p)
      PROVE  IntakeTyped'
  BY <1>1 DEF Taking!ChangedElsewhere, IntakeTyped
<1>2. CASE Taking!routeChanged
  BY <1>2, Counted DEF Taking!routeChanged, IntakeTyped, ListReads
<1>3. CASE Taking!ListRead
  <2>1. processFiber \in ListReads
    BY <1>3 DEF Taking!ListRead, IntakeTyped, Taking!NoRead
  <2>2. processFiber' \in ListReads
    BY <1>3, <2>1, Counted DEF Taking!ListRead, IntakeTyped, ListReads
  <2> QED BY <1>3, <2>2 DEF Taking!ListRead, IntakeTyped
<1>4. CASE Taking!loadProcess
  <2>1. processFiber.projects \in Counts
    BY <1>4 DEF Taking!loadProcess, IntakeTyped, ListReads, Taking!NoRead
  <2>2. listed' \in [projects : Counts,
                     state : {"loading", "current", "unavailable"}]
    BY <1>4, <2>1, ListReadsType DEF Taking!loadProcess
  <2> QED BY <1>4, <2>2 DEF Taking!loadProcess, IntakeTyped
<1>5. CASE Taking!Loaded
  BY <1>5, Counted DEF Taking!Loaded, IntakeTyped
<1>6. ASSUME NEW f \in Forms, NEW k \in Keys, Taking!CreateProject(f, k)
      PROVE  IntakeTyped'
  <2>1. \E i \in Nat : Taking!Begin(f, k, i, 0)
    BY <1>6 DEF Taking!CreateProject, IntakeTyped
  <2>2. intakes' \in [Forms -> Intakes \cup {Taking!NoIntake}]
    BY <2>1, Begins
  <2> QED BY <1>6, <2>2 DEF Taking!CreateProject, IntakeTyped
<1>7. ASSUME NEW f \in Forms, NEW p \in Projects,
             Taking!AddProjectSources(f, p)
      PROVE  IntakeTyped'
  <2>1. listed.projects[p] \in Int
    BY DEF IntakeTyped, Counts
  <2>2. intakes' \in [Forms -> Intakes \cup {Taking!NoIntake}]
    BY <1>7, <2>1, Begins DEF Taking!AddProjectSources
  <2> QED BY <1>7, <2>2 DEF Taking!AddProjectSources, IntakeTyped
<1>8. ASSUME NEW f \in Forms, Taking!Answered(f) PROVE IntakeTyped'
  <2>1. intakes[f] \in Intakes
    BY <1>8 DEF Taking!Answered, Taking!create, Taking!ProjectCreated,
      Taking!CreationFailed, Taking!ReconcileRead, Taking!ListReconciled,
      Taking!change, Taking!SourcesAdded, Taking!reconcileProjectPair,
      Taking!Told, IntakeTyped, Taking!NoIntake
  <2>2. \A step \in IntakeSteps : Taking!At(f, step) =>
          intakes' \in [Forms -> Intakes \cup {Taking!NoIntake}]
    BY <2>1, AtMoves DEF MovesOn, Intakes, IntakeSteps
  <2>3. CASE Taking!create(f)
    <3>1. intakes' \in [Forms -> Intakes \cup {Taking!NoIntake}]
      BY <2>2, <2>3 DEF Taking!create, IntakeSteps
    <3>2. /\ created' \in [Keys -> Nat]
          /\ receipts' \subseteq Nat
      <4>1. /\ intakes[f].intent \in Nat /\ intakes[f].of \in Keys
            /\ created \in [Keys -> Nat] /\ receipts \subseteq Nat
        BY <2>1, <2>3 DEF Taking!create, IntakeTyped, Intakes
      <4>2. \/ UNCHANGED <<receipts, created>>
            \/ /\ receipts' = receipts \cup {intakes[f].intent}
               /\ \E n \in {0, 1} : created' =
                    [created EXCEPT ![intakes[f].of] = @ + n]
        BY <2>3 DEF Taking!create
      <4>3. ASSUME NEW n \in {0, 1},
                   created' = [created EXCEPT ![intakes[f].of] = @ + n]
            PROVE  created' \in [Keys -> Nat]
        BY <4>1, <4>3
      <4> QED BY <4>1, <4>2, <4>3
    <3> QED BY <2>3, <3>1, <3>2 DEF Taking!create, IntakeTyped
  <2>4. CASE Taking!ProjectCreated(f)
    BY <2>4, <2>1, Ends
    DEF Taking!ProjectCreated, Taking!clearRequest, IntakeTyped
  <2>5. CASE Taking!CreationFailed(f)
    <3>1. pendingProjectCreations' \in [Keys -> Nat]
      BY <2>5, <2>1
      DEF Taking!CreationFailed, Taking!clearRequest, IntakeTyped
    <3>2. intakes' \in [Forms -> Intakes \cup {Taking!NoIntake}]
      <4>1. CASE Taking!At(f, "Told")
        BY <4>1, <2>2 DEF IntakeSteps
      <4>2. CASE intakes' = [intakes EXCEPT ![f].at = "Listing",
                               ![f].list = processListReadGeneration + 1]
        <5> DEFINE moved == [[intakes[f] EXCEPT !.at = "Listing"]
                               EXCEPT !.list = processListReadGeneration + 1]
        <5>1. processListReadGeneration + 1 \in Nat
          BY DEF IntakeTyped
        <5>2. moved \in Intakes
          BY <2>1, <5>1 DEF Intakes, IntakeSteps
        <5>3. intakes' = [intakes EXCEPT ![f] = moved]
          BY <4>2, <2>1 DEF IntakeTyped
        <5> QED BY <5>2, <5>3 DEF IntakeTyped
      <4> QED BY <2>5, <4>1, <4>2 DEF Taking!CreationFailed
    <3>3. processListReadGeneration' \in Nat
      BY <2>5 DEF Taking!CreationFailed, IntakeTyped
    <3> QED BY <2>5, <3>1, <3>2, <3>3 DEF Taking!CreationFailed, IntakeTyped
  <2>6. CASE Taking!ReconcileRead(f)
    <3>1. intakes' \in [Forms -> Intakes \cup {Taking!NoIntake}]
      BY <2>6, <2>1, Counted DEF Taking!ReconcileRead, IntakeTyped, Intakes,
        IntakeSteps
    <3> QED BY <2>6, <3>1 DEF Taking!ReconcileRead, IntakeTyped
  <2>7. CASE Taking!ListReconciled(f)
    <3>1. intakes' \in [Forms -> Intakes \cup {Taking!NoIntake}]
      BY <2>7, <2>2 DEF Taking!ListReconciled, IntakeSteps
    <3>2. listed' \in [projects : Counts,
                       state : {"loading", "current", "unavailable"}]
      BY <2>7, <2>1, ListReadsType DEF Taking!ListReconciled, Intakes
    <3> QED BY <2>7, <3>1, <3>2 DEF Taking!ListReconciled, IntakeTyped
  <2>8. CASE Taking!change(f)
    <3>1. intakes' \in [Forms -> Intakes \cup {Taking!NoIntake}]
      BY <2>8, <2>2 DEF Taking!change, IntakeSteps
    <3> QED BY <2>8, <3>1 DEF Taking!change, IntakeTyped
  <2>9. CASE Taking!SourcesAdded(f)
    BY <2>9, Ends DEF Taking!SourcesAdded, IntakeTyped
  <2>10. CASE Taking!reconcileProjectPair(f)
    BY <2>10, <2>2
    DEF Taking!reconcileProjectPair, IntakeTyped, IntakeSteps
  <2>11. CASE Taking!Told(f)
    BY <2>11, Ends DEF Taking!Told, IntakeTyped
  <2> QED BY <1>8, <2>3, <2>4, <2>5, <2>6, <2>7, <2>8, <2>9, <2>10, <2>11
        DEF Taking!Answered
<1>9. CASE UNCHANGED Taking!vars
  BY <1>9 DEF Taking!vars, IntakeTyped
<1> QED BY <1>1, <1>2, <1>3, <1>4, <1>5, <1>6, <1>7, <1>8, <1>9
  DEF Taking!Next, Taking!Intake

(* An answer that is told leaves the intents alone.                          *)
LEMMA OnlyMoves ==
  ASSUME CreationInv, NEW f \in Forms, intakes[f].at # "None",
         NEW step \in IntakeSteps \ {"Sent", "Opened", "Rejected"},
         Taking!At(f, step),
         IntakeTyped',
         UNCHANGED <<receipts, created, refused, known,
                     pendingProjectCreations>>
  PROVE  CreationInv'
<1>1. MovesOn(f, step) /\ intakes[f] \in Intakes
  BY AtMoves DEF CreationInv
<1>2. IntentsAreKept'
  BY <1>1 DEF CreationInv, IntentsAreKept, MovesOn, IntakeSteps
<1>3. ProjectsAreKnown'
  BY DEF CreationInv, ProjectsAreKnown
<1> QED BY <1>2, <1>3 DEF CreationInv

LEMMA CreateKeeps ==
  ASSUME CreationInv, NEW f \in Forms, Taking!create(f), IntakeTyped'
  PROVE  CreationInv'
<1> DEFINE i == intakes[f].intent
           k == intakes[f].of
<1>1. /\ intakes[f].at = "Sent" /\ k \in Keys
      /\ UNCHANGED <<revision, known, listGeneration,
                     processListReadGeneration, listed, processFiber,
                     pendingProjectCreations, intents>>
  BY DEF Taking!create, Taking!page, Taking!generations
<1>2. intakes[f] \in Intakes /\ i \in Nat \ {0}
  BY <1>1 DEF CreationInv, IntakeTyped, IntentsAreKept, Intakes,
    Taking!NoIntake
<1>3. \E step \in {"Opened", "Uncertain", "Rejected"} : Taking!At(f, step)
  BY DEF Taking!create
<1>4. PICK step \in {"Opened", "Uncertain", "Rejected"} : Taking!At(f, step)
  BY <1>3
<1>5. MovesOn(f, step)
  BY <1>1, <1>4, AtMoves DEF CreationInv, IntakeSteps
<1>6. CASE /\ receipts' = receipts \cup {i}
           /\ created' = [created EXCEPT ![k] =
                            @ + IF i \in receipts THEN 0 ELSE 1]
           /\ UNCHANGED refused
           /\ intakes'[f].at # "Rejected"
  <2>2. IntentsAreKept'
    BY <1>1, <1>5, <1>6, <1>2 DEF CreationInv, IntentsAreKept, MovesOn
  <2>3. ASSUME NEW n \in Keys \ refused
        PROVE  /\ created'[n] <= known[n] + 1
               /\ pendingProjectCreations[n] \notin receipts' =>
                    created'[n] <= known[n]
    <3>1. CASE n = k
      <4>1. i = pendingProjectCreations[k] \/ i \in receipts
        BY <1>1, <2>3, <3>1 DEF CreationInv, IntentsAreKept
      <4> QED BY <1>6, <2>3, <3>1, <4>1
            DEF CreationInv, ProjectsAreKnown, IntakeTyped
    <3>2. CASE n # k
      BY <1>6, <2>3, <3>2 DEF CreationInv, ProjectsAreKnown, IntakeTyped
    <3> QED BY <3>1, <3>2
  <2>4. ProjectsAreKnown'
    BY <1>1, <1>6, <2>3 DEF ProjectsAreKnown
  <2> QED BY <2>2, <2>4 DEF CreationInv
<1>7. CASE /\ UNCHANGED <<receipts, created>>
           /\ \/ intakes'[f].at = "Rejected" /\ refused' = refused \cup {k}
              \/ intakes'[f].at = "Uncertain" /\ UNCHANGED refused
  <2>2. IntentsAreKept'
    BY <1>1, <1>5, <1>7 DEF CreationInv, IntentsAreKept, MovesOn
  <2>3. ProjectsAreKnown'
    BY <1>1, <1>7 DEF CreationInv, ProjectsAreKnown
  <2> QED BY <2>2, <2>3 DEF CreationInv
<1>8. /\ Taking!At(f, "Opened") => intakes'[f].at = "Opened"
      /\ Taking!At(f, "Uncertain") => intakes'[f].at = "Uncertain"
      /\ Taking!At(f, "Rejected") => intakes'[f].at = "Rejected"
  BY <1>2 DEF Taking!At, CreationInv, IntakeTyped, Intakes
<1> QED BY <1>6, <1>7, <1>8 DEF Taking!create

LEMMA CreationStep ==
  ASSUME CreationInv, [Taking!Next]_Taking!vars
  PROVE  CreationInv'
<1> USE DEF Taking!service, Taking!generations, Taking!page, Taking!bounds
<1>0. IntakeTyped /\ IntakeTyped'
  BY TypesAreKept DEF CreationInv
<1>1. CASE UNCHANGED <<receipts, created, refused, known, intakes,
                       pendingProjectCreations>>
  BY <1>0, <1>1 DEF CreationInv, IntentsAreKept, ProjectsAreKnown
<1>2. CASE Taking!Loaded
  <2>1. \A k \in Keys : created'[k] = known'[k] /\ known'[k] \in Nat
    BY <1>0, <1>2 DEF Taking!Loaded, IntakeTyped
  <2>2. ProjectsAreKnown'
    BY <2>1 DEF ProjectsAreKnown
  <2>3. IntentsAreKept'
    BY <1>2 DEF Taking!Loaded, CreationInv, IntentsAreKept, Taking!NoIntake
  <2> QED BY <1>0, <2>2, <2>3 DEF CreationInv
<1>3. ASSUME NEW f \in Forms, NEW k \in Keys, Taking!CreateProject(f, k)
      PROVE  CreationInv'
  <2>1. PICK i \in Nat \ {0} :
          /\ Taking!Begin(f, k, i, 0)
          /\ pendingProjectCreations' =
               [pendingProjectCreations EXCEPT ![k] = i]
          /\ pendingProjectCreations[k] \in {0, i}
    BY <1>0, <1>3 DEF Taking!CreateProject, IntakeTyped
  <2>2. /\ intakes'[f].at = "Sent" /\ intakes'[f].of = k
        /\ intakes'[f].intent = i
        /\ \A g \in Forms \ {f} : intakes'[g] = intakes[g]
    BY <1>0, <2>1, Begins
  <2>3. UNCHANGED <<receipts, created, refused, known>>
    BY <1>3 DEF Taking!CreateProject
  <2>4. IntentsAreKept'
    BY <1>0, <2>1, <2>2, <2>3 DEF CreationInv, IntentsAreKept, IntakeTyped
  <2>5. ProjectsAreKnown'
    BY <1>0, <2>1, <2>3
    DEF CreationInv, IntentsAreKept, ProjectsAreKnown, IntakeTyped
  <2> QED BY <1>0, <2>4, <2>5 DEF CreationInv
<1>4. ASSUME NEW f \in Forms, NEW p \in Projects,
             Taking!AddProjectSources(f, p)
      PROVE  CreationInv'
  <2>1. listed.projects[p] \in Int
    BY <1>0 DEF IntakeTyped, Counts
  <2>2. /\ intakes'[f].of = p
        /\ \A g \in Forms \ {f} : intakes'[g] = intakes[g]
    BY <1>0, <1>4, <2>1, Begins DEF Taking!AddProjectSources
  <2>3. UNCHANGED <<receipts, created, refused, known,
                    pendingProjectCreations>>
    BY <1>4 DEF Taking!AddProjectSources
  <2>4. IntentsAreKept'
    BY <2>2, <2>3, Keyed DEF CreationInv, IntentsAreKept
  <2>5. ProjectsAreKnown'
    BY <2>3 DEF CreationInv, ProjectsAreKnown
  <2> QED BY <1>0, <2>4, <2>5 DEF CreationInv
<1>5. ASSUME NEW f \in Forms, Taking!Answered(f) PROVE CreationInv'
  <2>1. CASE Taking!create(f)
    BY <1>0, <2>1, CreateKeeps
  <2>2. CASE Taking!ProjectCreated(f)
    <3> DEFINE k == intakes[f].of
    <3>1. /\ intakes[f].at = "Opened" /\ k \in Keys
          /\ intakes[f].intent \in receipts
          /\ \A n \in Keys : known'[n] =
               IF n = k THEN known[n] + 1 ELSE known[n]
          /\ \A n \in Keys : pendingProjectCreations'[n] =
               IF n = k /\ pendingProjectCreations[n] = intakes[f].intent
               THEN 0 ELSE pendingProjectCreations[n]
          /\ UNCHANGED <<receipts, created, refused>>
      BY <1>0, <2>2 DEF Taking!ProjectCreated, Taking!clearRequest,
        CreationInv, IntentsAreKept, IntakeTyped
    <3>2. /\ intakes'[f].at = "None"
          /\ \A g \in Forms \ {f} : intakes'[g] = intakes[g]
      BY <1>0, <2>2, Ends DEF Taking!ProjectCreated
    <3>3. IntentsAreKept'
      BY <3>1, <3>2 DEF CreationInv, IntentsAreKept
    <3>4. ProjectsAreKnown'
      BY <1>0, <3>1 DEF CreationInv, ProjectsAreKnown, IntakeTyped
    <3> QED BY <1>0, <3>3, <3>4 DEF CreationInv
  <2>3. CASE Taking!CreationFailed(f)
    <3>1. /\ intakes[f].at \in {"Rejected", "Uncertain"}
          /\ intakes[f].of \in Keys
          /\ intakes[f].at = "Rejected" => intakes[f].of \in refused
          /\ \A n \in Keys \ refused :
               pendingProjectCreations'[n] = pendingProjectCreations[n]
          /\ UNCHANGED <<receipts, created, refused, known>>
      BY <1>0, <2>3 DEF Taking!CreationFailed, Taking!clearRequest,
        CreationInv, IntentsAreKept, IntakeTyped
    <3>2. /\ intakes'[f].at \in {"Listing", "Told"}
          /\ \A g \in Forms \ {f} : intakes'[g] = intakes[g]
      BY <1>0, <2>3, <3>1 DEF Taking!CreationFailed, Taking!At, IntakeTyped,
        Intakes, Taking!NoIntake
    <3>3. IntentsAreKept'
      BY <3>1, <3>2 DEF CreationInv, IntentsAreKept
    <3>4. ProjectsAreKnown'
      BY <3>1 DEF CreationInv, ProjectsAreKnown
    <3> QED BY <1>0, <3>3, <3>4 DEF CreationInv
  <2>4. CASE Taking!ReconcileRead(f)
    <3>1. /\ intakes'[f].at = "Listed"
          /\ \A g \in Forms \ {f} : intakes'[g] = intakes[g]
      BY <1>0, <2>4 DEF Taking!ReconcileRead, IntakeTyped, Intakes,
        Taking!NoIntake
    <3>2. UNCHANGED <<receipts, created, refused, known,
                      pendingProjectCreations>>
      BY <2>4 DEF Taking!ReconcileRead
    <3>3. IntentsAreKept'
      BY <3>1, <3>2 DEF CreationInv, IntentsAreKept
    <3> QED BY <1>0, <3>2, <3>3 DEF CreationInv, ProjectsAreKnown
  <2>5. CASE Taking!ListReconciled(f) \/ Taking!reconcileProjectPair(f)
    BY <1>0, <2>5, OnlyMoves
    DEF Taking!ListReconciled, Taking!reconcileProjectPair, IntakeSteps
  <2>6. CASE Taking!change(f)
    <3>1. /\ intakes[f].at = "Sent" /\ intakes[f].of \in Projects
          /\ \E step \in IntakeSteps : Taking!At(f, step)
          /\ UNCHANGED <<receipts, created, refused, known,
                         pendingProjectCreations>>
      BY <2>6 DEF Taking!change, IntakeSteps
    <3>2. /\ intakes'[f].of = intakes[f].of
          /\ \A g \in Forms \ {f} : intakes'[g] = intakes[g]
      BY <1>0, <3>1, AtMoves DEF MovesOn
    <3>3. IntentsAreKept'
      BY <3>1, <3>2, Keyed DEF CreationInv, IntentsAreKept
    <3> QED BY <1>0, <3>1, <3>3 DEF CreationInv, ProjectsAreKnown
  <2>7. CASE Taking!SourcesAdded(f) \/ Taking!Told(f)
    <3>1. /\ intakes' = [intakes EXCEPT ![f] = Taking!NoIntake]
          /\ UNCHANGED <<receipts, created, refused, known,
                         pendingProjectCreations>>
      BY <2>7 DEF Taking!SourcesAdded, Taking!Told
    <3>2. IntentsAreKept'
      BY <1>0, <3>1, Ends DEF CreationInv, IntentsAreKept
    <3> QED BY <1>0, <3>1, <3>2 DEF CreationInv, ProjectsAreKnown
  <2> QED BY <1>5, <2>1, <2>2, <2>3, <2>4, <2>5, <2>6, <2>7
        DEF Taking!Answered
<1>6. CASE \/ \E p \in Projects : Taking!ChangedElsewhere(p)
           \/ Taking!routeChanged \/ Taking!ListRead \/ Taking!loadProcess
           \/ UNCHANGED Taking!vars
  BY <1>1, <1>6 DEF Taking!ChangedElsewhere, Taking!routeChanged,
    Taking!ListRead, Taking!loadProcess, Taking!vars
<1> QED BY <1>2, <1>3, <1>4, <1>5, <1>6 DEF Taking!Next, Taking!Intake

(* A repeated creation makes no second Project.                              *)
THEOREM CreationsAreOnce == BrowserSpec => []CreatedOnce
<1>1. CreationInv => CreatedOnce
  BY DEF CreationInv, IntakeTyped, ProjectsAreKnown, CreatedOnce,
    Taking!CreatedOnce
<1> QED BY <1>1, IntakeInit, CreationStep, PTL DEF BrowserSpec, Taking!Spec

-----------------------------------------------------------------------------
(* Of the reads of the list at most one carries the newest number, and it    *)
(* has read what is listed or something newer.                               *)
Asks(f) == intakes[f].at \in {"Listing", "Listed"}
Fresh(read) ==
  \A p \in Projects :
    /\ read.projects[p] <= revision[p]
    /\ read.list = processListReadGeneration =>
         read.projects[p] >= listed.projects[p]

ReadsAreNumbered ==
  /\ \A f \in Forms : Asks(f) =>
       /\ intakes[f].list <= processListReadGeneration
       /\ processFiber # Taking!NoRead => intakes[f].list # processFiber.list
       /\ \A g \in Forms \ {f} :
            Asks(g) => intakes[f].list # intakes[g].list
  /\ processFiber # Taking!NoRead =>
       processFiber.list <= processListReadGeneration

ReadsAreFresh ==
  /\ \A f \in Forms : intakes[f].at = "Listed" => Fresh(intakes[f])
  /\ processFiber.at = "Read" => Fresh(processFiber)

ListInv ==
  /\ IntakeTyped /\ ReadsAreNumbered /\ ReadsAreFresh
  /\ \A p \in Projects : listed.projects[p] <= revision[p]

LEMMA ListInit == Taking!Init => ListInv
<1> SUFFICES ASSUME Taking!Init PROVE ListInv
  OBVIOUS
<1>1. IntakeTyped
  BY IntakeInit DEF CreationInv
<1>2. /\ \A f \in Forms : intakes[f].at = "None"
      /\ processFiber = Taking!NoRead
      /\ \A p \in Projects : listed.projects[p] = -1 /\ revision[p] = 0
  BY DEF Taking!Init, Taking!NoIntake, Taking!Unread
<1> QED BY <1>1, <1>2 DEF ListInv, ReadsAreNumbered, ReadsAreFresh, Asks,
          Taking!NoRead

(* Reads end, and the list stays.                                            *)
LEMMA ListStays ==
  ASSUME ListInv, IntakeTyped',
         listed'.projects = listed.projects,
         UNCHANGED <<revision, processListReadGeneration>>,
         processFiber' \in {processFiber, Taking!NoRead},
         \A f \in Forms : intakes'[f] = intakes[f] \/ ~Asks(f)'
  PROVE  ListInv'
<1>1. ReadsAreNumbered'
  BY DEF ListInv, ReadsAreNumbered, Asks
<1>2. ReadsAreFresh'
  BY DEF ListInv, ReadsAreFresh, Asks, Fresh, Taking!NoRead
<1> QED BY <1>1, <1>2 DEF ListInv

(* The owner's read is listed and ends.                                      *)
LEMMA OwnerListed ==
  ASSUME ListInv, IntakeTyped', NEW read, Fresh(read),
         read.projects \in Counts,
         read.list \in Nat,
         Taking!Listed(read),
         UNCHANGED <<revision, processListReadGeneration>>,
         \/ /\ processFiber # Taking!NoRead /\ read.list = processFiber.list
            /\ processFiber' = Taking!NoRead
            /\ \A g \in Forms : intakes'[g] = intakes[g]
         \/ /\ UNCHANGED processFiber
            /\ \E f \in Forms :
                 /\ Asks(f) /\ read.list = intakes[f].list /\ ~Asks(f)'
                 /\ \A g \in Forms \ {f} : intakes'[g] = intakes[g]
  PROVE  ListInv' /\ \A p \in Projects :
                       listed'.projects[p] >= listed.projects[p]
<1>1. /\ \A p \in Projects : revision[p] \in Int /\ listed.projects[p] \in Int
      /\ \A p \in Projects : read.projects[p] \in Int
      /\ processListReadGeneration \in Nat
  BY DEF ListInv, IntakeTyped, Counts
<1>2. CASE ~Taking!ownsProcessListRead(read)
  <2>1. listed' = listed
    BY <1>2 DEF Taking!Listed
  <2>2. /\ processFiber' \in {processFiber, Taking!NoRead}
        /\ \A f \in Forms : intakes'[f] = intakes[f] \/ ~Asks(f)'
    OBVIOUS
  <2>3. ListInv'
    BY <2>1, <2>2, ListStays
  <2> QED BY <1>1, <2>1, <2>3
<1>3. CASE Taking!ownsProcessListRead(read)
  <2>1. /\ listed'.projects = read.projects
        /\ read.list = processListReadGeneration
    BY <1>3 DEF Taking!Listed, Taking!ownsProcessListRead
  <2>2. ReadsAreNumbered'
    BY DEF ListInv, ReadsAreNumbered, Asks
  <2>3. \A f \in Forms : Asks(f)' =>
          intakes'[f] = intakes[f] /\ intakes[f].list # read.list
    BY DEF ListInv, ReadsAreNumbered, Asks
  <2>4. processFiber' # Taking!NoRead =>
          processFiber' = processFiber /\ processFiber.list # read.list
    BY DEF ListInv, ReadsAreNumbered
  <2>5. \A f \in Forms : (intakes[f].at = "Listed")' => Fresh(intakes[f])'
    BY <1>1, <2>1, <2>3 DEF ListInv, ReadsAreFresh, Fresh, Asks
  <2>6. (processFiber.at = "Read")' => Fresh(processFiber)'
    BY <1>1, <2>1, <2>4 DEF ListInv, ReadsAreFresh, Fresh, Taking!NoRead
  <2>7. \A p \in Projects : /\ listed'.projects[p] <= revision'[p]
                            /\ listed'.projects[p] >= listed.projects[p]
    BY <1>1, <2>1 DEF Fresh
  <2> QED BY <2>2, <2>5, <2>6, <2>7 DEF ListInv, ReadsAreFresh
<1> QED BY <1>2, <1>3

(* Another revision of a Project.                                            *)
LEMMA RevisionGrows ==
  ASSUME ListInv, IntakeTyped',
         \A p \in Projects : revision'[p] >= revision[p],
         UNCHANGED <<listed, processListReadGeneration, processFiber>>,
         \A f \in Forms : intakes'[f] = intakes[f] \/ ~Asks(f)'
  PROVE  ListInv'
<1>1. \A p \in Projects :
        /\ revision[p] \in Int /\ revision'[p] \in Int
        /\ listed.projects[p] \in Int
  BY DEF ListInv, IntakeTyped, Counts
<1>2. ReadsAreNumbered'
  BY DEF ListInv, ReadsAreNumbered, Asks
<1>3. ASSUME NEW f \in Forms, (intakes[f].at = "Listed")'
      PROVE  Fresh(intakes[f])'
  <2>1. intakes'[f] = intakes[f] /\ Fresh(intakes[f])
    BY <1>3 DEF ListInv, ReadsAreFresh, Asks
  <2>2. \A p \in Projects : intakes[f].projects[p] \in Int
    BY <1>3, <2>1 DEF ListInv, IntakeTyped, Intakes, Counts, Taking!NoIntake
  <2> QED BY <1>1, <2>1, <2>2 DEF Fresh
<1>4. ASSUME (processFiber.at = "Read")' PROVE Fresh(processFiber)'
  <2>1. \A p \in Projects : processFiber.projects[p] \in Int
    BY <1>4 DEF ListInv, IntakeTyped, ListReads, Counts, Taking!NoRead
  <2> QED BY <1>1, <1>4, <2>1 DEF ListInv, ReadsAreFresh, Fresh
<1> QED BY <1>1, <1>2, <1>3, <1>4 DEF ListInv, ReadsAreFresh

Listing == \A p \in Projects : listed'.projects[p] >= listed.projects[p]

LEMMA Same ==
  ASSUME ListInv, listed'.projects = listed.projects PROVE Listing
BY DEF ListInv, IntakeTyped, Counts, Listing

LEMMA AnswerLists ==
  ASSUME ListInv, IntakeTyped', NEW f \in Forms, Taking!Answered(f)
  PROVE  ListInv' /\ Listing
<1> USE DEF Taking!service, Taking!generations, Taking!page, Taking!bounds
<1>1. intakes[f] \in Intakes
  BY DEF ListInv, Taking!Answered, Taking!create, Taking!ProjectCreated,
    Taking!CreationFailed, Taking!ReconcileRead, Taking!ListReconciled,
    Taking!change, Taking!SourcesAdded, Taking!reconcileProjectPair,
    Taking!Told, IntakeTyped, Taking!NoIntake
<1>2. /\ \A step \in IntakeSteps : Taking!At(f, step) =>
           /\ intakes'[f].at = step
           /\ \A g \in Forms \ {f} : intakes'[g] = intakes[g]
      /\ intakes' = [intakes EXCEPT ![f] = Taking!NoIntake] =>
           /\ intakes'[f].at = "None"
           /\ \A g \in Forms \ {f} : intakes'[g] = intakes[g]
  <2>1. intakes[f].at # "None"
    BY <1>1 DEF Intakes, IntakeSteps
  <2> QED BY <2>1, AtMoves, Ends DEF MovesOn, ListInv
<1>3. CASE Taking!create(f)
  <2>1. ~Asks(f)' /\ \A g \in Forms \ {f} : intakes'[g] = intakes[g]
    BY <1>2, <1>3 DEF Taking!create, IntakeSteps, Asks
  <2> QED BY <1>3, <2>1, ListStays, Same DEF Taking!create
<1>4. CASE Taking!ProjectCreated(f) \/ Taking!SourcesAdded(f) \/ Taking!Told(f)
  <2>1. ~Asks(f)' /\ \A g \in Forms \ {f} : intakes'[g] = intakes[g]
    BY <1>2, <1>4
    DEF Taking!ProjectCreated, Taking!SourcesAdded, Taking!Told, Asks
  <2> QED BY <1>4, <2>1, ListStays, Same
        DEF Taking!ProjectCreated, Taking!SourcesAdded, Taking!Told
<1>5. CASE Taking!CreationFailed(f)
  <2>1. CASE Taking!At(f, "Told") /\ UNCHANGED processListReadGeneration
    <3>1. ~Asks(f)' /\ \A g \in Forms \ {f} : intakes'[g] = intakes[g]
      BY <1>2, <2>1 DEF IntakeSteps, Asks
    <3> QED BY <1>5, <2>1, <3>1, ListStays, Same DEF Taking!CreationFailed
  <2>2. CASE /\ processListReadGeneration' = processListReadGeneration + 1
             /\ intakes' = [intakes EXCEPT ![f].at = "Listing",
                              ![f].list = processListReadGeneration + 1]
    <3>1. /\ intakes'[f].at = "Listing"
          /\ intakes'[f].list = processListReadGeneration + 1
          /\ \A g \in Forms \ {f} : intakes'[g] = intakes[g]
          /\ UNCHANGED <<listed, processFiber, revision>>
          /\ processListReadGeneration \in Nat
      BY <1>1, <1>5, <2>2 DEF ListInv, IntakeTyped, Intakes,
        Taking!CreationFailed
    <3>2. ReadsAreNumbered'
      <4>1. \A g \in Forms : Asks(g) =>
              intakes[g] \in Intakes /\ intakes[g].list \in Nat
        BY DEF ListInv, IntakeTyped, Intakes, Asks, Taking!NoIntake
      <4>2. processFiber # Taking!NoRead => processFiber.list \in Nat
        BY DEF ListInv, IntakeTyped, ListReads
      <4> DEFINE n == processListReadGeneration
      <4>3. \A g \in Forms \ {f} : Asks(g)' =>
              /\ Asks(g) /\ intakes'[g] = intakes[g]
              /\ intakes[g].list \in Nat /\ intakes[g].list <= n
        BY <3>1, <4>1 DEF ListInv, ReadsAreNumbered, Asks
      <4>4. processFiber' # Taking!NoRead =>
              /\ processFiber' = processFiber
              /\ processFiber.list \in Nat /\ processFiber.list <= n
        BY <3>1, <4>2 DEF ListInv, ReadsAreNumbered
      <4>5. \A g \in Forms \ {f} : Asks(g)' =>
              /\ processFiber # Taking!NoRead =>
                   intakes[g].list # processFiber.list
              /\ \A h \in Forms \ {f, g} :
                   Asks(h)' => intakes[g].list # intakes[h].list
        BY <4>3 DEF ListInv, ReadsAreNumbered
      <4>6. ASSUME NEW g \in Forms, Asks(g)'
            PROVE  /\ intakes'[g].list \in Nat /\ intakes'[g].list <= n + 1
                   /\ g # f => intakes'[g].list <= n
        BY <3>1, <4>3, <4>6
      <4>7. ASSUME NEW g \in Forms, Asks(g)', processFiber' # Taking!NoRead
            PROVE  intakes'[g].list # processFiber'.list
        BY <3>1, <4>3, <4>4, <4>5, <4>7
      <4>8. ASSUME NEW g \in Forms, Asks(g)', NEW h \in Forms \ {g}, Asks(h)'
            PROVE  intakes'[g].list # intakes'[h].list
        <5>1. CASE g # f /\ h # f
          BY <4>3, <4>5, <4>8, <5>1
        <5>2. CASE g = f \/ h = f
          BY <3>1, <4>6, <4>8, <5>2
        <5> QED BY <5>1, <5>2
      <4>9. processFiber' # Taking!NoRead => processFiber'.list <= n + 1
        BY <3>1, <4>4
      <4> QED BY <2>2, <4>6, <4>7, <4>8, <4>9 DEF ReadsAreNumbered
    <3>3. ReadsAreFresh'
      <4>1. \A g \in Forms : (intakes[g].at = "Listed")' => Fresh(intakes[g])'
        <5> SUFFICES ASSUME NEW g \in Forms, (intakes[g].at = "Listed")'
                     PROVE  Fresh(intakes[g])'
          OBVIOUS
        <5>1. /\ g # f /\ intakes'[g] = intakes[g] /\ Fresh(intakes[g])
              /\ intakes[g].list <= processListReadGeneration
          BY <3>1 DEF ListInv, ReadsAreFresh, ReadsAreNumbered, Asks
        <5>2. intakes[g].list \in Nat
          BY <3>1, <5>1 DEF ListInv, IntakeTyped, Intakes, Taking!NoIntake
        <5> QED BY <2>2, <3>1, <5>1, <5>2 DEF Fresh
      <4>2. (processFiber.at = "Read")' => Fresh(processFiber)'
        BY <2>2, <3>1 DEF ListInv, ReadsAreFresh, ReadsAreNumbered, Fresh,
          Taking!NoRead
      <4> QED BY <4>1, <4>2 DEF ReadsAreFresh
    <3> QED BY <3>1, <3>2, <3>3, Same DEF ListInv
  <2> QED BY <1>5, <2>1, <2>2 DEF Taking!CreationFailed
<1>6. CASE Taking!ReconcileRead(f)
  <2>1. /\ intakes[f].at = "Listing"
        /\ intakes'[f].at = "Listed" /\ intakes'[f].projects = revision
        /\ intakes'[f].list = intakes[f].list
        /\ \A g \in Forms \ {f} : intakes'[g] = intakes[g]
        /\ UNCHANGED <<listed, processFiber, revision,
                       processListReadGeneration>>
    BY <1>1, <1>6 DEF Taking!ReconcileRead, ListInv, IntakeTyped, Intakes
  <2>2. ReadsAreNumbered'
    BY <2>1 DEF ListInv, ReadsAreNumbered, Asks
  <2>3. Fresh(intakes[f])'
    BY <2>1 DEF ListInv, IntakeTyped, Counts, Fresh
  <2>4. \A g \in Forms \ {f} : (intakes[g].at = "Listed")' =>
          Fresh(intakes[g])'
    BY <2>1 DEF ListInv, ReadsAreFresh, Fresh
  <2>5. (processFiber.at = "Read")' => Fresh(processFiber)'
    BY <2>1 DEF ListInv, ReadsAreFresh, Fresh
  <2> QED BY <2>1, <2>2, <2>3, <2>4, <2>5, Same DEF ListInv, ReadsAreFresh
<1>7. CASE Taking!ListReconciled(f)
  <2>1. /\ Asks(f) \/ intakes[f].at \in {"Listed", "Listing"}
        /\ ~Asks(f)' /\ \A g \in Forms \ {f} : intakes'[g] = intakes[g]
        /\ UNCHANGED <<processFiber, revision, processListReadGeneration>>
    BY <1>2, <1>7 DEF Taking!ListReconciled, IntakeSteps, Asks
  <2>2. CASE intakes[f].at = "Listed" /\ Taking!Listed(intakes[f])
    <3>1. Fresh(intakes[f])
      BY <2>2 DEF ListInv, ReadsAreFresh
    <3> QED BY <1>1, <2>1, <2>2, <3>1, OwnerListed
          DEF Asks, Intakes, Listing
  <2>3. CASE Taking!NotListed(intakes[f])
    <3>1. listed'.projects = listed.projects
      BY <2>3 DEF Taking!NotListed, ListInv, IntakeTyped
    <3> QED BY <2>1, <3>1, ListStays, Same
  <2> QED BY <1>7, <2>2, <2>3 DEF Taking!ListReconciled
<1>8. CASE Taking!change(f)
  <2>1. /\ ~Asks(f)' /\ \A g \in Forms \ {f} : intakes'[g] = intakes[g]
        /\ UNCHANGED <<listed, processFiber, processListReadGeneration>>
    BY <1>2, <1>8 DEF Taking!change, IntakeSteps, Asks
  <2>2. \A p \in Projects : revision'[p] >= revision[p]
    BY <1>8 DEF Taking!change, ListInv, IntakeTyped
  <2> QED BY <2>1, <2>2, RevisionGrows, Same
<1>9. CASE Taking!reconcileProjectPair(f)
  <2>1. ~Asks(f)' /\ \A g \in Forms \ {f} : intakes'[g] = intakes[g]
    BY <1>2, <1>9 DEF Taking!reconcileProjectPair, IntakeSteps, Asks
  <2>2. listed'.projects = listed.projects
    BY <1>9 DEF Taking!reconcileProjectPair, ListInv, IntakeTyped
  <2> QED BY <1>9, <2>1, <2>2, ListStays, Same DEF Taking!reconcileProjectPair
<1> QED BY <1>3, <1>4, <1>5, <1>6, <1>7, <1>8, <1>9 DEF Taking!Answered

LEMMA ListStep ==
  ASSUME ListInv, [Taking!Next]_Taking!vars
  PROVE  ListInv' /\ (~left /\ ~left' => Listing)
<1> USE DEF Taking!service, Taking!generations, Taking!page, Taking!bounds
<1>0. IntakeTyped'
  BY TypesAreKept DEF ListInv
<1>1. ASSUME NEW p \in Projects, Taking!ChangedElsewhere(p)
      PROVE  ListInv' /\ Listing
  <2>1. \A q \in Projects : revision'[q] >= revision[q]
    BY <1>1 DEF Taking!ChangedElsewhere, ListInv, IntakeTyped
  <2> QED BY <1>0, <1>1, <2>1, RevisionGrows, Same DEF Taking!ChangedElsewhere
<1>2. CASE Taking!routeChanged
  <2> DEFINE n == processListReadGeneration
  <2>1. /\ n \in Nat /\ processListReadGeneration' = n + 1
        /\ processFiber'.at = "Reading" /\ processFiber'.list = n + 1
        /\ listed'.projects = listed.projects
        /\ UNCHANGED <<revision, intakes>>
    BY <1>2 DEF Taking!routeChanged, ListInv, IntakeTyped
  <2>2. \A f \in Forms : Asks(f) =>
          intakes[f].list \in Nat /\ intakes[f].list <= n
    BY DEF ListInv, IntakeTyped, Intakes, Asks, ReadsAreNumbered,
      Taking!NoIntake
  <2>3. ReadsAreNumbered'
    BY <2>1, <2>2 DEF ListInv, ReadsAreNumbered, Asks
  <2>4. ASSUME NEW f \in Forms, (intakes[f].at = "Listed")'
        PROVE  Fresh(intakes[f])'
    <3>1. Asks(f) /\ Fresh(intakes[f])
      BY <2>1, <2>4 DEF ListInv, ReadsAreFresh, Asks
    <3> QED BY <2>1, <2>2, <3>1 DEF Fresh
  <2> QED BY <1>0, <2>1, <2>3, <2>4, Same DEF ListInv, ReadsAreFresh
<1>3. CASE Taking!ListRead
  <2>1. /\ processFiber # Taking!NoRead
        /\ processFiber' # Taking!NoRead
        /\ processFiber'.list = processFiber.list
        /\ processFiber'.projects = revision
        /\ UNCHANGED <<revision, intakes, listed, processListReadGeneration>>
    <3>1. processFiber \in ListReads
      BY <1>3 DEF Taking!ListRead, Taking!NoRead, ListInv, IntakeTyped
    <3>2. /\ processFiber'.at = "Read" /\ processFiber.at = "Reading"
          /\ processFiber'.list = processFiber.list
          /\ processFiber'.projects = revision
          /\ UNCHANGED <<revision, intakes, listed,
                         processListReadGeneration>>
      BY <1>3, <3>1 DEF Taking!ListRead, ListReads
    <3>3. Taking!NoRead.at = "None"
      BY DEF Taking!NoRead
    <3> QED BY <3>2, <3>3
  <2>2. ReadsAreNumbered'
    BY <2>1 DEF ListInv, ReadsAreNumbered, Asks
  <2>3. Fresh(processFiber)'
    BY <2>1 DEF ListInv, IntakeTyped, Counts, Fresh
  <2>4. \A f \in Forms : (intakes[f].at = "Listed")' => Fresh(intakes[f])'
    BY <2>1 DEF ListInv, ReadsAreFresh, Fresh
  <2> QED BY <1>0, <2>1, <2>2, <2>3, <2>4, Same DEF ListInv, ReadsAreFresh
<1>4. CASE Taking!loadProcess
  <2>1. /\ processFiber' = Taking!NoRead /\ processFiber # Taking!NoRead
        /\ processFiber \in ListReads
        /\ UNCHANGED <<revision, intakes, processListReadGeneration>>
    BY <1>4 DEF Taking!loadProcess, Taking!NoRead, ListInv, IntakeTyped
  <2>2. CASE processFiber.at = "Read" /\ Taking!Listed(processFiber)
    <3>1. Fresh(processFiber)
      BY <2>2 DEF ListInv, ReadsAreFresh
    <3> QED BY <1>0, <2>1, <2>2, <3>1, OwnerListed DEF ListReads, Listing
  <2>3. CASE Taking!NotListed(processFiber)
    <3>1. listed'.projects = listed.projects
      BY <2>3 DEF Taking!NotListed, ListInv, IntakeTyped
    <3> QED BY <1>0, <2>1, <3>1, ListStays, Same
  <2> QED BY <1>4, <2>2, <2>3 DEF Taking!loadProcess
<1>5. CASE Taking!Loaded
  <2>1. /\ \A f \in Forms : intakes'[f].at = "None"
        /\ processFiber' = Taking!NoRead /\ left
        /\ \A p \in Projects : listed'.projects[p] = -1
        /\ UNCHANGED revision
    BY <1>5 DEF Taking!Loaded, Taking!NoIntake, Taking!Unread
  <2>2. \A p \in Projects : listed'.projects[p] <= revision'[p]
    BY <1>0, <2>1 DEF IntakeTyped
  <2> QED BY <1>0, <2>1, <2>2
        DEF ListInv, ReadsAreNumbered, ReadsAreFresh, Asks, Taking!NoRead
<1>6. ASSUME NEW f \in Forms, Taking!Intake(f) PROVE ListInv' /\ Listing
  <2>1. /\ intakes'[f].at = "Sent"
        /\ \A g \in Forms \ {f} : intakes'[g] = intakes[g]
    BY <1>6 DEF Taking!Intake, Taking!CreateProject, Taking!AddProjectSources,
      Taking!Begin, ListInv, IntakeTyped
  <2>2. UNCHANGED <<revision, listed, processFiber, processListReadGeneration>>
    BY <1>6 DEF Taking!Intake, Taking!CreateProject, Taking!AddProjectSources
  <2> QED BY <1>0, <2>1, <2>2, ListStays, Same DEF Asks
<1>7. ASSUME NEW f \in Forms, Taking!Answered(f) PROVE ListInv' /\ Listing
  BY <1>0, <1>7, AnswerLists
<1>8. CASE UNCHANGED Taking!vars
  BY <1>0, <1>8, ListStays, Same DEF Taking!vars
<1> QED BY <1>1, <1>2, <1>3, <1>4, <1>5, <1>6, <1>7, <1>8 DEF Taking!Next

(* The listed revisions never become older.                                  *)
LEMMA ListKept == Taking!Spec => Taking!ListNeverOlder
<1>1. ListInv /\ [Taking!Next]_Taking!vars =>
        [~left /\ ~left' =>
           \A p \in DOMAIN listed.projects :
             listed'.projects[p] >= listed.projects[p]]_Taking!vars
  BY ListStep DEF ListInv, IntakeTyped, Counts, Listing
<1> QED BY <1>1, ListInit, ListStep, PTL
      DEF Taking!Spec, Taking!ListNeverOlder

-----------------------------------------------------------------------------
(* What a page shows as current is of the route that is open, the detail of  *)
(* an Asset is of the Asset that is open, and a browser that waits for a     *)
(* whole snapshot does not count as current: whatever calls, reads, events   *)
(* and failures overlap (routeChanged, ownsCurrentAssetRoute, receiveEvent). *)
THEOREM PagesStayRouted == BrowserSpec => []PagesAreRouted
<1>1. DeskInv => Desk!RoutedProject
  BY DEF DeskInv
<1>2. ReviewInv => Review!DetailOfRoute
  BY DEF ReviewInv, DetailWasTrue, Review!DetailOfRoute
<1>3. LiveInv => Live!WaitingIsNotCurrent
  BY DEF LiveInv, Waits, WaitsAlone, Live!WaitingIsNotCurrent
<1>4. Desk!Spec => []Desk!RoutedProject
  BY <1>1, DeskInit, DeskStep, PTL DEF Desk!Spec
<1>5. Review!Spec => []Review!DetailOfRoute
  BY <1>2, ReviewInit, ReviewStep, PTL DEF Review!Spec
<1>6. Live!Spec => []Live!WaitingIsNotCurrent
  BY <1>3, LiveInit, LiveStep, PTL DEF Live!Spec
<1> QED BY <1>4, <1>5, <1>6, PTL DEF BrowserSpec, PagesAreRouted

(* No late read, event, answer or failure overtakes a newer one: nothing a   *)
(* page shows becomes older by it, or unavailable while a newer call is      *)
(* under way (ownsResult, receiveDecodedEvent, installSnapshot,              *)
(* ownsCurrentAssetRoute, ownsProcessListRead).                              *)
THEOREM NewerStays == BrowserSpec => NothingOvertakes
<1>1. Desk!Spec => Desk!ShownNeverOlder /\ Desk!NoLateFailure
  <2>1. DeskInv /\ [Desk!Next]_Desk!vars =>
          /\ [process'.projectId = process.projectId
               => /\ process'.project >= process.project
                  /\ process'.evidence >= process.evidence]_Desk!vars
          /\ [(process.state # "unavailable" /\ process'.state = "unavailable")
               => ~\E c \in Desk!Callers :
                     /\ calls'[c] # Desk!NoCall
                     /\ calls'[c].generation = routeGeneration'
                     /\ calls'[c].commitGeneration =
                          processPairCommitGeneration']_Desk!vars
    BY DeskStep DEF NotOlder, NotLate, NoOwner
  <2> QED BY <2>1, DeskInit, DeskStep, PTL
        DEF Desk!Spec, Desk!ShownNeverOlder, Desk!NoLateFailure
<1>2. Review!Spec => Review!ReviewNeverOlder
  <2>1. ReviewInv /\ [Review!Next]_Review!vars =>
          [libraryDetail'.assetId = libraryDetail.assetId
            => libraryDetail'.revision >= libraryDetail.revision]_Review!vars
    BY ReviewStep DEF NewerShown
  <2> QED BY <2>1, ReviewInit, ReviewStep, PTL
        DEF Review!Spec, Review!ReviewNeverOlder
<1>3. Live!Spec =>
        Live!KeepsForward /\ Live!KeepsShown /\ Live!RecoversBySnapshot
  <2>1. LiveInv /\ [Live!Next]_Live!vars =>
          /\ [Live!GoesForward]_Live!vars
          /\ [Live!StaysShown]_Live!vars
          /\ [(client.tag # "Current" /\ client'.tag = "Current") =>
                \E f \in Live!Fibers :
                  fiber[f].at = "Answered"
                    /\ client'.snapshot = fiber[f].snapshot]_Live!vars
    BY LiveStep DEF Moves, ByLoad
  <2> QED BY <2>1, LiveInit, LiveStep, PTL
        DEF Live!Spec, Live!KeepsForward, Live!KeepsShown,
            Live!RecoversBySnapshot
<1> QED BY <1>1, <1>2, <1>3, ListKept, PTL DEF BrowserSpec, NothingOvertakes

-----------------------------------------------------------------------------
(* The Plan page.  Two copies of one revision of the plan have one content,  *)
(* that of the origin's plan if it is its revision, and a request carries    *)
(* the revision and the content that the page showed when it was made.       *)
PlanServers ==
  [revision : Plan!Plans, content : SUBSET Edits,
   accepted : {0} \cup Plan!Plans, definition : SUBSET Edits,
   running : BOOLEAN, made : 0 .. MaxPreviews, closed : 0 .. MaxPreviews,
   applied : 0 .. MaxPreviews, holds : BOOLEAN, lease : 0 .. MaxMoves]

\* A request that has not reached the origin.
ArgFits(q) ==
  /\ q.kind = "save" => q.arg \in SUBSET Edits
  /\ q.kind = "apply" => q.arg \in 0 .. MaxPreviews
PlanRequest(q) ==
  /\ q.at = "sent" /\ q.kind \in Plan!Kinds /\ ArgFits(q)
  /\ q.revision \in Int /\ q.revision <= server.revision
  /\ q.saw # None =>
       /\ q.revision = server.revision => q.saw.content = server.content
       /\ q.kind = "save" => q.saw.content \subseteq q.arg
       /\ q.kind = "apply" => q.saw.preview = q.arg

PlanCopies ==
  /\ \A v \in {snap, shown} :
       /\ v.revision <= server.revision
       /\ v.revision = server.revision => v.content = server.content
  /\ snap.revision = shown.revision => snap.content = shown.content

PlanInv ==
  /\ MaxSaves \in Nat /\ MaxPreviews \in Nat /\ MaxMoves \in Nat
  /\ MaxTurns \in Nat /\ MaxLost \in Nat
  /\ Plan!DraftIsCurrent /\ PlanCopies
  /\ server.accepted <= server.revision
  /\ server.accepted = server.revision =>
       server.definition = server.content
  /\ planPending.at = "sent" => PlanRequest(planPending)
  /\ stray = Plan!Rest \/ PlanRequest(stray)

LEMMA PlanInit == Plan!PlanPageOK /\ Plan!Init => PlanInv
<1> SUFFICES ASSUME Plan!PlanPageOK, Plan!Init PROVE PlanInv
  OBVIOUS
<1>1. /\ MaxSaves \in Nat /\ MaxPreviews \in Nat /\ MaxMoves \in Nat
      /\ MaxTurns \in Nat /\ MaxLost \in Nat
  BY DEF Plan!PlanPageOK
<1>2. /\ server \in PlanServers /\ server.revision = 1 /\ server.accepted = 0
      /\ server.content = {}
  <2>1. 1 \in Plan!Plans /\ 0 \in 0 .. MaxPreviews /\ 0 \in 0 .. MaxMoves
    BY <1>1 DEF Plan!Plans
  <2>2. server \in PlanServers
    BY <2>1 DEF Plan!Init, PlanServers
  <2>3. /\ server.revision = 1 /\ server.accepted = 0 /\ server.content = {}
    BY DEF Plan!Init
  <2> QED BY <2>2, <2>3
<1>3. snap = Plan!View /\ shown = snap /\ Plan!View \in Plan!Views
  BY <1>1, <1>2 DEF Plan!Init, Plan!View, Plan!Views, PlanServers
<1>4. snap.revision = 1 /\ snap.content = {}
  BY <1>2, <1>3 DEF Plan!View
<1>5. Plan!DraftIsCurrent
  <2>1. /\ draft = {} /\ confirm = "none" /\ planPending = Plan!Rest
        /\ phone = FALSE /\ turns = 0 /\ lost = 0
    BY <1>3, <1>4 DEF Plan!Init
  <2>2. 0 \in 0 .. MaxTurns /\ 0 \in 0 .. MaxLost
    BY <1>1
  <2> QED BY <1>2, <1>3, <1>4, <2>1, <2>2
    DEF Plan!DraftIsCurrent, Plan!TypeOK, PlanServers, Plan!Rest
<1> QED BY <1>1, <1>2, <1>3, <1>4, <1>5
  DEF PlanInv, PlanCopies, Plan!Init, Plan!Rest

\* What an accepted request does to the origin.
LEMMA PlanEffect ==
  ASSUME PlanInv, NEW q, q.kind \in Plan!Kinds, ArgFits(q),
         NEW holds \in BOOLEAN, Plan!Allows(q, holds)
  PROVE  LET s == Plan!Effect(q)
         IN /\ s \in PlanServers
            /\ s.revision >= server.revision
            /\ s.revision = server.revision => s.content = server.content
            /\ s.accepted <= s.revision
            /\ s.accepted = s.revision => s.definition = s.content
            /\ q.kind = "save" => s.content = q.arg
            /\ q.kind = "accept" => s.definition = server.content
            /\ q.kind = "apply" => s.applied = q.arg
<1>1. server \in PlanServers
  BY DEF PlanInv, Plan!DraftIsCurrent, Plan!TypeOK, PlanServers
<1>2. /\ server.revision \in 1 .. MaxSaves + 1 /\ server.accepted \in Int
      /\ server.made \in 0 .. MaxPreviews /\ server.closed \in 0 .. MaxPreviews
      /\ MaxSaves \in Nat /\ MaxPreviews \in Nat
  BY <1>1 DEF PlanServers, Plan!Plans, PlanInv
<1>3. /\ server.accepted <= server.revision
      /\ server.accepted = server.revision =>
           server.definition = server.content
  BY DEF PlanInv
<1> DEFINE s == Plan!Effect(q)
<1>4. CASE q.kind = "save"
  <2>1. /\ s = [server EXCEPT !.revision = server.revision + 1,
                              !.content = q.arg]
        /\ server.revision <= MaxSaves /\ q.arg \in SUBSET Edits
    BY <1>4 DEF Plan!Effect, Plan!Allows, ArgFits
  <2>2. server.revision + 1 \in Plan!Plans
    BY <1>2, <2>1 DEF Plan!Plans
  <2> HIDE DEF s
  <2>3. s \in PlanServers
    BY <1>1, <2>1, <2>2 DEF PlanServers
  <2>4. /\ s.revision = server.revision + 1 /\ s.content = q.arg
        /\ s.accepted = server.accepted
    BY <1>1, <2>1 DEF PlanServers
  <2>5. s.revision # server.revision /\ s.revision >= server.revision
        /\ s.accepted # s.revision /\ s.accepted <= s.revision
    BY <1>2, <1>3, <2>4
  <2> QED BY <1>4, <2>3, <2>4, <2>5 DEF s
<1>5. CASE q.kind = "accept"
  <2>1. s = [server EXCEPT !.accepted = server.revision,
                           !.definition = server.content]
    BY <1>5 DEF Plan!Effect
  <2> HIDE DEF s
  <2>2. s \in PlanServers
    BY <1>1, <2>1 DEF PlanServers
  <2>3. /\ s.revision = server.revision /\ s.content = server.content
        /\ s.accepted = server.revision /\ s.definition = server.content
    BY <1>1, <2>1 DEF PlanServers
  <2> QED BY <1>2, <1>5, <2>2, <2>3 DEF s
<1>6. CASE q.kind = "start"
  <2>1. s = [server EXCEPT !.running = TRUE]
    BY <1>6 DEF Plan!Effect
  <2> HIDE DEF s
  <2>2. s \in PlanServers
    BY <1>1, <2>1 DEF PlanServers
  <2>3. /\ s.revision = server.revision /\ s.content = server.content
        /\ s.accepted = server.accepted /\ s.definition = server.definition
    BY <1>1, <2>1 DEF PlanServers
  <2> QED BY <1>2, <1>3, <1>6, <2>2, <2>3 DEF s
<1>7. CASE q.kind = "preview"
  <2>1. /\ s = [server EXCEPT !.made = server.made + 1]
        /\ server.made < MaxPreviews
    BY <1>7 DEF Plan!Effect, Plan!Allows
  <2>2. server.made + 1 \in 0 .. MaxPreviews
    BY <1>2, <2>1
  <2> HIDE DEF s
  <2>3. s \in PlanServers
    BY <1>1, <2>1, <2>2 DEF PlanServers
  <2>4. /\ s.revision = server.revision /\ s.content = server.content
        /\ s.accepted = server.accepted /\ s.definition = server.definition
    BY <1>1, <2>1 DEF PlanServers
  <2> QED BY <1>2, <1>3, <1>7, <2>3, <2>4 DEF s
<1>8. CASE q.kind = "apply"
  <2>1. s = [server EXCEPT !.applied = q.arg, !.closed = server.made]
        /\ q.arg \in 0 .. MaxPreviews
    BY <1>8 DEF Plan!Effect, ArgFits
  <2> HIDE DEF s
  <2>2. s \in PlanServers
    BY <1>1, <1>2, <2>1 DEF PlanServers
  <2>3. /\ s.revision = server.revision /\ s.content = server.content
        /\ s.accepted = server.accepted /\ s.definition = server.definition
        /\ s.applied = q.arg
    BY <1>1, <2>1 DEF PlanServers
  <2> QED BY <1>2, <1>3, <1>8, <2>2, <2>3 DEF s
<1> QED BY <1>4, <1>5, <1>6, <1>7, <1>8 DEF Plan!Kinds

\* The origin goes on.
PlanGrows ==
  /\ server' \in PlanServers
  /\ server'.revision >= server.revision
  /\ server'.revision = server.revision => server'.content = server.content
  /\ server'.accepted <= server'.revision
  /\ server'.accepted = server'.revision =>
       server'.definition = server'.content

LEMMA PlanRests ==
  ASSUME PlanInv, server' = server
  PROVE  PlanGrows
<1>1. server \in PlanServers
  BY DEF PlanInv, Plan!DraftIsCurrent, Plan!TypeOK, PlanServers
<1>2. server.revision \in Int
  BY <1>1 DEF PlanServers, Plan!Plans
<1> QED BY <1>1, <1>2 DEF PlanGrows, PlanInv

LEMMA PlanTyped ==
  ASSUME PlanInv
  PROVE  /\ server \in PlanServers /\ snap \in Plan!Views
         /\ shown \in Plan!Views /\ draft \subseteq Edits
         /\ server.revision \in Int /\ snap.revision \in Int
         /\ shown.revision \in Int
  BY DEF PlanInv, Plan!DraftIsCurrent, Plan!TypeOK, PlanServers, Plan!Views,
    Plan!Plans

\* What is on its way stays right, whatever the origin does.
LEMMA PlanRequests ==
  ASSUME PlanInv, PlanGrows,
         planPending' = planPending \/ planPending'.at # "sent",
         \/ stray' = stray \/ stray' = Plan!Rest
         \/ planPending.at = "sent" /\ stray' = planPending
  PROVE  /\ planPending'.at = "sent" => PlanRequest(planPending)'
         /\ stray' = Plan!Rest \/ PlanRequest(stray)'
<1>1. server.revision \in Int /\ server'.revision \in Int
  BY PlanTyped DEF PlanGrows, PlanServers, Plan!Plans
<1>2. planPending.at = "sent" => PlanRequest(planPending)
  BY DEF PlanInv
<1>3. stray = Plan!Rest \/ PlanRequest(stray)
  BY DEF PlanInv
<1>4. ASSUME planPending.at = "sent", planPending' = planPending
      PROVE  PlanRequest(planPending)'
  <2>1. PlanRequest(planPending)
    BY <1>2, <1>4
  <2>2. /\ planPending.revision <= server'.revision
        /\ planPending.revision = server'.revision =>
             /\ planPending.revision = server.revision
             /\ server'.content = server.content
    BY <1>1, <2>1 DEF PlanGrows, PlanRequest
  <2> QED BY <1>4, <2>1, <2>2 DEF PlanRequest, ArgFits, Plan!Kinds
<1>5. ASSUME PlanRequest(stray), stray' = stray
      PROVE  PlanRequest(stray)'
  <2>1. /\ stray.revision <= server'.revision
        /\ stray.revision = server'.revision =>
             /\ stray.revision = server.revision
             /\ server'.content = server.content
    BY <1>1, <1>5 DEF PlanGrows, PlanRequest
  <2> QED BY <1>5, <2>1 DEF PlanRequest, ArgFits, Plan!Kinds
<1>6. ASSUME planPending.at = "sent", stray' = planPending
      PROVE  PlanRequest(stray)'
  <2>1. PlanRequest(planPending)
    BY <1>2, <1>6
  <2>2. /\ planPending.revision <= server'.revision
        /\ planPending.revision = server'.revision =>
             /\ planPending.revision = server.revision
             /\ server'.content = server.content
    BY <1>1, <2>1 DEF PlanGrows, PlanRequest
  <2> QED BY <1>6, <2>1, <2>2 DEF PlanRequest, ArgFits, Plan!Kinds
<1> QED BY <1>3, <1>4, <1>5, <1>6 DEF Plan!Rest

LEMMA PlanCopied ==
  ASSUME PlanInv, PlanGrows, UNCHANGED <<snap, shown>>
  PROVE  PlanCopies'
<1>1. /\ server.revision \in Int /\ server'.revision \in Int
      /\ snap.revision \in Int /\ shown.revision \in Int
  BY PlanTyped DEF PlanGrows, PlanServers, Plan!Plans
<1> QED BY <1>1 DEF PlanInv, PlanCopies, PlanGrows

LEMMA PlanViewed ==
  ASSUME PlanInv
  PROVE  /\ Plan!View \in Plan!Views
         /\ Plan!View.revision = server.revision
         /\ Plan!View.content = server.content
<1>1. server \in PlanServers /\ MaxPreviews \in Nat
  BY PlanTyped DEF PlanInv
<1> QED BY <1>1 DEF Plan!View, Plan!Views, PlanServers

\* The origin moves, and of the page at most what awaits its answer.
LEMMA PlanMoves ==
  ASSUME PlanInv, PlanGrows, UNCHANGED <<snap, shown, draft, confirm, phone,
                                         turns, lost>>,
         \/ planPending' = planPending
         \/ planPending'.at \in {"accepted", "refused"},
         stray' = stray \/ stray' = Plan!Rest
  PROVE  PlanInv'
<1>1. /\ planPending'.at = "sent" => PlanRequest(planPending)'
      /\ stray' = Plan!Rest \/ PlanRequest(stray)'
  BY PlanRequests
<1>2. PlanCopies'
  BY PlanCopied
<1>3. Plan!DraftIsCurrent'
  BY DEF PlanInv, Plan!DraftIsCurrent, Plan!TypeOK, PlanGrows, PlanServers,
    Plan!Views, Plan!Plans, Plan!Dialogs
<1> QED BY <1>1, <1>2, <1>3 DEF PlanInv, PlanGrows, Plan!Rest

\* The client reads the origin's plan.
LEMMA PlanRead ==
  ASSUME PlanInv, snap' = snap \/ snap' = Plan!View,
         UNCHANGED <<server, shown, draft, phone, turns, lost>>,
         confirm' \in {confirm, "none"},
         planPending' = planPending \/ planPending' = Plan!Rest,
         stray' = stray \/ stray' = Plan!Rest
  PROVE  PlanInv'
<1>1. PlanGrows
  BY PlanRests
<1>2. /\ planPending'.at = "sent" => PlanRequest(planPending)'
      /\ stray' = Plan!Rest \/ PlanRequest(stray)'
  BY <1>1, PlanRequests DEF Plan!Rest
<1>3. PlanCopies'
  BY PlanTyped, PlanViewed DEF PlanInv, PlanCopies
<1>4. snap' \in Plan!Views
  BY PlanTyped, PlanViewed
<1>5. Plan!DraftIsCurrent'
  BY <1>4 DEF PlanInv, Plan!DraftIsCurrent, Plan!TypeOK, Plan!Rest,
    Plan!Views, Plan!Plans, Plan!Dialogs
<1> QED BY <1>2, <1>3, <1>5 DEF PlanInv

\* A person at the page edits, opens a dialog, leaves it or turns to the
\* other page.
LEMMA PlanEdited ==
  ASSUME PlanInv, UNCHANGED <<server, snap, shown>>,
         shown.content \subseteq draft', draft' \subseteq Edits,
         confirm' \in {confirm, "none"} \cup Plan!Dialogs,
         phone' \in BOOLEAN, turns' \in 0 .. MaxTurns, lost' \in 0 .. MaxLost,
         planPending' = planPending \/ planPending' = Plan!Rest,
         \/ stray' = stray \/ stray' = Plan!Rest
         \/ planPending.at = "sent" /\ stray' = planPending
  PROVE  PlanInv'
<1>1. PlanGrows
  BY PlanRests
<1>2. /\ planPending'.at = "sent" => PlanRequest(planPending)'
      /\ stray' = Plan!Rest \/ PlanRequest(stray)'
  BY <1>1, PlanRequests DEF Plan!Rest
<1>3. PlanCopies'
  BY <1>1, PlanCopied
<1>4. Plan!DraftIsCurrent'
  BY DEF PlanInv, Plan!DraftIsCurrent, Plan!TypeOK, Plan!Rest, Plan!Views,
    Plan!Plans, Plan!Dialogs
<1> QED BY <1>2, <1>3, <1>4 DEF PlanInv

LEMMA PlanRendered == PlanInv /\ Plan!Render => PlanInv'
<1> SUFFICES ASSUME PlanInv, Plan!Render PROVE PlanInv'
  OBVIOUS
<1>1. /\ shown' = snap /\ UNCHANGED <<server, snap, confirm, phone, turns,
                                      planPending, stray, lost>>
      /\ \/ draft' = draft /\ shown.revision = snap.revision
         \/ draft' = snap.content
  BY DEF Plan!Render
<1>2. /\ planPending'.at = "sent" => PlanRequest(planPending)'
      /\ stray' = Plan!Rest \/ PlanRequest(stray)'
  BY <1>1, PlanRests, PlanRequests
<1>3. PlanCopies'
  BY <1>1 DEF PlanInv, PlanCopies
<1>4. shown'.content \subseteq draft' /\ draft' \subseteq Edits
  BY <1>1, PlanTyped DEF PlanInv, PlanCopies, Plan!DraftIsCurrent, Plan!Views
<1>5. Plan!DraftIsCurrent'
  BY <1>1, <1>4 DEF PlanInv, Plan!DraftIsCurrent, Plan!TypeOK, Plan!Views,
    Plan!Plans, Plan!Dialogs
<1> QED BY <1>1, <1>2, <1>3, <1>5 DEF PlanInv

LEMMA PlanPressed ==
  ASSUME PlanInv, NEW k \in Plan!Kinds, Plan!Press(k)
  PROVE  PlanInv'
<1>1. /\ planPending' = Plan!Request(k)
      /\ UNCHANGED <<server, snap, shown, draft, confirm, phone, turns, stray,
                     lost>>
  BY DEF Plan!Press, Plan!Submit, Plan!page
<1> DEFINE q == Plan!Request(k)
<1>2. /\ q.at = "sent" /\ q.kind = k /\ q.revision = snap.revision
      /\ k = "save" => q.arg = draft
      /\ k = "apply" => q.arg = snap.preview
      /\ q.saw # None =>
           /\ shown = snap /\ q.saw.content = shown.content
           /\ q.saw.preview = shown.preview
  BY DEF Plan!Request, Plan!Kinds
<1> HIDE DEF q
<1>3. snap.preview \in 0 .. MaxPreviews
  BY PlanTyped DEF Plan!Views
<1>4. PlanRequest(q)
  BY <1>2, <1>3, PlanTyped
    DEF PlanInv, PlanCopies, PlanRequest, ArgFits, Plan!DraftIsCurrent
<1>5. planPending' = q /\ PlanRequest(planPending)'
  BY <1>1, <1>4 DEF q, PlanRequest, ArgFits, Plan!Kinds
<1>6. stray' = Plan!Rest \/ PlanRequest(stray)'
  BY <1>1 DEF PlanInv, PlanRequest, ArgFits, Plan!Kinds
<1>7. PlanCopies'
  BY <1>1 DEF PlanInv, PlanCopies
<1>8. Plan!DraftIsCurrent'
  BY <1>1, <1>2, <1>5 DEF PlanInv, Plan!DraftIsCurrent, Plan!TypeOK, Plan!Views,
    Plan!Plans, Plan!Dialogs
<1> QED BY <1>1, <1>5, <1>6, <1>7, <1>8 DEF PlanInv

\* A request that takes effect does what the page showed.
LEMMA PlanDone ==
  ASSUME PlanInv, NEW q, PlanRequest(q), Plan!Allows(q, server.holds),
         server' = Plan!Effect(q)
  PROVE  PlanGrows /\ (q.saw # None => Plan!DoesAsShown(q))
<1>1. q.kind \in Plan!Kinds /\ ArgFits(q)
  BY DEF PlanRequest
<1>2. server.holds \in BOOLEAN
  BY PlanTyped DEF PlanServers
<1>3. /\ PlanGrows
      /\ q.kind = "save" => server'.content = q.arg
      /\ q.kind = "accept" => server'.definition = server.content
      /\ q.kind = "apply" => server'.applied = q.arg
  BY <1>1, <1>2, PlanEffect DEF PlanGrows
<1>4. CASE q.kind = "save"
  <2>1. q.revision = server.revision
    BY <1>4 DEF Plan!Allows
  <2> QED BY <1>3, <1>4, <2>1 DEF Plan!DoesAsShown, PlanRequest
<1>5. CASE q.kind = "accept"
  <2>1. q.revision = server.revision
    BY <1>5 DEF Plan!Allows
  <2> QED BY <1>3, <1>5, <2>1 DEF Plan!DoesAsShown, PlanRequest
<1>6. CASE q.kind = "start"
  <2>1. q.revision = server.revision /\ server.accepted = server.revision
    BY <1>6 DEF Plan!Allows
  <2> QED BY <1>3, <1>6, <2>1 DEF Plan!DoesAsShown, PlanRequest, PlanInv
<1>7. CASE q.kind = "preview"
  BY <1>3, <1>7 DEF Plan!DoesAsShown
<1>8. CASE q.kind = "apply"
  BY <1>3, <1>8 DEF Plan!DoesAsShown, PlanRequest
<1> QED BY <1>1, <1>4, <1>5, <1>6, <1>7, <1>8 DEF Plan!Kinds

LEMMA PlanReaches ==
  ASSUME PlanInv, Plan!Reaches \/ Plan!StrayReaches
  PROVE  PlanInv' /\ Plan!PlanIsReviewed
<1>1. CASE Plan!Reaches
  <2>1. /\ planPending.at = "sent" /\ PlanRequest(planPending)
        /\ planPending' = [at |-> "accepted", kind |-> planPending.kind]
             \/ planPending' = [at |-> "refused", kind |-> planPending.kind]
        /\ UNCHANGED <<snap, shown, draft, confirm, phone, turns, stray, lost>>
    BY <1>1 DEF Plan!Reaches, Plan!Answered, Plan!page, PlanInv
  <2>2. CASE /\ Plan!Allows(planPending, server.holds)
             /\ server' = Plan!Effect(planPending)
    <3>1. /\ PlanGrows
          /\ planPending.saw # None => Plan!DoesAsShown(planPending)
      BY <2>1, <2>2, PlanDone
    <3>2. PlanInv'
      BY <2>1, <3>1, PlanMoves
    <3> QED BY <2>1, <3>1, <3>2 DEF Plan!PlanIsReviewed
  <2>3. CASE server' = server /\ planPending'.at = "refused"
    <3>1. PlanInv'
      BY <2>1, <2>3, PlanRests, PlanMoves
    <3> QED BY <2>1, <2>3, <3>1 DEF Plan!PlanIsReviewed
  <2> QED BY <1>1, <2>2, <2>3 DEF Plan!Reaches, Plan!Answered
<1>2. CASE Plan!StrayReaches
  <2>1. /\ PlanRequest(stray) /\ stray' = Plan!Rest
        /\ UNCHANGED <<shown, draft, confirm, phone, turns, planPending, lost>>
    BY <1>2 DEF Plan!StrayReaches, Plan!page, PlanInv
  <2>2. CASE /\ Plan!Allows(stray, server.holds) /\ snap' = snap
             /\ server' = Plan!Effect(stray)
    <3>1. PlanGrows /\ (stray.saw # None => Plan!DoesAsShown(stray))
      BY <2>1, <2>2, PlanDone
    <3>2. PlanInv'
      BY <2>1, <2>2, <3>1, PlanMoves
    <3> QED BY <2>1, <3>1, <3>2 DEF Plan!PlanIsReviewed
  <2>3. CASE server' = server /\ snap' = Plan!View
    <3>1. PlanInv'
      BY <2>1, <2>3, PlanRead
    <3> QED BY <2>1, <2>3, <3>1 DEF Plan!PlanIsReviewed
  <2> QED BY <1>2, <2>2, <2>3 DEF Plan!StrayReaches
<1> QED BY <1>1, <1>2

LEMMA PlanBeside ==
  ASSUME PlanInv, Plan!Elsewhere \/ Plan!Moves \/ Plan!Elapses
  PROVE  PlanInv' /\ Plan!PlanIsReviewed
<1>1. UNCHANGED <<snap, shown, draft, confirm, phone, turns, planPending,
                  stray, lost>>
  BY DEF Plan!Elsewhere, Plan!Moves, Plan!Elapses, Plan!page
<1>2. server \in PlanServers
  BY PlanTyped
<1>3. /\ server.revision \in Int /\ server.accepted <= server.revision
      /\ server.accepted = server.revision =>
           server.definition = server.content
  BY PlanTyped DEF PlanInv
<1>4. ASSUME Plan!Elsewhere PROVE PlanGrows
  <2>1. PICK k \in Plan!Kinds : \E arg \in Plan!Args(k) :
          LET q == [kind |-> k, arg |-> arg, revision |-> server.revision,
                    lease |-> server.lease]
          IN Plan!Allows(q, ~server.holds) /\ server' = Plan!Effect(q)
    BY <1>4 DEF Plan!Elsewhere
  <2>2. PICK arg \in Plan!Args(k) :
          LET q == [kind |-> k, arg |-> arg, revision |-> server.revision,
                    lease |-> server.lease]
          IN Plan!Allows(q, ~server.holds) /\ server' = Plan!Effect(q)
    BY <2>1
  <2> DEFINE q == [kind |-> k, arg |-> arg, revision |-> server.revision,
                   lease |-> server.lease]
  <2>3. /\ Plan!Allows(q, ~server.holds) /\ server' = Plan!Effect(q)
        /\ q.kind \in Plan!Kinds
    BY <2>2
  <2>4. ArgFits(q)
    BY <2>2 DEF ArgFits, Plan!Args, PlanInv
  <2>5. (~server.holds) \in BOOLEAN
    BY <1>2 DEF PlanServers
  <2> HIDE DEF q
  <2> QED BY <2>3, <2>4, <2>5, PlanEffect DEF PlanGrows
<1>5. ASSUME Plan!Moves PROVE PlanGrows
  <2>1. /\ server' = [server EXCEPT !.holds = ~server.holds,
                                    !.lease = server.lease + 1]
        /\ server.lease < MaxMoves
    BY <1>5 DEF Plan!Moves
  <2>2. server.lease + 1 \in 0 .. MaxMoves
    BY <1>2, <2>1 DEF PlanServers, PlanInv
  <2>3. server' \in PlanServers
    BY <1>2, <2>1, <2>2 DEF PlanServers
  <2>4. /\ server'.revision = server.revision
        /\ server'.content = server.content
        /\ server'.accepted = server.accepted
        /\ server'.definition = server.definition
    BY <1>2, <2>1 DEF PlanServers
  <2> QED BY <1>3, <2>3, <2>4 DEF PlanGrows
<1>6. ASSUME Plan!Elapses PROVE PlanGrows
  <2>1. /\ server' = [server EXCEPT !.closed = server.closed + 1]
        /\ server.closed < server.made
    BY <1>6 DEF Plan!Elapses
  <2>2. server.closed + 1 \in 0 .. MaxPreviews
    BY <1>2, <2>1 DEF PlanServers, PlanInv
  <2>3. server' \in PlanServers
    BY <1>2, <2>1, <2>2 DEF PlanServers
  <2>4. /\ server'.revision = server.revision
        /\ server'.content = server.content
        /\ server'.accepted = server.accepted
        /\ server'.definition = server.definition
    BY <1>2, <2>1 DEF PlanServers
  <2> QED BY <1>3, <2>3, <2>4 DEF PlanGrows
<1>7. PlanGrows
  BY <1>4, <1>5, <1>6
<1>8. PlanInv'
  BY <1>1, <1>7, PlanMoves
<1> QED BY <1>1, <1>8 DEF Plan!PlanIsReviewed

LEMMA PlanStep ==
  ASSUME PlanInv, [Plan!Next]_Plan!vars
  PROVE  PlanInv' /\ Plan!PlanIsReviewed
<1>1. CASE Plan!Deliver \/ Plan!Returns
  <2>1. PlanInv'
    BY <1>1, PlanRead DEF Plan!Deliver, Plan!Returns, Plan!page, Plan!Rest
  <2> QED BY <1>1, <2>1 DEF Plan!Deliver, Plan!Returns, Plan!page, Plan!Rest,
    Plan!PlanIsReviewed
<1>2. CASE Plan!Render
  BY <1>2, PlanRendered DEF Plan!Render, Plan!PlanIsReviewed
<1>3. CASE Plan!Reaches \/ Plan!StrayReaches
  BY <1>3, PlanReaches
<1>4. CASE Plan!Elsewhere \/ Plan!Moves \/ Plan!Elapses
  BY <1>4, PlanBeside
<1>5. ASSUME NEW k \in Plan!Kinds, Plan!Press(k)
      PROVE  PlanInv' /\ Plan!PlanIsReviewed
  <2>1. PlanInv'
    BY <1>5, PlanPressed
  <2> QED BY <1>5, <2>1 DEF Plan!Press, Plan!Submit, Plan!Request,
    Plan!PlanIsReviewed
<1>6. CASE \/ Plan!Cancel \/ Plan!Loses \/ Plan!Turn \/ UNCHANGED Plan!vars
           \/ \E e \in Edits : Plan!Edit(e)
           \/ \E k \in Plan!Kinds : Plan!Open(k)
  <2>1. /\ phone \in BOOLEAN /\ turns \in 0 .. MaxTurns
        /\ lost \in 0 .. MaxLost /\ MaxTurns \in Nat /\ MaxLost \in Nat
        /\ shown.content \subseteq draft /\ shown.content \subseteq Edits
    BY PlanTyped DEF PlanInv, Plan!DraftIsCurrent, Plan!TypeOK, Plan!Views
  <2>2. UNCHANGED <<server, snap, shown>>
    BY <1>6 DEF Plan!Cancel, Plan!Loses, Plan!Turn, Plan!Edit, Plan!Open,
      Plan!vars
  <2>3. /\ \/ planPending' = planPending \/ planPending' = Plan!Rest
        /\ \/ stray' = stray \/ stray' = Plan!Rest
           \/ planPending.at = "sent" /\ stray' = planPending
    BY <1>6 DEF Plan!Cancel, Plan!Loses, Plan!Turn, Plan!Edit, Plan!Open,
      Plan!vars
  <2>4. /\ turns' = turns \/ (turns < MaxTurns /\ turns' = turns + 1)
        /\ lost' = lost \/ (lost < MaxLost /\ lost' = lost + 1)
    BY <1>6 DEF Plan!Cancel, Plan!Loses, Plan!Turn, Plan!Edit, Plan!Open,
      Plan!vars, Plan!page
  <2>5. turns' \in 0 .. MaxTurns /\ lost' \in 0 .. MaxLost
    BY <2>1, <2>4
  <2>6. phone' \in BOOLEAN /\ confirm' \in {confirm, "none"} \cup Plan!Dialogs
    BY <1>6, <2>1 DEF Plan!Cancel, Plan!Loses, Plan!Turn, Plan!Edit, Plan!Open,
      Plan!vars, Plan!page
  <2>7. shown.content \subseteq draft' /\ draft' \subseteq Edits
    BY <1>6, <2>1, PlanTyped DEF Plan!Cancel, Plan!Loses, Plan!Turn, Plan!Edit,
      Plan!Open, Plan!vars, Plan!page
  <2>8. PlanInv'
    BY <2>2, <2>3, <2>5, <2>6, <2>7, PlanEdited
  <2> QED BY <2>2, <2>3, <2>8 DEF Plan!PlanIsReviewed, Plan!Rest
<1> QED BY <1>1, <1>2, <1>3, <1>4, <1>5, <1>6 DEF Plan!Next

(* Whatever a person makes of a draft, a dialog or a preview is what the     *)
(* page showed, however snapshots, answers, other pages, lost requests and   *)
(* turns of the page fall in between (submit, prepareAction).                *)
THEOREM PagesDoAsShown == Plan!Spec => PlanIsAsShown
<1>1. Plan!Init => PlanInv
  BY PlanAssumption, PlanInit
<1>2. PlanInv => Plan!DraftIsCurrent
  BY DEF PlanInv
<1>3. PlanInv /\ [Plan!Next]_Plan!vars => [Plan!PlanIsReviewed]_Plan!vars
  BY PlanStep
<1> QED BY <1>1, <1>2, <1>3, PlanStep, PTL
      DEF Plan!Spec, Plan!PlanIsAsShown, PlanIsAsShown
=============================================================================
