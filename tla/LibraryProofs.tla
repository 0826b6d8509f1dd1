---------------------------- MODULE LibraryProofs ----------------------------
(***************************************************************************)
(* Theorems of Publisher for any works, files, number of publishers, stops *)
(* and provider failures, and of FrameIntake for any images, facts, stops  *)
(* and refusals.  The inductive invariants say what a worker, or an        *)
(* intake, has established at each point of its pass; the one of the       *)
(* publisher holds whoever else works on the same asset, and whether or    *)
(* not the worker still has its claim.                                     *)
(***************************************************************************)
EXTENDS Publisher, FrameIntake, SequenceTheorems, TLAPS

Points == {"free", "read", "record", "put", "verify", "settle"}

(* A worker past the file has checked it, past the record has recorded it,   *)
(* and past the upload has put the object in the store.                      *)
PassesAreChecked ==
  \A k \in Workers :
    /\ workers[k].pc \in Points
    /\ ~At(k, "free") => Work(k) \in Ids
    /\ workers[k].pc \in {"record", "put", "verify", "settle"} =>
         FileSum[Asset(k)] = Sum(Work(k))
    /\ workers[k].pc \in {"put", "verify", "settle"} =>
         publications[Asset(k)].sum = Sum(Work(k))
    /\ workers[k].pc \in {"verify", "settle"} =>
         <<Asset(k), Sum(Work(k))>> \in store

(* A publication is of the bytes of the local file, and a published one has  *)
(* its object.                                                               *)
PublicationsAreOfFiles ==
  \A a \in Assets :
    /\ publications[a].state = "none" <=> publications[a].sum = "none"
    /\ publications[a].sum # "none" => publications[a].sum = FileSum[a]
    /\ publications[a].state = "published" =>
         <<a, publications[a].sum>> \in store

(* The rows have their shapes, and a review that was read is of an asset     *)
(* whose review can still grow.                                              *)
Claims == [state : {"pending", "claimed", "failed", "dispatched"},
           by : Workers \cup {"none"}, lapsed : BOOLEAN]
Sums == {Sum(i) : i \in Ids} \cup {"none"}
Publications == [sum : Sums, state : {"none"} \cup Availabilities]
Rows == [availability : Availabilities, shown : Availabilities, review : Nat]
Passes == [work : Nat, pc : Points]
Reviewing == [asset : Assets, expected : 0 .. MaxReviews - 1,
              availability : Availabilities]

Shapes ==
  /\ outbox \in [Ids -> Claims]
  /\ publications \in [Assets -> Publications]
  /\ rows \in [Assets -> Rows]
  /\ reviews \in [Assets -> 0 .. MaxReviews]
  /\ reviewing \in Reviewing \cup {Unread}
  /\ workers \in [Workers -> Passes]

Inv ==
  /\ Shapes /\ PassesAreChecked /\ PublicationsAreOfFiles
  /\ DispatchedIsPublished

LEMMA WorkFacts ==
  ASSUME NEW i \in Ids
  PROVE  /\ Works[i].asset \in Assets /\ Sum(i) # "none"
         /\ i \in Nat
<1> DEFINE T == [asset : Assets, sum : STRING \ {"none"}]
<1>1. Works \in Seq(T)
  BY PublisherAssumption
<1>2. Works[i] \in T
  <2> HIDE DEF T
  <2>1. i \in 1..Len(Works) /\ i \in Nat
    BY <1>1, LenProperties DEF Ids
  <2> QED BY <1>1, <2>1, ElementOfSeq
<1>3. i \in Nat
  <2> HIDE DEF T
  <2> QED BY <1>1, LenProperties DEF Ids
<1> QED BY <1>2, <1>3 DEF Sum

LEMMA InvInit == Init => Inv
<1> SUFFICES ASSUME Init PROVE Inv
  OBVIOUS
<1>1. Shapes
  <2>1. MaxReviews \in Nat
    BY PublisherAssumption
  <2>2. reviews \in [Assets -> 0 .. MaxReviews]
    BY <2>1 DEF Init
  <2>3. outbox \in [Ids -> Claims]
    BY DEF Init, Claims, Open
  <2>6. workers \in [Workers -> Passes]
    BY DEF Init, Passes, Free, Points
  <2>5. publications \in [Assets -> Publications]
    <3>1. /\ Nothing = [sum |-> "none", state |-> "none"]
          /\ "none" \in Sums
          /\ "none" \in {"none"} \cup Availabilities
      BY DEF Nothing, Sums
    <3>2. Nothing \in Publications
      BY <3>1 DEF Publications
    <3> QED BY <3>2 DEF Init
  <2>4. rows \in [Assets -> Rows]
    BY DEF Init, Rows, Availabilities
  <2> QED BY <2>2, <2>3, <2>4, <2>5, <2>6 DEF Init, Shapes
<1>2. PassesAreChecked
  BY DEF Init, PassesAreChecked, Free, Points, At
<1>3. PublicationsAreOfFiles
  BY DEF Init, PublicationsAreOfFiles, Nothing
<1>4. DispatchedIsPublished
  BY DEF Init, DispatchedIsPublished, Open
<1> QED BY <1>1, <1>2, <1>3, <1>4 DEF Inv

-----------------------------------------------------------------------------
(* The steps of a worker.                                                    *)

LEMMA PassStep ==
  ASSUME Inv, NEW k \in Workers, Pass(k) PROVE Inv'
<1>1. PICK i \in Oldest(Fresh(outbox)) :
        /\ outbox' = [Fresh(outbox) EXCEPT ![i] =
                        [state |-> "claimed", by |-> k, lapsed |-> FALSE]]
        /\ workers' = [workers EXCEPT ![k] = [work |-> i, pc |-> "read"]]
  BY DEF Pass
<1>2. /\ i \in Ids /\ i \in Nat
      /\ UNCHANGED <<publications, rows, reviews, reviewing, store>>
  BY <1>1, WorkFacts DEF Oldest, Waiting, Pass, library
<1>3. Fresh(outbox) \in [Ids -> Claims]
  BY DEF Inv, Shapes, Fresh, Open, Claims
<1>4. outbox' \in [Ids -> Claims]
  BY <1>1, <1>3 DEF Claims
<1>5. /\ workers' \in [Workers -> Passes]
      /\ \A m \in Workers : m # k => workers'[m] = workers[m]
      /\ workers'[k] = [work |-> i, pc |-> "read"]
  BY <1>1, <1>2 DEF Inv, Shapes, Passes, Points
<1>6. PassesAreChecked'
  BY <1>2, <1>5
  DEF Inv, PassesAreChecked, Points, At, Work, Asset, Sum
<1>7. DispatchedIsPublished'
  <2>1. \A j \in Ids : outbox'[j].state = "dispatched" =>
          outbox[j].state = "dispatched"
    BY <1>1, <1>3 DEF Fresh, Open
  <2> QED BY <1>2, <2>1 DEF Inv, DispatchedIsPublished
<1> QED BY <1>2, <1>4, <1>5, <1>6, <1>7
        DEF Inv, Shapes, PublicationsAreOfFiles

(* A worker that leaves keeps what the others have established.              *)
LEMMA Released ==
  ASSUME Inv, NEW k \in Workers, Release(k), UNCHANGED store,
         \A a \in Assets : publications'[a].sum = publications[a].sum
  PROVE  workers' \in [Workers -> Passes] /\ PassesAreChecked'
<1>1. /\ workers' \in [Workers -> Passes]
      /\ workers'[k] = [work |-> 0, pc |-> "free"]
      /\ \A m \in Workers : m # k => workers'[m] = workers[m]
  BY DEF Inv, Shapes, Release, Free, Passes, Points
<1>2. ASSUME NEW m \in Workers, m # k, workers[m].pc # "free"
      PROVE  Asset(m) \in Assets
  BY <1>2, WorkFacts DEF Inv, PassesAreChecked, At, Work, Asset
<1> QED BY <1>1, <1>2
        DEF Inv, PassesAreChecked, Points, At, Work, Asset

LEMMA SettleStep ==
  ASSUME Inv, NEW k \in Workers, Work(k) \in Ids, Release(k), UNCHANGED store,
         NEW state \in {"failed", "dispatched"}, NEW v \in Availabilities,
         Settle(k, state, v),
         state = "dispatched" => <<Asset(k), Sum(Work(k))>> \in store,
         v = "published" => /\ publications[Asset(k)].sum = Sum(Work(k))
                            /\ <<Asset(k), Sum(Work(k))>> \in store
  PROVE  Inv'
<1>1. Asset(k) \in Assets
  BY WorkFacts DEF Asset
<1>2. /\ outbox' = [outbox EXCEPT ![Work(k)] = Open(state)]
      /\ publications' = [publications EXCEPT ![Asset(k)].state =
                             IF @ = "none" THEN @ ELSE v]
      /\ rows' = [rows EXCEPT ![Asset(k)] =
                    [availability |-> v, shown |-> v, review |-> 0]]
      /\ UNCHANGED <<reviews, reviewing>>
  BY DEF Settle, Project
<1>3. outbox' \in [Ids -> Claims] /\ rows' \in [Assets -> Rows]
  BY <1>2 DEF Inv, Shapes, Claims, Open, Rows
<1>4. /\ publications' \in [Assets -> Publications]
      /\ \A a \in Assets :
           /\ publications'[a].sum = publications[a].sum
           /\ publications'[a].state = "none" <=> publications[a].state = "none"
           /\ a # Asset(k) => publications'[a] = publications[a]
      /\ publications'[Asset(k)].state \in {"none", v}
  <2> DEFINE p == publications[Asset(k)]
             w == IF p.state = "none" THEN "none" ELSE v
  <2>1. /\ p \in Publications /\ v # "none"
        /\ w \in {"none", v} /\ w \in {"none"} \cup Availabilities
        /\ w = "none" <=> p.state = "none"
    BY <1>1 DEF Inv, Shapes, Availabilities
  <2>2. publications' =
          [publications EXCEPT ![Asset(k)] = [p EXCEPT !.state = w]]
    BY <1>2
  <2>3. /\ [p EXCEPT !.state = w] \in Publications
        /\ [p EXCEPT !.state = w].sum = p.sum
        /\ [p EXCEPT !.state = w].state = w
    BY <2>1 DEF Publications
  <2>4. publications \in [Assets -> Publications]
    BY DEF Inv, Shapes
  <2> HIDE DEF w
  <2> QED BY <1>1, <2>1, <2>2, <2>3, <2>4
<1>5. PublicationsAreOfFiles'
  BY <1>1, <1>4 DEF Inv, PublicationsAreOfFiles
<1>6. DispatchedIsPublished'
  BY <1>2 DEF Inv, Shapes, DispatchedIsPublished, Open, Asset, Sum
<1>7. workers' \in [Workers -> Passes] /\ PassesAreChecked'
  BY <1>4, Released
<1>8. Shapes'
  BY <1>2, <1>3, <1>4, <1>7 DEF Inv, Shapes
<1> QED BY <1>5, <1>6, <1>7, <1>8 DEF Inv

LEMMA FailureStep ==
  ASSUME Inv, NEW k \in Workers, ~At(k, "free"), UNCHANGED store,
         NEW v \in Availabilities \ {"published"}, SettleFailure(k, v)
  PROVE  Inv'
<1>1. Work(k) \in Ids /\ Release(k)
  BY DEF Inv, PassesAreChecked, SettleFailure
<1>2. CASE Holds(k) /\ Asset(k) \notin Unknown
  BY <1>1, <1>2, SettleStep DEF SettleFailure
<1>3. CASE ~(Holds(k) /\ Asset(k) \notin Unknown)
  <2>1. UNCHANGED <<outbox, publications, rows, reviews, reviewing>>
    BY <1>3 DEF SettleFailure, library
  <2> QED BY <1>1, <2>1, Released
          DEF Inv, Shapes, PublicationsAreOfFiles, DispatchedIsPublished
<1> QED BY <1>2, <1>3

LEMMA ReadFileStep ==
  ASSUME Inv, NEW k \in Workers, ReadFile(k) PROVE Inv'
<1>1. workers[k].pc = "read" /\ UNCHANGED store /\ Work(k) \in Ids
  BY DEF ReadFile, At, Inv, PassesAreChecked
<1>2. CASE \/ SettleFailure(k, "temporarilyUnavailable")
           \/ SettleFailure(k, "failedPublication")
  BY <1>1, <1>2, FailureStep DEF At, Availabilities
<1>3. CASE /\ Readable(k) /\ FileSum[Asset(k)] = Sum(Work(k))
           /\ Goto(k, "record")
           /\ UNCHANGED <<outbox, publications, library>>
  <2>1. /\ workers' \in [Workers -> Passes]
        /\ workers'[k].pc = "record" /\ workers'[k].work = Work(k)
        /\ \A m \in Workers : m # k => workers'[m] = workers[m]
    BY <1>3 DEF Goto, Inv, Shapes, Passes, Points, Work
  <2>2. PassesAreChecked'
    BY <1>1, <1>3, <2>1
    DEF Inv, PassesAreChecked, Points, At, Work, Asset, Sum
  <2> QED BY <1>1, <1>3, <2>1, <2>2
          DEF Inv, Shapes, PublicationsAreOfFiles, DispatchedIsPublished, Sum,
              library
<1> QED BY <1>2, <1>3 DEF ReadFile

LEMMA RecordStep ==
  ASSUME Inv, NEW k \in Workers, Record(k) PROVE Inv'
<1>1. /\ workers[k].pc = "record" /\ UNCHANGED store /\ Work(k) \in Ids
      /\ FileSum[Asset(k)] = Sum(Work(k))
  BY DEF Record, At, Inv, PassesAreChecked
<1>2. CASE SettleFailure(k, "failedPublication")
  BY <1>1, <1>2, FailureStep DEF At, Availabilities
<1>3. CASE ~Conflicts(k)
  <2>1. /\ publications' = [publications EXCEPT ![Asset(k)] =
              [sum |-> Sum(Work(k)), state |-> "temporarilyUnavailable"]]
        /\ Goto(k, "put")
        /\ UNCHANGED <<outbox, rows, reviews, reviewing>>
    BY <1>3 DEF Record, library
  <2>2. /\ Asset(k) \in Assets
        /\ Sum(Work(k)) \in Sums /\ Sum(Work(k)) # "none"
    BY <1>1, WorkFacts DEF Asset, Sums
  <2>3. /\ workers' \in [Workers -> Passes]
        /\ workers'[k].pc = "put" /\ workers'[k].work = Work(k)
        /\ \A m \in Workers : m # k => workers'[m] = workers[m]
    BY <2>1 DEF Goto, Inv, Shapes, Passes, Points, Work
  <2>4. /\ publications' \in [Assets -> Publications]
        /\ publications'[Asset(k)] =
              [sum |-> Sum(Work(k)), state |-> "temporarilyUnavailable"]
        /\ \A a \in Assets : a # Asset(k) => publications'[a] = publications[a]
    BY <2>1, <2>2 DEF Inv, Shapes, Publications, Availabilities
  <2>5. PassesAreChecked'
    <3>1. ASSUME NEW m \in Workers, m # k
          PROVE  /\ workers'[m].pc \in Points
                 /\ ~At(m, "free")' => Work(m)' \in Ids
                 /\ workers'[m].pc \in {"record", "put", "verify", "settle"} =>
                      FileSum[Asset(m)'] = Sum(Work(m)')
                 /\ workers'[m].pc \in {"put", "verify", "settle"} =>
                      publications'[Asset(m)'].sum = Sum(Work(m)')
                 /\ workers'[m].pc \in {"verify", "settle"} =>
                      <<Asset(m)', Sum(Work(m)')>> \in store'
      <4>1. /\ workers'[m] = workers[m] /\ Work(m)' = Work(m)
            /\ Asset(m)' = Asset(m)
        BY <2>3, <3>1 DEF Work, Asset
      <4>2. workers[m].pc # "free" => Asset(m) \in Assets
        BY WorkFacts DEF Inv, PassesAreChecked, At, Work, Asset
      <4> QED BY <1>1, <2>2, <2>4, <4>1, <4>2
              DEF Inv, PassesAreChecked, Points, At
    <3>2. /\ workers'[k].pc = "put" /\ Work(k)' = Work(k)
          /\ Asset(k)' = Asset(k)
      BY <2>3 DEF Work, Asset
    <3>3. /\ workers'[k].pc \in Points
          /\ Work(k)' \in Ids
          /\ FileSum[Asset(k)'] = Sum(Work(k)')
          /\ publications'[Asset(k)'].sum = Sum(Work(k)')
      BY <1>1, <2>4, <3>2 DEF Points
    <3> QED BY <3>1, <3>2, <3>3 DEF PassesAreChecked, Sum
  <2>6. PublicationsAreOfFiles'
    BY <1>1, <2>2, <2>4 DEF Inv, PublicationsAreOfFiles
  <2> QED BY <1>1, <2>1, <2>3, <2>4, <2>5, <2>6
          DEF Inv, Shapes, DispatchedIsPublished, Sum
<1> QED BY <1>2, <1>3 DEF Record

LEMMA PutStep ==
  ASSUME Inv, NEW k \in Workers, Put(k) PROVE Inv'
<1>1. /\ workers[k].pc = "put" /\ Work(k) \in Ids
      /\ store' = store \cup {<<Asset(k), Sum(Work(k))>>}
      /\ UNCHANGED <<outbox, publications, rows, reviews, reviewing>>
  BY DEF Put, At, Inv, PassesAreChecked, library
<1>2. /\ workers' \in [Workers -> Passes]
      /\ workers'[k].pc = "verify" /\ workers'[k].work = Work(k)
      /\ \A m \in Workers : m # k => workers'[m] = workers[m]
  BY DEF Put, Goto, Inv, Shapes, Passes, Points, Work
<1>3. PassesAreChecked'
  BY <1>1, <1>2 DEF Inv, PassesAreChecked, Points, At, Work, Asset, Sum
<1> QED BY <1>1, <1>2, <1>3
        DEF Inv, Shapes, PublicationsAreOfFiles, DispatchedIsPublished, Sum

LEMMA VerifyStep ==
  ASSUME Inv, NEW k \in Workers, Verify(k) PROVE Inv'
<1>1. workers[k].pc = "verify" /\ UNCHANGED store /\ Work(k) \in Ids
  BY DEF Verify, At, Inv, PassesAreChecked
<1>2. CASE SettleFailure(k, "failedPublication")
  BY <1>1, <1>2, FailureStep DEF At, Availabilities
<1>3. CASE /\ Goto(k, "settle")
           /\ UNCHANGED <<outbox, publications, library>>
  <2>1. /\ workers' \in [Workers -> Passes]
        /\ workers'[k].pc = "settle" /\ workers'[k].work = Work(k)
        /\ \A m \in Workers : m # k => workers'[m] = workers[m]
    BY <1>3 DEF Goto, Inv, Shapes, Passes, Points, Work
  <2>2. PassesAreChecked'
    BY <1>1, <1>3, <2>1
    DEF Inv, PassesAreChecked, Points, At, Work, Asset, Sum
  <2> QED BY <1>1, <1>3, <2>1, <2>2
          DEF Inv, Shapes, PublicationsAreOfFiles, DispatchedIsPublished, Sum,
              library
<1> QED BY <1>2, <1>3 DEF Verify

LEMMA SettlePublishedStep ==
  ASSUME Inv, NEW k \in Workers, SettlePublished(k) PROVE Inv'
<1>1. /\ workers[k].pc = "settle" /\ UNCHANGED store /\ Work(k) \in Ids
      /\ Release(k)
      /\ publications[Asset(k)].sum = Sum(Work(k))
      /\ <<Asset(k), Sum(Work(k))>> \in store
  BY DEF SettlePublished, At, Inv, PassesAreChecked
<1>2. CASE Settle(k, "dispatched", "published")
  BY <1>1, <1>2, SettleStep DEF Availabilities
<1>3. CASE UNCHANGED <<outbox, publications, library>>
  BY <1>1, <1>3, Released
  DEF Inv, Shapes, PublicationsAreOfFiles, DispatchedIsPublished, Sum, library
<1> QED BY <1>2, <1>3 DEF SettlePublished

-----------------------------------------------------------------------------
(* The origin, the leases and the whole.                                     *)

LEMMA StopStep ==
  ASSUME Inv, NEW k \in Workers, Stop(k) PROVE Inv'
<1>1. /\ Release(k)
      /\ UNCHANGED <<outbox, publications, rows, reviews, reviewing, store>>
  BY DEF Stop, library
<1> QED BY <1>1, Released
        DEF Inv, Shapes, PublicationsAreOfFiles, DispatchedIsPublished, Sum

(* What the origin does with a review leaves the publisher's rows alone.     *)
LEMMA ReviewStep ==
  ASSUME Inv, StoreReview \/ \E a \in Assets : ReadReview(a) PROVE Inv'
<1> USE PublisherAssumption
<1>1. UNCHANGED <<outbox, publications, store, workers>>
  BY DEF StoreReview, ReadReview
<1>2. CASE StoreReview
  <2>1. reviewing \in Reviewing
    BY <1>2 DEF StoreReview, Inv, Shapes
  <2>2. /\ reviewing.asset \in Assets
        /\ reviewing.expected + 1 \in 0 .. MaxReviews
        /\ reviewing.availability \in Availabilities
    BY <2>1 DEF Reviewing
  <2>3. reviews' \in [Assets -> 0 .. MaxReviews] /\ reviewing' = Unread
    BY <1>2, <2>2 DEF StoreReview, Inv, Shapes
  <2>4. rows' \in [Assets -> Rows]
    <3> DEFINE a == reviewing.asset
               r == [availability |-> rows[a].availability,
                     shown |-> reviewing.availability,
                     review |-> reviewing.expected + 1]
    <3>1. rows \in [Assets -> Rows] /\ rows[a] \in Rows
      BY <2>2 DEF Inv, Shapes
    <3>2. r \in Rows
      BY <2>2, <3>1 DEF Rows
    <3>3. rows' = [rows EXCEPT ![a] = r]
      <4> DEFINE reviewed == [rows EXCEPT ![a].review = reviewing.expected + 1]
      <4>1. rows' = [reviewed EXCEPT ![a].shown = reviewing.availability]
        BY <1>2 DEF StoreReview
      <4>2. /\ reviewed[a] = [rows[a] EXCEPT !.review = reviewing.expected + 1]
            /\ \A b \in Assets : b # a => reviewed[b] = rows[b]
            /\ DOMAIN reviewed = Assets
        BY <2>2, <3>1
      <4>3. [reviewed[a] EXCEPT !.shown = reviewing.availability] = r
        BY <3>1, <4>2 DEF Rows
      <4> HIDE DEF reviewed, r
      <4>4. rows' = [b \in Assets |-> IF b = a THEN r ELSE rows[b]]
        BY <2>2, <4>1, <4>2, <4>3
      <4> QED BY <2>2, <3>1, <4>4
    <3> HIDE DEF r
    <3> QED BY <3>1, <3>2, <3>3
  <2> QED BY <1>1, <2>3, <2>4
          DEF Inv, Shapes, PassesAreChecked, PublicationsAreOfFiles,
              DispatchedIsPublished, At, Work, Asset, Sum
<1>3. CASE \E a \in Assets : ReadReview(a)
  <2>1. UNCHANGED <<rows, reviews>> /\ reviewing' \in Reviewing
    BY <1>3 DEF ReadReview, Inv, Shapes, Reviewing, Rows
  <2> QED BY <1>1, <2>1
          DEF Inv, Shapes, PassesAreChecked, PublicationsAreOfFiles,
              DispatchedIsPublished, At, Work, Asset, Sum
<1> QED BY <1>2, <1>3

LEMMA LeaseLapsesStep ==
  ASSUME Inv, NEW i \in Ids, LeaseLapses(i) PROVE Inv'
<1>1. /\ outbox' = [outbox EXCEPT ![i].lapsed = TRUE]
      /\ UNCHANGED <<publications, rows, reviews, reviewing, store, workers>>
  BY DEF LeaseLapses, library
<1>2. /\ outbox' \in [Ids -> Claims]
      /\ \A j \in Ids : outbox'[j].state = outbox[j].state
  BY <1>1 DEF Inv, Shapes, Claims
<1> QED BY <1>1, <1>2
        DEF Inv, Shapes, PassesAreChecked, PublicationsAreOfFiles,
            DispatchedIsPublished, At, Work, Asset, Sum

LEMMA InvNext == Inv /\ [Next]_vars => Inv'
<1> SUFFICES ASSUME Inv, [Next]_vars PROVE Inv'
  OBVIOUS
<1>1. ASSUME NEW k \in Workers, Step(k) PROVE Inv'
  BY <1>1, PassStep, ReadFileStep, RecordStep, PutStep, VerifyStep,
     SettlePublishedStep DEF Step
<1>2. ASSUME NEW k \in Workers, ProviderFails(k) PROVE Inv'
  <2>1. /\ ~At(k, "free") /\ UNCHANGED store
        /\ SettleFailure(k, "temporarilyUnavailable")
    BY <1>2 DEF ProviderFails, At
  <2> QED BY <2>1, FailureStep DEF Availabilities
<1>3. CASE UNCHANGED vars
  BY <1>3 DEF vars, Inv, Shapes, PassesAreChecked, PublicationsAreOfFiles,
              DispatchedIsPublished, At, Work, Asset, Sum
<1> QED BY <1>1, <1>2, <1>3, StopStep, ReviewStep, LeaseLapsesStep DEF Next

THEOREM Invariance == Spec => []Inv
BY InvInit, InvNext, PTL DEF Spec

(* The outbox, the publications, the rows and the reviews keep their shapes: *)
(* no publication is ever in a state the Library does not know, and a review *)
(* never passes its bound.                                                   *)
THEOREM TypeCorrect == Spec => []TypeOK
<1>1. Inv => TypeOK
  BY DEF Inv, Shapes, TypeOK, Claims, Publications, Rows
<1> QED BY <1>1, Invariance, PTL

-----------------------------------------------------------------------------
(* Whose a claim is.                                                         *)

(* A worker that is free is at no work, and a claim names a worker that is   *)
(* at its work unless it stopped there or the asset has no row.              *)
ClaimsAreHeld ==
  /\ \A k \in Workers : At(k, "free") => workers[k].work = 0
  /\ \A i \in Ids : outbox[i].state = "claimed" => outbox[i].by \in Workers
  /\ FailureSettles

(* What a step does to the claims, when it makes none.                       *)
NoNewClaims ==
  \A i \in Ids : outbox'[i].state = "claimed" =>
    outbox[i].state = "claimed" /\ outbox'[i].by = outbox[i].by

(* A worker that goes on, or rests, keeps its claim.                         *)
LEMMA HeldByTheSame ==
  ASSUME Inv, ClaimsAreHeld, NoNewClaims, abandoned \subseteq abandoned',
         \A m \in Workers :
           /\ workers'[m].work = workers[m].work
           /\ At(m, "free")' => At(m, "free")
  PROVE  ClaimsAreHeld'
BY DEF ClaimsAreHeld, NoNewClaims, FailureSettles, At

(* A worker that leaves does so without a claim on its work, or stops.       *)
LEMMA LeftSettled ==
  ASSUME Inv, ClaimsAreHeld, NoNewClaims, abandoned \subseteq abandoned',
         NEW k \in Workers, ~At(k, "free"), Release(k),
         outbox'[Work(k)].state = "claimed" /\ outbox'[Work(k)].by = k =>
           Work(k) \in abandoned' \/ Asset(k) \in Unknown
  PROVE  ClaimsAreHeld'
<1>1. /\ workers'[k] = Free /\ Work(k) \in Ids
      /\ \A m \in Workers : m # k => workers'[m] = workers[m]
  BY DEF Inv, Shapes, PassesAreChecked, Release
<1>2. FailureSettles'
  <2> SUFFICES ASSUME NEW i \in Ids, outbox'[i].state = "claimed",
                      i \notin abandoned', Works[i].asset \notin Unknown
               PROVE  workers'[outbox'[i].by].work = i
    BY DEF FailureSettles
  <2>1. /\ outbox[i].state = "claimed" /\ outbox'[i].by = outbox[i].by
        /\ outbox[i].by \in Workers /\ workers[outbox[i].by].work = i
    BY DEF NoNewClaims, ClaimsAreHeld, FailureSettles
  <2>2. outbox[i].by # k
    BY <2>1 DEF Work, Asset
  <2> QED BY <1>1, <2>1, <2>2
<1>3. \A m \in Workers : At(m, "free")' => workers'[m].work = 0
  BY <1>1 DEF ClaimsAreHeld, At, Free
<1>4. \A i \in Ids : outbox'[i].state = "claimed" => outbox'[i].by \in Workers
  BY DEF ClaimsAreHeld, NoNewClaims
<1> QED BY <1>2, <1>3, <1>4 DEF ClaimsAreHeld

LEMMA HeldPass ==
  ASSUME Inv, ClaimsAreHeld, NEW k \in Workers, Pass(k)
  PROVE  ClaimsAreHeld'
<1>1. PICK i \in Oldest(Fresh(outbox)) :
        /\ outbox' = [Fresh(outbox) EXCEPT ![i] =
                        [state |-> "claimed", by |-> k, lapsed |-> FALSE]]
        /\ workers' = [workers EXCEPT ![k] = [work |-> i, pc |-> "read"]]
  BY DEF Pass
<1>2. /\ i \in Ids /\ 0 \notin Ids /\ At(k, "free") /\ abandoned' = abandoned
  <2>1. Works \in Seq([asset : Assets, sum : STRING \ {"none"}])
    BY PublisherAssumption
  <2>2. 0 \notin Ids
    BY <2>1, LenProperties DEF Ids
  <2> QED BY <1>1, <2>2 DEF Oldest, Waiting, Pass, stops
<1>3. /\ workers'[k] = [work |-> i, pc |-> "read"]
      /\ \A m \in Workers : m # k => workers'[m] = workers[m]
  BY <1>1 DEF Inv, Shapes
<1>4. /\ outbox'[i].by = k
      /\ \A j \in Ids : j # i /\ outbox'[j].state = "claimed" =>
           outbox[j].state = "claimed" /\ outbox'[j].by = outbox[j].by
  BY <1>1, <1>2 DEF Fresh, Open
<1>5. FailureSettles'
  <2> SUFFICES ASSUME NEW j \in Ids, outbox'[j].state = "claimed", j # i,
                      j \notin abandoned', Works[j].asset \notin Unknown
               PROVE  workers'[outbox'[j].by].work = j
    BY <1>3, <1>4 DEF FailureSettles
  <2>1. /\ outbox[j].by \in Workers /\ workers[outbox[j].by].work = j
        /\ outbox'[j].by = outbox[j].by
    BY <1>2, <1>4 DEF ClaimsAreHeld, FailureSettles
  <2>2. outbox[j].by # k
    BY <1>2, <2>1 DEF ClaimsAreHeld
  <2> QED BY <1>3, <2>1, <2>2
<1>6. \A m \in Workers : At(m, "free")' => workers'[m].work = 0
  BY <1>3 DEF ClaimsAreHeld, At
<1>7. \A j \in Ids : outbox'[j].state = "claimed" => outbox'[j].by \in Workers
  BY <1>4 DEF ClaimsAreHeld
<1> QED BY <1>5, <1>6, <1>7 DEF ClaimsAreHeld

(* A settlement takes the claim away.                                        *)
LEMMA SettledClaim ==
  ASSUME Inv, ClaimsAreHeld, NEW k \in Workers, ~At(k, "free"), Release(k),
         abandoned' = abandoned, NEW state \in {"failed", "dispatched"},
         NEW v, Settle(k, state, v)
  PROVE  ClaimsAreHeld'
<1>1. Work(k) \in Ids
  BY DEF Inv, PassesAreChecked
<1>2. outbox' = [outbox EXCEPT ![Work(k)] = Open(state)]
  BY DEF Settle
<1>3. /\ outbox'[Work(k)].state # "claimed"
      /\ \A i \in Ids : i # Work(k) => outbox'[i] = outbox[i]
  BY <1>1, <1>2 DEF Inv, Shapes, Open
<1>4. NoNewClaims
  BY <1>3 DEF NoNewClaims
<1> QED BY <1>3, <1>4, LeftSettled

LEMMA HeldFailure ==
  ASSUME Inv, ClaimsAreHeld, NEW k \in Workers, ~At(k, "free"), NEW v,
         abandoned' = abandoned, SettleFailure(k, v)
  PROVE  ClaimsAreHeld'
<1>1. CASE Holds(k) /\ Asset(k) \notin Unknown
  BY <1>1, SettledClaim DEF SettleFailure
<1>2. CASE ~(Holds(k) /\ Asset(k) \notin Unknown)
  <2>1. outbox' = outbox /\ Release(k)
    BY <1>2 DEF SettleFailure
  <2> QED BY <1>2, <2>1, LeftSettled DEF Holds, NoNewClaims
<1> QED BY <1>1, <1>2

(* A worker that goes on to its next point.                                  *)
LEMMA HeldGoing ==
  ASSUME Inv, ClaimsAreHeld, NEW k \in Workers, NEW q \in Points \ {"free"},
         Goto(k, q), outbox' = outbox, abandoned' = abandoned
  PROVE  ClaimsAreHeld'
<1>1. \A m \in Workers : /\ workers'[m].work = workers[m].work
                         /\ At(m, "free")' => At(m, "free")
  BY DEF Inv, Shapes, Passes, Goto, At
<1> QED BY <1>1, HeldByTheSame DEF NoNewClaims

LEMMA HeldNext == Inv /\ ClaimsAreHeld /\ [Next]_vars => ClaimsAreHeld'
<1> SUFFICES ASSUME Inv, ClaimsAreHeld, [Next]_vars PROVE ClaimsAreHeld'
  OBVIOUS
<1>1. ASSUME NEW k \in Workers, Step(k) PROVE ClaimsAreHeld'
  <2>1. CASE Pass(k)
    BY <2>1, HeldPass
  <2>2. CASE ReadFile(k)
    <3>1. ~At(k, "free") /\ abandoned' = abandoned
      BY <2>2 DEF ReadFile, At, stops
    <3>2. \/ \E v \in Availabilities : SettleFailure(k, v)
          \/ Goto(k, "record") /\ outbox' = outbox
      BY <2>2 DEF ReadFile, Availabilities
    <3> QED BY <3>1, <3>2, HeldFailure, HeldGoing DEF Points
  <2>3. CASE Record(k)
    <3>1. ~At(k, "free") /\ abandoned' = abandoned
      BY <2>3 DEF Record, At, stops
    <3>2. \/ SettleFailure(k, "failedPublication")
          \/ Goto(k, "put") /\ outbox' = outbox
      BY <2>3 DEF Record
    <3> QED BY <3>1, <3>2, HeldFailure, HeldGoing DEF Points
  <2>4. CASE Put(k)
    BY <2>4, HeldGoing DEF Put, Points, stops
  <2>5. CASE Verify(k)
    <3>1. ~At(k, "free") /\ abandoned' = abandoned
      BY <2>5 DEF Verify, At, stops
    <3>2. \/ SettleFailure(k, "failedPublication")
          \/ Goto(k, "settle") /\ outbox' = outbox
      BY <2>5 DEF Verify
    <3> QED BY <3>1, <3>2, HeldFailure, HeldGoing DEF Points
  <2>6. CASE SettlePublished(k)
    <3>1. ~At(k, "free") /\ Release(k) /\ abandoned' = abandoned
      BY <2>6 DEF SettlePublished, At, stops
    <3>2. CASE Holds(k)
      BY <2>6, <3>1, <3>2, SettledClaim DEF SettlePublished
    <3>3. CASE ~Holds(k)
      BY <2>6, <3>1, <3>3, LeftSettled DEF SettlePublished, Holds, NoNewClaims
    <3> QED BY <3>2, <3>3
  <2> QED BY <1>1, <2>1, <2>2, <2>3, <2>4, <2>5, <2>6 DEF Step
<1>2. ASSUME NEW k \in Workers, ProviderFails(k) PROVE ClaimsAreHeld'
  BY <1>2, HeldFailure DEF ProviderFails, At
<1>3. ASSUME NEW k \in Workers, Stop(k) PROVE ClaimsAreHeld'
  BY <1>3, LeftSettled DEF Stop, NoNewClaims
<1>4. ASSUME NEW i \in Ids, LeaseLapses(i) PROVE ClaimsAreHeld'
  <2>1. \A j \in Ids : /\ outbox'[j].state = outbox[j].state
                       /\ outbox'[j].by = outbox[j].by
    BY <1>4 DEF LeaseLapses, Inv, Shapes, Claims
  <2> QED BY <1>4, <2>1, HeldByTheSame
          DEF LeaseLapses, NoNewClaims, stops, At
<1>5. CASE UNCHANGED <<outbox, workers, abandoned>>
  BY <1>5, HeldByTheSame DEF NoNewClaims, At
<1>6. StoreReview \/ (\E a \in Assets : ReadReview(a)) \/ UNCHANGED vars =>
        UNCHANGED <<outbox, workers, abandoned>>
  BY DEF StoreReview, ReadReview, vars, stops
<1> QED BY <1>1, <1>2, <1>3, <1>4, <1>5, <1>6 DEF Next

THEOREM HoldersInvariance == Spec => []ClaimsAreHeld
<1>1. Init => ClaimsAreHeld
  BY DEF Init, ClaimsAreHeld, FailureSettles, At, Free, Open
<1> QED BY <1>1, HeldNext, Invariance, PTL DEF Spec

-----------------------------------------------------------------------------
(* What the readers of the library may rely on.                              *)

(* A dispatched work has an object of its bytes in the store, however many   *)
(* publishers work on it, whoever lost his claim on the way, and wherever    *)
(* they stop or the provider fails.                                          *)
THEOREM DispatchedStaysPublished == Spec => []DispatchedIsPublished
<1>1. Inv => DispatchedIsPublished
  BY DEF Inv
<1> QED BY <1>1, Invariance, PTL

(* A download is granted only for an object that is in the store: the row    *)
(* and the publication the grant reads are never ahead of the upload.        *)
THEOREM GrantsAreOfObjects == Spec => []GrantedExists
<1>1. Inv => GrantedExists
  BY DEF Inv, GrantedExists, Granted, PublicationsAreOfFiles
<1> QED BY <1>1, Invariance, PTL

(* What is dispatched or granted is in the store, and no pass ends without   *)
(* settling its work except by a stop or for an asset without a row: for     *)
(* any outbox, files, publishers, stops and provider failures.               *)
THEOREM OutboxStaysSound == Spec => []OutboxIsSound
<1> QED BY TypeCorrect, DispatchedStaysPublished, GrantsAreOfObjects,
           HoldersInvariance, PTL DEF OutboxIsSound, ClaimsAreHeld

-----------------------------------------------------------------------------
(* A publisher alone on the outbox.                                          *)

AtWorkHolds == \A k \in Workers : ~At(k, "free") => Holds(k)

(* Nobody else takes the work of the only publisher, however long its lease  *)
(* has run out.                                                              *)
LEMMA AloneNext ==
  ASSUME \A k, m \in Workers : k = m,
         Inv, AtWorkHolds, [Next]_vars
  PROVE  AtWorkHolds'
<1> SUFFICES ASSUME NEW k \in Workers, ~At(k, "free")' PROVE Holds(k)'
  BY DEF AtWorkHolds
<1>1. workers \in [Workers -> Passes] /\ outbox \in [Ids -> Claims]
  BY DEF Inv, Shapes
<1>2. CASE Pass(k)
  <2>1. PICK i \in Oldest(Fresh(outbox)) :
          /\ outbox' = [Fresh(outbox) EXCEPT ![i] =
                          [state |-> "claimed", by |-> k, lapsed |-> FALSE]]
          /\ workers' = [workers EXCEPT ![k] = [work |-> i, pc |-> "read"]]
    BY <1>2 DEF Pass
  <2>2. workers'[k].work = i /\ i \in Ids
    BY <1>1, <2>1 DEF Oldest, Waiting
  <2> QED BY <2>1, <2>2 DEF Holds, Work, Fresh
<1>3. CASE /\ \E q \in Points : Goto(k, q)
           /\ ~At(k, "free") /\ outbox' = outbox
  BY <1>1, <1>3 DEF AtWorkHolds, Holds, Work, Goto, Passes
<1>4. CASE Release(k)
  BY <1>1, <1>4 DEF Release, Free, At
<1>5. ASSUME NEW i \in Ids, LeaseLapses(i) PROVE Holds(k)'
  <2>1. /\ workers' = workers
        /\ \A j \in Ids : /\ outbox'[j].state = outbox[j].state
                          /\ outbox'[j].by = outbox[j].by
    BY <1>1, <1>5 DEF LeaseLapses, Claims
  <2>2. ~At(k, "free") /\ Work(k)' = Work(k) /\ Work(k) \in Ids
    BY <2>1 DEF At, Work, Inv, PassesAreChecked
  <2> QED BY <2>1, <2>2 DEF AtWorkHolds, Holds
<1>6. CASE UNCHANGED <<outbox, workers>>
  BY <1>6 DEF AtWorkHolds, Holds, Work, At
<1>7. ASSUME NEW m \in Workers, Step(m) \/ ProviderFails(m) \/ Stop(m)
      PROVE  \/ Pass(k) \/ Release(k)
             \/ /\ \E q \in Points : Goto(k, q)
                /\ ~At(k, "free") /\ outbox' = outbox
  <2>1. m = k
    OBVIOUS
  <2> QED BY <1>7, <2>1
          DEF Step, ReadFile, Record, Put, Verify, SettlePublished,
              ProviderFails, Stop, SettleFailure, At, Points
<1>8. StoreReview \/ (\E a \in Assets : ReadReview(a)) \/ UNCHANGED vars =>
        UNCHANGED <<outbox, workers>>
  BY DEF StoreReview, ReadReview, vars
<1> QED BY <1>2, <1>3, <1>4, <1>5, <1>6, <1>7, <1>8 DEF Next

(* The row and the publication of an asset nobody works on stay.             *)
LEMMA OthersStay ==
  ASSUME Inv, NEW k \in Workers, ~At(k, "free"),
         Step(k) \/ ProviderFails(k) \/ Stop(k),
         NEW a \in Assets, a # Asset(k)
  PROVE  publications'[a] = publications[a] /\ rows'[a] = rows[a]
<1>1. /\ publications \in [Assets -> Publications]
      /\ rows \in [Assets -> Rows]
  BY DEF Inv, Shapes
<1>2. ASSUME NEW state, NEW v, Settle(k, state, v)
      PROVE  publications'[a] = publications[a] /\ rows'[a] = rows[a]
  <2> DEFINE w == [publications[Asset(k)] EXCEPT !.state =
                     IF @ = "none" THEN @ ELSE v]
             r == [availability |-> v, shown |-> v, review |-> 0]
  <2>1. /\ publications' = [publications EXCEPT ![Asset(k)] = w]
        /\ rows' = [rows EXCEPT ![Asset(k)] = r]
    BY <1>2 DEF Settle, Project
  <2> HIDE DEF w, r
  <2> QED BY <1>1, <2>1
<1>3. CASE Record(k) /\ ~Conflicts(k)
  BY <1>1, <1>3 DEF Record, library
<1>4. \/ UNCHANGED <<publications, rows>>
      \/ \E state \in {"failed", "dispatched"} :
           \E v \in Availabilities : Settle(k, state, v)
      \/ Record(k) /\ ~Conflicts(k)
  <2>1. ASSUME NEW v \in Availabilities, SettleFailure(k, v)
        PROVE  \/ UNCHANGED <<publications, rows>>
               \/ Settle(k, "failed", v)
    BY <2>1 DEF SettleFailure, library
  <2>2. {"published", "temporarilyUnavailable", "failedPublication"}
          \subseteq Availabilities
    BY DEF Availabilities
  <2>3. CASE ReadFile(k)
    BY <2>1, <2>2, <2>3 DEF ReadFile, library
  <2>4. CASE Record(k)
    BY <2>1, <2>2, <2>4 DEF Record
  <2>5. CASE Put(k) \/ Stop(k) \/ Pass(k)
    BY <2>5 DEF Put, Stop, Pass, library
  <2>6. CASE Verify(k)
    BY <2>1, <2>2, <2>6 DEF Verify, library
  <2>7. CASE SettlePublished(k)
    BY <2>2, <2>7 DEF SettlePublished, library
  <2>8. CASE ProviderFails(k)
    BY <2>1, <2>2, <2>8 DEF ProviderFails
  <2> QED BY <2>3, <2>4, <2>5, <2>6, <2>7, <2>8 DEF Step
<1> QED BY <1>2, <1>3, <1>4

(* With one publisher an asset whose works are all dispatched stays          *)
(* downloadable, whatever stops, fails, lapses or is reviewed.  With two it  *)
(* does not: one that lost its claim records the publication anew.           *)
THEOREM AloneKeepsPublished ==
  ASSUME \A k, m \in Workers : k = m
  PROVE  Spec => [][KeepsPublished]_vars
<1>1. Init => AtWorkHolds
  BY DEF Init, AtWorkHolds, At, Free
<1>2. Inv /\ AtWorkHolds /\ [Next]_vars => AtWorkHolds'
  BY AloneNext
<1>3. Inv /\ AtWorkHolds /\ [Next]_vars => [KeepsPublished]_vars
  <2> SUFFICES ASSUME Inv, AtWorkHolds, Next,
                      NEW a \in Assets, Granted(a),
                      \A i \in Ids : Works[i].asset = a =>
                        outbox[i].state = "dispatched"
               PROVE  Granted(a)'
    BY DEF KeepsPublished, AllDispatched
  <2>1. ASSUME NEW k \in Workers, Step(k) \/ ProviderFails(k) \/ Stop(k)
        PROVE  Granted(a)'
    <3>1. CASE At(k, "free")
      <4>1. UNCHANGED <<publications, rows>>
        BY <2>1, <3>1
        DEF Step, Pass, ReadFile, Record, Put, Verify, SettlePublished,
            ProviderFails, Stop, At, library
      <4> QED BY <4>1 DEF Granted
    <3>2. CASE ~At(k, "free")
      <4>1. Work(k) \in Ids /\ outbox[Work(k)].state = "claimed"
        BY <3>2 DEF Inv, PassesAreChecked, AtWorkHolds, Holds
      <4>2. a # Asset(k)
        BY <4>1 DEF Asset
      <4>3. publications'[a] = publications[a] /\ rows'[a] = rows[a]
        BY <2>1, <3>2, <4>2, OthersStay
      <4> QED BY <4>3 DEF Granted
    <3> QED BY <3>1, <3>2
  <2>2. CASE StoreReview
    <3>1. rows \in [Assets -> Rows] /\ publications' = publications
      BY <2>2 DEF Inv, Shapes, StoreReview
    <3>2. rows'[a].availability = rows[a].availability
      BY <2>2, <3>1 DEF StoreReview, Rows
    <3> QED BY <3>1, <3>2 DEF Granted
  <2>3. CASE (\E b \in Assets : ReadReview(b)) \/ \E i \in Ids : LeaseLapses(i)
    BY <2>3 DEF ReadReview, LeaseLapses, Granted, library
  <2> QED BY <2>1, <2>2, <2>3 DEF Next
<1> QED BY <1>1, <1>2, <1>3, Invariance, PTL DEF Spec

(* Whoever lost a claim, stopped or failed, a step beside an asset that is   *)
(* dispatched leaves its row, and its publication unless it is the record of *)
(* a worker that lost its claim before it made it (settleFailure,            *)
(* settlePublished, publish).                                                *)
THEOREM StaleWorkStaysQuiet == Spec => [][StaleWorkIsQuiet]_vars
<1>1. Inv /\ [Next]_vars => [StaleWorkIsQuiet]_vars
  <2> SUFFICES ASSUME Inv, Next, NEW a \in Assets, AllDispatched(a)
               PROVE  /\ rows'[a].availability = rows[a].availability
                      /\ \/ publications'[a] = publications[a]
                         \/ \E k \in Workers : RecordsAnew(k, a)
    BY DEF StaleWorkIsQuiet
  <2>1. ASSUME NEW k \in Workers, Step(k) \/ ProviderFails(k) \/ Stop(k)
        PROVE  /\ rows'[a].availability = rows[a].availability
               /\ publications'[a] = publications[a] \/ RecordsAnew(k, a)
    <3>1. CASE At(k, "free")
      <4>1. UNCHANGED <<publications, rows>>
        BY <2>1, <3>1
        DEF Step, Pass, ReadFile, Record, Put, Verify, SettlePublished,
            ProviderFails, Stop, At, library
      <4> QED BY <4>1
    <3>2. CASE ~At(k, "free") /\ a # Asset(k)
      BY <2>1, <3>2, OthersStay
    <3>3. CASE ~At(k, "free") /\ a = Asset(k)
      <4>1. Work(k) \in Ids
        BY <3>3 DEF Inv, PassesAreChecked
      <4>2. ~Holds(k)
        BY <3>3, <4>1 DEF AllDispatched, Asset, Holds
      <4>3. CASE Record(k) /\ ~Conflicts(k)
        <5> DEFINE new == [sum |-> Sum(Work(k)),
                           state |-> "temporarilyUnavailable"]
        <5>1. publications \in [Assets -> Publications]
          BY DEF Inv, Shapes
        <5>2. publications' = [publications EXCEPT ![a] = new] /\ rows' = rows
          BY <3>3, <4>3 DEF Record, library
        <5>3. publications'[a] = new
          BY <5>1, <5>2
        <5>4. RecordsAnew(k, a)
          BY <3>3, <4>2, <4>3, <5>3 DEF RecordsAnew, Record
        <5> QED BY <5>2, <5>4
      <4>4. CASE ~(Record(k) /\ ~Conflicts(k))
        <5>1. \A v : SettleFailure(k, v) => UNCHANGED <<publications, rows>>
          BY <4>2 DEF SettleFailure, library
        <5>2. UNCHANGED <<publications, rows>>
          BY <2>1, <3>3, <4>2, <4>4, <5>1
          DEF Step, Pass, ReadFile, Record, Put, Verify, SettlePublished,
              ProviderFails, Stop, At, library
        <5> QED BY <5>2
      <4> QED BY <4>3, <4>4
    <3> QED BY <3>1, <3>2, <3>3
  <2>2. CASE StoreReview
    <3>1. rows \in [Assets -> Rows] /\ publications' = publications
      BY <2>2 DEF Inv, Shapes, StoreReview
    <3>2. rows'[a].availability = rows[a].availability
      BY <2>2, <3>1 DEF StoreReview, Rows
    <3> QED BY <3>1, <3>2
  <2>3. CASE (\E b \in Assets : ReadReview(b)) \/ \E i \in Ids : LeaseLapses(i)
    BY <2>3 DEF ReadReview, LeaseLapses, library
  <2> QED BY <2>1, <2>2, <2>3 DEF Next
<1> QED BY <1>1, Invariance, PTL DEF Spec

-----------------------------------------------------------------------------
(* The intake of captured frames.                                            *)

(* What an intake under way knows of the files, and what a recorded one has  *)
(* left.                                                                     *)
IntakeKnows ==
  /\ pc \in {"idle", "files", "write", "written", "rename", "commit"}
  /\ pc # "idle" => request \in Requests /\ recorded = None
  /\ pc \in {"write", "written", "rename"} => final = "none"
  /\ pc = "rename" => temporary = request.image
  /\ pc = "commit" => final = request.image

IntakeInv == IntakeIsSound /\ IntakeKnows

LEMMA IntakeNextInv == IntakeInv /\ [IntakeNext]_intakeVars => IntakeInv'
<1> SUFFICES ASSUME IntakeInv, [IntakeNext]_intakeVars PROVE IntakeInv'
  OBVIOUS
<1> USE IntakeAssumption
    DEF IntakeInv, IntakeIsSound, IntakeTypeOK, RecordedHasBytes,
        NoRecordedOrphan, IntakeKnows, files, database, Answer, GoOn
<1>1. /\ "none" \notin Images /\ "part" \notin Images
      /\ \A r \in Requests : r.image \in Images /\ r # None
  BY DEF Requests, None
<1>2. ASSUME NEW r \in Requests, Call(r) PROVE IntakeInv'
  BY <1>2 DEF Call
<1>3. CASE Reconcile
  <2>1. /\ pc = "files" /\ UNCHANGED <<recorded, intakeFaults>>
        /\ request \in Requests /\ request.image \in Images
        /\ temporary' \in Images \cup {"none", "part"}
    BY <1>1, <1>3 DEF Reconcile
  <2>2. CASE final \notin {"none", request.image}
    BY <1>1, <1>3, <2>1, <2>2 DEF Reconcile
  <2>3. CASE final = request.image
    BY <1>1, <1>3, <2>1, <2>3 DEF Reconcile
  <2>4. CASE final = "none" /\ temporary = request.image
    BY <1>1, <1>3, <2>1, <2>4 DEF Reconcile
  <2>5. CASE final = "none" /\ temporary # request.image
    BY <1>1, <1>3, <2>1, <2>5 DEF Reconcile
  <2> QED BY <2>2, <2>3, <2>4, <2>5
<1>4. CASE Write
  BY <1>4 DEF Write
<1>5. CASE Written
  BY <1>1, <1>5 DEF Written
<1>6. CASE Rename
  BY <1>1, <1>6 DEF Rename
<1>7. CASE Commit
  BY <1>1, <1>7 DEF Commit
<1>8. CASE WriteFails
  BY <1>8 DEF WriteFails
<1>9. CASE CommitFails
  BY <1>1, <1>9 DEF CommitFails
<1>10. CASE OriginStops
  BY <1>10 DEF OriginStops
<1>11. CASE UNCHANGED intakeVars
  BY <1>11 DEF intakeVars
<1> QED BY <1>2, <1>3, <1>4, <1>5, <1>6, <1>7, <1>8, <1>9, <1>10, <1>11
        DEF IntakeNext

THEOREM IntakeInvariance == IntakeSpec => []IntakeInv
<1>1. IntakeInit => IntakeInv
  BY DEF IntakeInit, IntakeInv, IntakeIsSound, IntakeTypeOK, IntakeKnows,
         RecordedHasBytes, NoRecordedOrphan
<1> QED BY <1>1, IntakeNextInv, PTL DEF IntakeSpec

(* Wherever the origin stops and whatever the disk and the database refuse,  *)
(* a frame of the library has its original in place, and is no orphan.       *)
THEOREM IntakeStaysSound == IntakeSpec => []IntakeIsSound
<1> QED BY IntakeInvariance, PTL DEF IntakeInv

(* An original that is in its place is never written over: an intake that    *)
(* would rename into it has found the place free, and there is no other.      *)
THEOREM OriginalsStay == IntakeSpec => OriginalStays
<1>1. IntakeInv /\ [IntakeNext]_intakeVars =>
        [final # "none" => final' = final]_final
  BY DEF IntakeInv, IntakeKnows, IntakeNext, Call, Reconcile, Write, Written,
         Rename, Commit, WriteFails, CommitFails, OriginStops, intakeVars,
         files
<1> QED BY <1>1, IntakeInvariance, PTL DEF IntakeSpec, OriginalStays
=============================================================================
