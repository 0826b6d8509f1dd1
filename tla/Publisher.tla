----------------------------- MODULE Publisher -----------------------------
(***************************************************************************)
(* Publication of processing outputs (workers/publisher-worker.ts, run by  *)
(* workers/publisher-service.ts beside the origin on the same database)    *)
(* and what the Library makes of it: the availability it projects, the     *)
(* download it grants, the review it shows next to it                      *)
(* (services/library-review-service.ts).                                   *)
(*                                                                         *)
(* A worker claims one work of the outbox under a lease, checks the local  *)
(* file, records the publication, uploads and verifies, and settles what   *)
(* it still holds. It may be slower than its lease, and stop at any await. *)
(***************************************************************************)
EXTENDS Naturals, Sequences, FiniteSets

CONSTANTS
    Assets,    \* assets the works of the outbox are about
    Works,     \* the outbox at the start: a sequence of [asset, sum]
    FileSum,   \* checksum of the local output of an asset, or "missing"
    Unknown,   \* assets without a row in the library
    Workers,   \* publisher processes
    MaxFaults, \* bound: stops and provider failures
    MaxReviews \* bound: reviews of an asset

ASSUME PublisherAssumption ==
    /\ Works \in Seq([asset : Assets, sum : STRING \ {"none"}])
    /\ "none" \notin Workers
    /\ Unknown \subseteq Assets
    /\ MaxFaults \in Nat /\ MaxReviews \in Nat

VARIABLES
    outbox,       \* outbox: state and holder of each work, its lease run out
    publications, \* asset_publications: checksum and state of an asset
    rows,         \* library_assets: the availability column and the detail
    reviews,      \* asset_reviews: revision of the review of an asset
    reviewing,    \* the origin, between reading a detail and storing it
    store,        \* objects in R2, by asset and checksum
    workers,      \* where each worker is
    abandoned,    \* the works a worker stopped on
    faults

vars == <<outbox, publications, rows, reviews, reviewing, store, workers,
          abandoned, faults>>
library == <<rows, reviews, reviewing>>
stops == <<abandoned, faults>>

Ids == DOMAIN Works
Sum(i) == Works[i].sum
Free == [work |-> 0, pc |-> "free"]
Nothing == [sum |-> "none", state |-> "none"]
Open(state) == [state |-> state, by |-> "none", lapsed |-> FALSE]
Unread == [asset |-> "none", expected |-> 0, availability |-> "none"]

Init ==
    /\ outbox = [i \in Ids |-> Open("pending")]
    /\ publications = [a \in Assets |-> Nothing]
    /\ rows = [a \in Assets |-> [availability |-> "availableLocally",
                                 shown |-> "availableLocally", review |-> 0]]
    /\ reviews = [a \in Assets |-> 0]
    /\ reviewing = Unread
    /\ store = {}
    /\ workers = [k \in Workers |-> Free]
    /\ abandoned = {} /\ faults = 0

-----------------------------------------------------------------------------
(* The worker.                                                             *)

At(k, pc) == workers[k].pc = pc
Goto(k, pc) == workers' = [workers EXCEPT ![k].pc = pc]
Release(k) == workers' = [workers EXCEPT ![k] = Free]
Work(k) == workers[k].work
Asset(k) == Works[Work(k)].asset

Fresh(o) ==
    [i \in Ids |-> IF o[i].lapsed THEN Open("failed") ELSE o[i]]

\* A failed work may be retried from the moment it failed.
Waiting(o) == {i \in Ids : o[i].state \in {"pending", "failed"}}
Oldest(o) == {i \in Waiting(o) : \A j \in Waiting(o) : i <= j}

\* Mutant: a claim whose lease has run out is left to its holder.
PassLenient(k) ==
    /\ At(k, "free")
    /\ LET o == outbox
       IN \E i \in Oldest(o) :
            /\ outbox' = [o EXCEPT ![i] = [state |-> "claimed", by |-> k,
                                           lapsed |-> FALSE]]
            /\ workers' = [workers EXCEPT ![k] = [work |-> i, pc |-> "read"]]
    /\ UNCHANGED <<publications, library, store, stops>>

Pass(k) ==
    /\ At(k, "free")
    /\ LET o == Fresh(outbox)
       IN \E i \in Oldest(o) :
            /\ outbox' = [o EXCEPT ![i] = [state |-> "claimed", by |-> k,
                                           lapsed |-> FALSE]]
            /\ workers' = [workers EXCEPT ![k] = [work |-> i, pc |-> "read"]]
    /\ UNCHANGED <<publications, library, store, stops>>

\* projectAvailability rewrites the detail from the fields it knows, which
\* the review is not among.
Project(a, availability) ==
    rows' = [rows EXCEPT ![a] = [availability |-> availability,
                                 shown |-> availability, review |-> 0]]

Holds(k) ==
    outbox[Work(k)].state = "claimed" /\ outbox[Work(k)].by = k

Settle(k, state, availability) ==
    /\ outbox' = [outbox EXCEPT ![Work(k)] = Open(state)]
    /\ publications' = [publications EXCEPT ![Asset(k)].state =
                          IF @ = "none" THEN @ ELSE availability]
    /\ Project(Asset(k), availability)
    /\ UNCHANGED <<reviews, reviewing>>

\* Mutant: a failure marks the publication before it looks at the claim.
SettleFailureUnheld(k, availability) ==
    /\ IF Asset(k) \in Unknown
       THEN UNCHANGED <<outbox, publications, library>>
       ELSE /\ publications' = [publications EXCEPT ![Asset(k)].state =
                                 IF @ = "none" THEN @ ELSE availability]
            /\ Project(Asset(k), availability)
            /\ outbox' = IF Holds(k)
                         THEN [outbox EXCEPT ![Work(k)] = Open("failed")]
                         ELSE outbox
            /\ UNCHANGED <<reviews, reviewing>>
    /\ Release(k)

\* The failure of an asset without a row does not settle: projecting its
\* availability throws, and the process ends.
SettleFailure(k, availability) ==
    /\ IF Holds(k) /\ Asset(k) \notin Unknown
       THEN Settle(k, "failed", availability)
       ELSE UNCHANGED <<outbox, publications, library>>
    /\ Release(k)

Readable(k) == Asset(k) \notin Unknown /\ FileSum[Asset(k)] # "missing"

Conflicts(k) == publications[Asset(k)].sum \notin {"none", Sum(Work(k))}

\* Decoding the work and the asset, and reading and hashing the file.
ReadFile(k) ==
    /\ At(k, "read")
    /\ CASE ~Readable(k) -> SettleFailure(k, "temporarilyUnavailable")
         [] Readable(k) /\ FileSum[Asset(k)] # Sum(Work(k)) ->
              SettleFailure(k, "failedPublication")
         [] OTHER ->
              Goto(k, "record") /\ UNCHANGED <<outbox, publications, library>>
    /\ UNCHANGED <<store, stops>>

\* The publication is recorded without another look at the claim.
Record(k) ==
    /\ At(k, "record")
    /\ IF Conflicts(k)
       THEN SettleFailure(k, "failedPublication")
       ELSE /\ publications' = [publications EXCEPT ![Asset(k)] =
                 [sum |-> Sum(Work(k)), state |-> "temporarilyUnavailable"]]
            /\ Goto(k, "put")
            /\ UNCHANGED <<outbox, library>>
    /\ UNCHANGED <<store, stops>>

Put(k) ==
    /\ At(k, "put")
    /\ store' = store \cup {<<Asset(k), Sum(Work(k))>>}
    /\ Goto(k, "verify")
    /\ UNCHANGED <<outbox, publications, library, stops>>

Verify(k) ==
    /\ At(k, "verify")
    /\ IF <<Asset(k), Sum(Work(k))>> \in store
       THEN Goto(k, "settle") /\ UNCHANGED <<outbox, publications, library>>
       ELSE SettleFailure(k, "failedPublication")
    /\ UNCHANGED <<store, stops>>

SettlePublished(k) ==
    /\ At(k, "settle")
    /\ IF Holds(k)
       THEN Settle(k, "dispatched", "published")
       ELSE UNCHANGED <<outbox, publications, library>>
    /\ Release(k)
    /\ UNCHANGED <<store, stops>>

\* Mutant: a provider that fails is taken to have stored the object.
ProviderTrusted(k) ==
    /\ At(k, "put") \/ At(k, "verify")
    /\ faults < MaxFaults
    /\ faults' = faults + 1
    /\ Settle(k, "dispatched", "published")
    /\ Release(k)
    /\ UNCHANGED <<store, abandoned>>

\* The provider refuses or cannot be reached; what was put may have arrived.
ProviderFails(k) ==
    /\ At(k, "put") \/ At(k, "verify")
    /\ faults < MaxFaults
    /\ faults' = faults + 1
    /\ SettleFailure(k, "temporarilyUnavailable")
    /\ UNCHANGED <<store, abandoned>>

Stop(k) ==
    /\ ~At(k, "free")
    /\ faults < MaxFaults
    /\ faults' = faults + 1
    /\ abandoned' = abandoned \cup {Work(k)}
    /\ Release(k)
    /\ UNCHANGED <<outbox, publications, library, store>>

-----------------------------------------------------------------------------
(* The origin, the store and the leases.                                   *)

\* A review names the revision its client was shown. The detail is read
\* before the transaction that stores it, and the publisher writes too.
ReadReview(a) ==
    /\ reviewing = Unread
    /\ a \notin Unknown /\ reviews[a] < MaxReviews
    /\ rows[a].review = reviews[a]
    /\ reviewing' = [asset |-> a, expected |-> reviews[a],
                     availability |-> rows[a].shown]
    /\ UNCHANGED <<outbox, publications, rows, reviews, store, workers, stops>>

StoreReview ==
    /\ reviewing # Unread
    /\ LET a == reviewing.asset
           revision == reviewing.expected + 1
       IN /\ reviews' = [reviews EXCEPT ![a] = revision]
          /\ rows' = [rows EXCEPT ![a].review = revision,
                                  ![a].shown = reviewing.availability]
    /\ reviewing' = Unread
    /\ UNCHANGED <<outbox, publications, store, workers, stops>>

\* claim_until passes, thirty seconds after the claim.
LeaseLapses(i) ==
    /\ outbox[i].state = "claimed" /\ ~outbox[i].lapsed
    /\ outbox' = [outbox EXCEPT ![i].lapsed = TRUE]
    /\ UNCHANGED <<publications, library, store, workers, stops>>

Step(k) ==
    \/ Pass(k) \/ ReadFile(k) \/ Record(k) \/ Put(k) \/ Verify(k)
    \/ SettlePublished(k)

Next ==
    \/ \E k \in Workers : Step(k) \/ ProviderFails(k) \/ Stop(k)
    \/ \E a \in Assets : ReadReview(a)
    \/ \E i \in Ids : LeaseLapses(i)
    \/ StoreReview

Spec == Init /\ [][Next]_vars

\* The service loops for ever, and leases run out.
FairSpec ==
    /\ Spec
    /\ \A k \in Workers : WF_vars(Step(k))
    /\ \A i \in Ids : WF_vars(LeaseLapses(i))

-----------------------------------------------------------------------------
(* What the Library answers (persistence/library-sqlite-repository.ts,     *)
(* services/library-representation-service.ts).                            *)

\* A grant for the object of the publication is issued.
Granted(a) ==
    /\ rows[a].availability = "published"
    /\ publications[a].state = "published"

Availabilities == {"availableLocally", "published", "temporarilyUnavailable",
                   "failedPublication"}

(* Shape of the outbox, the publications and the rows.                     *)
TypeOK ==
    /\ outbox \in [Ids -> [state : {"pending", "claimed", "failed",
                                    "dispatched"},
                           by : Workers \cup {"none"}, lapsed : BOOLEAN]]
    /\ \A a \in Assets :
         /\ publications[a].state \in {"none"} \cup Availabilities
         /\ rows[a].availability \in Availabilities
    /\ reviews \in [Assets -> 0 .. MaxReviews]

(* A work is held by one worker at a time and a dispatched work is never   *)
(* worked again: its settled publication has an object of its checksum.    *)
DispatchedIsPublished ==
    \A i \in Ids : outbox[i].state = "dispatched" =>
      <<Works[i].asset, Sum(i)>> \in store

(* A download is granted only for an object that was verified.             *)
GrantedExists ==
    \A a \in Assets : Granted(a) => <<a, publications[a].sum>> \in store

AllDispatched(a) ==
    \A i \in Ids : Works[i].asset = a => outbox[i].state = "dispatched"

\* A worker that lost its claim while it hashed the file records the
\* publication anew, and its settlement will not bring it back.
RecordsAnew(k, a) ==
    /\ At(k, "record") /\ ~Holds(k) /\ Asset(k) = a
    /\ publications'[a] = [sum |-> Sum(Work(k)),
                            state |-> "temporarilyUnavailable"]

(* When all works of an asset are dispatched, nothing a worker that lost   *)
(* its claim still does reaches its row or its publication, but for the    *)
(* record of one that had still to make it.                                *)
StaleWorkIsQuiet ==
    \A a \in Assets :
      AllDispatched(a) =>
        /\ rows'[a].availability = rows[a].availability
        /\ \/ publications'[a] = publications[a]
           \/ \E k \in Workers : RecordsAnew(k, a)

(* A published asset all of whose works are dispatched stays downloadable. *)
KeepsPublished ==
    \A a \in Assets : Granted(a) /\ AllDispatched(a) => Granted(a)'

(* A pass settles its work, however it ends: a claim is that of a worker   *)
(* at it, was left by one that stopped, or is for an asset without a row.  *)
FailureSettles ==
    \A i \in Ids : outbox[i].state = "claimed" =>
      \/ workers[outbox[i].by].work = i
      \/ i \in abandoned
      \/ Works[i].asset \in Unknown

(* What is dispatched or granted is in the store, and a failure is settled *)
(* whatever it is about (processOne, projectAvailability, grant).          *)
OutboxIsSound ==
    /\ TypeOK /\ DispatchedIsPublished /\ GrantedExists /\ FailureSettles

(* Work for a file that can be read and matches is published in the end,   *)
(* whatever stops, fails or is superseded in between.                      *)
GoodWorkIsPublished ==
    \A i \in {j \in Ids : /\ Works[j].asset \notin Unknown
                         /\ FileSum[Works[j].asset] = Sum(j)} :
      <>(outbox[i].state = "dispatched")
=============================================================================
