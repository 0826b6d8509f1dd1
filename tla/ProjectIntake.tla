---------------------------- MODULE ProjectIntake ----------------------------
(* Taking Library Assets into Processing: the page creates a Project or     *)
(* adds sources to one of the Projects it lists.                            *)
(*                                                                          *)
(* A creation keeps its intent until the page knows how it went, so that a  *)
(* repeated request is answered by the receipt of the first.  An addition   *)
(* names the revision the page lists, under a new intent each time.         *)
EXTENDS Integers, FiniteSets

CONSTANTS
  Keys,            \* names and selections of creations
  Projects,        \* Projects that sources may be added to
  Forms,           \* intakes that may be in flight together
  MaxIntents,      \* bound: intents of creations
  MaxAdditions,    \* bound: additions accepted
  MaxElsewhere,    \* bound: changes by others
  MaxRoutes,       \* bound: route changes
  MaxFailures,     \* bound: requests whose answer is lost
  Refusals         \* whether the service may refuse a creation

TakingAssumption ==
  /\ {MaxIntents, MaxAdditions, MaxElsewhere, MaxRoutes, MaxFailures}
       \subseteq Nat
  /\ Refusals \in BOOLEAN
  /\ Keys \cap Projects = {}

VARIABLES
  receipts,        \* intents the service has accepted
  created,         \* Projects created for each key
  revision,        \* revision of each Project
  known,           \* Projects of a key that the page was told of
  refused,         \* history: keys whose creation the service has refused
  routeGeneration,
  processListReadGeneration,
  process,         \* the listed revisions and the state of the list
  processFiber,    \* the route's read of the list
  pendingProjectCreations,
  intents,         \* intents used so far
  intakes,         \* the intakes in flight
  message,         \* what the page says of its last intake
  left,            \* whether the page was left for the Project
  additions, elsewhere, failures

service == <<receipts, created, revision, refused>>
generations == <<routeGeneration, processListReadGeneration>>
page == <<generations, process, processFiber, pendingProjectCreations, intents,
          message, left>>
bounds == <<elsewhere, failures>>
vars == <<service, known, page, intakes, additions, bounds>>

Revisions == 0..(MaxAdditions + MaxElsewhere)
Unread == [p \in Projects |-> -1]
Lists == [Projects -> Revisions]
NoRead == [at |-> "None"]
NoIntake == [at |-> "None"]

TypeOK ==
  /\ receipts \subseteq 1..MaxIntents
  /\ created \in [Keys -> Nat] /\ known \in [Keys -> Nat]
  /\ revision \in Lists /\ refused \subseteq Keys
  /\ routeGeneration \in 0..MaxRoutes /\ processListReadGeneration \in Nat
  /\ process \in [projects : Lists \cup {Unread},
                  state : {"loading", "current", "unavailable"}]
  /\ process.state = "current" => process.projects # Unread
  /\ pendingProjectCreations \in [Keys -> 0..MaxIntents]
  /\ intents \in 0..MaxIntents
  /\ \A f \in Forms : intakes[f] # NoIntake =>
       /\ intakes[f].at \in {"Sent", "Opened", "Rejected", "Uncertain",
                             "Listing", "Listed", "Reconciling", "Told"}
       /\ intakes[f].of \in Keys \cup Projects
       /\ intakes[f].generation \in 0..MaxRoutes
  /\ message \in {"none", "notAccepted"}
  /\ left \in BOOLEAN
  /\ elsewhere \in 0..MaxElsewhere /\ failures \in 0..MaxFailures

Init ==
  /\ receipts = {} /\ created = [k \in Keys |-> 0]
  /\ revision = [p \in Projects |-> 0]
  /\ known = [k \in Keys |-> 0] /\ refused = {}
  /\ routeGeneration = 0 /\ processListReadGeneration = 0
  /\ process = [projects |-> Unread, state |-> "loading"]
  /\ processFiber = NoRead
  /\ pendingProjectCreations = [k \in Keys |-> 0]
  /\ intents = 0
  /\ intakes = [f \in Forms |-> NoIntake]
  /\ message = "none" /\ left = FALSE
  /\ additions = 0 /\ elsewhere = 0 /\ failures = 0

Failing == failures < MaxFailures /\ failures' = failures + 1

-----------------------------------------------------------------------------
(* The list of Projects                                                     *)

ChangedElsewhere(p) ==
  /\ elsewhere < MaxElsewhere
  /\ elsewhere' = elsewhere + 1
  /\ revision' = [revision EXCEPT ![p] = @ + 1]
  /\ UNCHANGED <<receipts, created, refused, known, page, intakes, additions,
                 failures>>

(* Every route of the Library reads the list again.                         *)
routeChanged ==
  /\ ~left
  /\ routeGeneration < MaxRoutes
  /\ routeGeneration' = routeGeneration + 1
  /\ processListReadGeneration' = processListReadGeneration + 1
  /\ process' = [process EXCEPT !.state = "loading"]
  /\ processFiber' = [at |-> "Reading", generation |-> routeGeneration',
                      list |-> processListReadGeneration',
                      projects |-> Unread]
  /\ UNCHANGED <<service, known, pendingProjectCreations, intents, message,
                 left, intakes, additions, bounds>>

ownsProcessListRead(read) ==
  /\ read.generation = routeGeneration
  /\ read.list = processListReadGeneration

Listed(read) ==
  process' = IF ownsProcessListRead(read)
             THEN [projects |-> read.projects, state |-> "current"]
             ELSE process

NotListed(read) ==
  process' = IF ownsProcessListRead(read)
             THEN [process EXCEPT !.state = "unavailable"] ELSE process

ListRead ==
  /\ processFiber.at = "Reading"
  /\ processFiber' = [processFiber EXCEPT !.at = "Read", !.projects = revision]
  /\ UNCHANGED <<service, known, generations, process, intents, message,
                 pendingProjectCreations, left, intakes, additions, bounds>>

loadProcess ==
  /\ ~left
  /\ processFiber' = NoRead
  /\ \/ processFiber.at = "Read" /\ Listed(processFiber) /\ UNCHANGED failures
     \/ processFiber.at = "Reading" /\ Failing /\ NotListed(processFiber)
  /\ UNCHANGED <<service, known, generations, pendingProjectCreations,
                 intents, message, left, intakes, additions, elsewhere>>

-----------------------------------------------------------------------------
(* Creations                                                                *)

Free(f) == ~left /\ intakes[f] = NoIntake

Begin(f, of, intent, expected) ==
  /\ intakes' = [intakes EXCEPT ![f] =
       [at |-> "Sent", of |-> of, intent |-> intent, expected |-> expected,
        generation |-> routeGeneration, list |-> 0, projects |-> Unread]]
  /\ message' = "none"

CreateProject(f, k) ==
  /\ Free(f)
  /\ IF pendingProjectCreations[k] # 0
     THEN /\ Begin(f, k, pendingProjectCreations[k], 0)
          /\ UNCHANGED <<pendingProjectCreations, intents>>
     ELSE /\ intents < MaxIntents
          /\ intents' = intents + 1
          /\ pendingProjectCreations' =
               [pendingProjectCreations EXCEPT ![k] = intents + 1]
          /\ Begin(f, k, intents + 1, 0)
  /\ UNCHANGED <<service, known, generations, process, processFiber, left,
                 additions, bounds>>

At(f, step) == intakes' = [intakes EXCEPT ![f].at = step]

(* The service refuses what the caller may not do, or what it cannot store, *)
(* before it looks for a receipt.                                           *)
create(f) ==
  /\ intakes[f].at = "Sent" /\ intakes[f].of \in Keys
  /\ LET i == intakes[f].intent
         k == intakes[f].of
     IN  \/ /\ receipts' = receipts \cup {i}
            /\ created' = [created EXCEPT ![k] =
                             @ + IF i \in receipts THEN 0 ELSE 1]
            /\ \/ At(f, "Opened") /\ UNCHANGED failures
               \/ At(f, "Uncertain") /\ Failing
            /\ UNCHANGED refused
         \/ /\ \/ /\ At(f, "Rejected") /\ Refusals
                  /\ refused' = refused \cup {k}
                  /\ UNCHANGED failures
               \/ At(f, "Uncertain") /\ Failing /\ UNCHANGED refused
            /\ UNCHANGED <<receipts, created>>
  /\ UNCHANGED <<revision, known, page, additions, elsewhere>>

clearRequest(f) ==
  pendingProjectCreations' =
    [pendingProjectCreations EXCEPT ![intakes[f].of] =
       IF @ = intakes[f].intent THEN 0 ELSE @]

(* The page goes to the Project it was told of.                             *)
ProjectCreated(f) ==
  /\ ~left
  /\ intakes[f].at = "Opened" /\ intakes[f].of \in Keys
  /\ clearRequest(f)
  /\ known' = [known EXCEPT ![intakes[f].of] = @ + 1]
  /\ left' = TRUE
  /\ intakes' = [intakes EXCEPT ![f] = NoIntake]
  /\ UNCHANGED <<service, generations, process, processFiber, intents, message,
                 additions, bounds>>

\* Mutant: a creation that failed in any way forgets its intent.
CreationForgotten(f) ==
  /\ ~left
  /\ intakes[f].at \in {"Rejected", "Uncertain"} /\ intakes[f].of \in Keys
  /\ clearRequest(f)
  /\ At(f, "Told")
  /\ UNCHANGED <<service, known, generations, process, processFiber,
                 intents, message, left, additions, bounds>>

(* A creation that failed forgets its intent only when it was refused, and  *)
(* reads the list if its route is still open.                               *)
CreationFailed(f) ==
  /\ ~left
  /\ intakes[f].at \in {"Rejected", "Uncertain"} /\ intakes[f].of \in Keys
  /\ IF intakes[f].at = "Rejected" THEN clearRequest(f)
     ELSE UNCHANGED pendingProjectCreations
  /\ IF intakes[f].generation = routeGeneration
     THEN /\ processListReadGeneration' = processListReadGeneration + 1
          /\ intakes' = [intakes EXCEPT ![f].at = "Listing",
                           ![f].list = processListReadGeneration + 1]
     ELSE At(f, "Told") /\ UNCHANGED processListReadGeneration
  /\ UNCHANGED <<service, known, routeGeneration, process, processFiber,
                 intents, message, left, additions, bounds>>

ReconcileRead(f) ==
  /\ intakes[f].at = "Listing"
  /\ intakes' = [intakes EXCEPT ![f].at = "Listed", ![f].projects = revision]
  /\ UNCHANGED <<service, known, page, additions, bounds>>

ListReconciled(f) ==
  /\ ~left
  /\ At(f, "Told")
  /\ \/ intakes[f].at = "Listed" /\ Listed(intakes[f]) /\ UNCHANGED failures
     \/ intakes[f].at = "Listing" /\ Failing /\ NotListed(intakes[f])
  /\ UNCHANGED <<service, known, generations, processFiber, intents, message,
                 pendingProjectCreations, left, additions, elsewhere>>

-----------------------------------------------------------------------------
(* Additions                                                                *)

AddProjectSources(f, p) ==
  /\ Free(f)
  /\ process.state = "current"
  /\ Begin(f, p, 0, process.projects[p])
  /\ UNCHANGED <<service, known, generations, process, processFiber, left,
                 pendingProjectCreations, intents, additions, bounds>>

change(f) ==
  /\ intakes[f].at = "Sent" /\ intakes[f].of \in Projects
  /\ LET p == intakes[f].of
     IN  \/ /\ intakes[f].expected = revision[p]
            /\ additions < MaxAdditions
            /\ additions' = additions + 1
            /\ revision' = [revision EXCEPT ![p] = @ + 1]
            /\ \/ At(f, "Opened") /\ UNCHANGED failures
               \/ At(f, "Reconciling") /\ Failing
         \/ /\ At(f, "Reconciling")
            /\ intakes[f].expected = revision[p] => Failing
            /\ intakes[f].expected # revision[p] => UNCHANGED failures
            /\ UNCHANGED <<revision, additions>>
  /\ UNCHANGED <<receipts, created, refused, known, page, elsewhere>>

SourcesAdded(f) ==
  /\ ~left
  /\ intakes[f].at = "Opened" /\ intakes[f].of \in Projects
  /\ left' = TRUE
  /\ intakes' = [intakes EXCEPT ![f] = NoIntake]
  /\ UNCHANGED <<service, known, generations, process, processFiber,
                 pendingProjectCreations, intents, message, additions, bounds>>

(* An addition that failed reads the Project and its evidence.  The list,   *)
(* whose revision the next addition names, stays as it is.                  *)
reconcileProjectPair(f) ==
  /\ ~left
  /\ intakes[f].at = "Reconciling"
  /\ At(f, "Told")
  /\ LET owns == intakes[f].generation = routeGeneration
         Turned(to) == process' = IF owns THEN [process EXCEPT !.state = to]
                                  ELSE process
     IN  \/ Turned("current") /\ UNCHANGED failures
         \/ Turned("unavailable") /\ Failing
  /\ UNCHANGED <<service, known, generations, processFiber, intents, message,
                 pendingProjectCreations, left, additions, elsewhere>>

(* The page says that an intake was not accepted.                           *)
Told(f) ==
  /\ ~left
  /\ intakes[f].at = "Told"
  /\ message' = "notAccepted"
  /\ intakes' = [intakes EXCEPT ![f] = NoIntake]
  /\ UNCHANGED <<service, known, generations, process, processFiber, intents,
                 pendingProjectCreations, left, additions, bounds>>

-----------------------------------------------------------------------------
(* A user who comes back loads the page anew: what it held is gone, and the *)
(* Projects there are can be seen.  Bound: an intent is left for the page.  *)
Loaded ==
  /\ left
  /\ intents < MaxIntents
  /\ known' = created
  /\ left' = FALSE
  /\ routeGeneration' = 0 /\ processListReadGeneration' = 0
  /\ process' = [projects |-> Unread, state |-> "loading"]
  /\ processFiber' = NoRead
  /\ pendingProjectCreations' = [k \in Keys |-> 0]
  /\ intakes' = [f \in Forms |-> NoIntake]
  /\ message' = "none"
  /\ refused' = {}
  /\ UNCHANGED <<receipts, created, revision, intents, additions, bounds>>

Answered(f) ==
  \/ create(f) \/ ProjectCreated(f) \/ CreationFailed(f) \/ ReconcileRead(f)
  \/ ListReconciled(f) \/ change(f) \/ SourcesAdded(f)
  \/ reconcileProjectPair(f) \/ Told(f)

Intake(f) ==
  (\E k \in Keys : CreateProject(f, k)) \/
  (\E p \in Projects : AddProjectSources(f, p))

Next ==
  \/ \E p \in Projects : ChangedElsewhere(p)
  \/ routeChanged \/ ListRead \/ loadProcess \/ Loaded
  \/ \E f \in Forms : Intake(f) \/ Answered(f)

Spec == Init /\ [][Next]_vars

(* Requests are answered or fail, and a user who is told that an intake was *)
(* not accepted tries again.                                                *)
FairSpec ==
  /\ Spec
  /\ WF_vars(ListRead) /\ WF_vars(loadProcess)
  /\ \A f \in Forms : WF_vars(Answered(f)) /\ WF_vars(Intake(f))

-----------------------------------------------------------------------------
(* No request repeated after a lost answer creates a second Project: there  *)
(* is at most one more Project of a key than the page knows of.  A refusal  *)
(* ends the intent, so that the next creation is another                    *)
(* (pendingProjectCreations).                                               *)
CreatedOnce ==
  \A k \in DOMAIN created \ refused : created[k] <= known[k] + 1

(* The revisions that are listed never become older while the page is open, *)
(* whichever read of the list ends last (ownsProcessListRead).              *)
ListNeverOlder ==
  [][~left /\ ~left' =>
       \A p \in DOMAIN process.projects :
         process'.projects[p] >= process.projects[p]]_vars

(* An intake that the user keeps trying is accepted in the end.             *)
IntakeGoesThrough == [](routeGeneration > 0 => <>left)
=============================================================================
