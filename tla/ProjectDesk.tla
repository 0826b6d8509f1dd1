---------------------------- MODULE ProjectDesk -----------------------------
(* The Process page of the workspace runtime: one open Project, shown as a  *)
(* pair of the Project and its evidence, which are read by separate         *)
(* requests.                                                                *)
(*                                                                          *)
(* Three kinds of calls read that pair and publish it: the loader of the    *)
(* route, the loader a newer bootstrap state starts, and the operations of  *)
(* the user.  A call owns the page while its route generation and its       *)
(* commit generation are the newest ones.                                   *)
EXTENDS Integers, FiniteSets

CONSTANTS
  Projects,        \* the Projects of the service
  MaxRevision,     \* bound: revisions of one Project
  MaxRoutes,       \* bound: route changes
  MaxOperations,   \* bound: operations submitted
  MaxFailures,     \* bound: requests that fail
  MaxRestarts,     \* bound: restarts of the service
  LateBootstrap    \* whether the first snapshot may fail to load

DeskAssumption ==
  /\ {MaxRevision, MaxRoutes, MaxOperations, MaxFailures} \subseteq Nat
  /\ MaxRestarts \in Nat
  /\ LateBootstrap \in BOOLEAN
  /\ MaxRevision > MaxOperations
  /\ Projects \cap {"Elsewhere", "Nothing"} = {}

VARIABLES
  truth,             \* revision of each Project at the service
  notices,           \* notices of changes that wait in the service's memory
  cursor,            \* event cursor of the service
  announced,         \* history: the truth when the cursor last moved
  lastBootstrapCursor,
  currentRoute,      \* the open Project, or Elsewhere
  routeGeneration,
  processPairCommitGeneration,
  process,           \* what the page shows
  calls,             \* the calls in flight
  operations,        \* operations submitted so far
  failures,          \* requests failed so far
  restarts           \* restarts of the service so far

service == <<truth, notices, cursor, announced, restarts>>
generations == <<routeGeneration, processPairCommitGeneration>>
vars == <<service, lastBootstrapCursor, currentRoute, generations, process,
          calls, operations, failures>>

Revisions == 1..MaxRevision
Unread == 0
Loader == 0
Callers == 0..MaxOperations
Steps == {"Sent", "Changed", "Reading"}

(* A call: the Project and generations it began with, and what it has read. *)
Calls ==
  [at : Steps, projectId : Projects, generation : Nat,
   commitGeneration : Nat, expected : Revisions \cup {Unread},
   project : Revisions \cup {Unread}, evidence : Revisions \cup {Unread}]
NoCall == [at |-> "None"]

TypeOK ==
  /\ {truth, announced} \subseteq [Projects -> Revisions]
  /\ notices \in Nat /\ cursor \in Nat /\ restarts \in 0..MaxRestarts
  /\ lastBootstrapCursor \in 0..cursor
  /\ currentRoute \in Projects \cup {"Elsewhere"}
  /\ routeGeneration \in 0..MaxRoutes
  /\ processPairCommitGeneration \in Nat
  /\ process \in [projectId : Projects \cup {"Nothing"},
                  project : Revisions \cup {Unread},
                  evidence : Revisions \cup {Unread},
                  state : {"loading", "current", "unavailable"}]
  /\ calls \in [Callers -> Calls \cup {NoCall}]
  /\ operations \in 0..MaxOperations
  /\ failures \in 0..MaxFailures

Init ==
  /\ truth = [p \in Projects |-> 1] /\ notices = 0 /\ cursor = 1
  /\ announced = truth /\ restarts = 0
  /\ lastBootstrapCursor \in IF LateBootstrap THEN {0, 1} ELSE {1}
  /\ currentRoute = "Elsewhere"
  /\ routeGeneration = 0 /\ processPairCommitGeneration = 0
  /\ process = [projectId |-> "Nothing", project |-> Unread,
                evidence |-> Unread, state |-> "loading"]
  /\ calls = [c \in Callers |-> NoCall]
  /\ operations = 0 /\ failures = 0

-----------------------------------------------------------------------------
(* The service                                                              *)

Changed(p) ==
  /\ truth' = [truth EXCEPT ![p] = @ + 1]
  /\ notices' = notices + 1
  /\ UNCHANGED <<cursor, announced, restarts>>

NothingShown ==
  UNCHANGED <<lastBootstrapCursor, currentRoute, generations, process, calls,
              operations, failures>>

(* The projection cursor moves after the change, when its notice is read.   *)
publishProcessingProjection ==
  /\ notices > 0
  /\ notices' = notices - 1
  /\ cursor' = cursor + 1 /\ announced' = truth
  /\ UNCHANGED <<truth, restarts>>
  /\ NothingShown

(* Notices are lost with the memory of the service.                         *)
Restart ==
  /\ restarts < MaxRestarts
  /\ restarts' = restarts + 1
  /\ notices' = 0
  /\ UNCHANGED <<truth, cursor, announced>>
  /\ NothingShown

(* Another client or a worker changes a Project; the bound leaves room for  *)
(* the operations of this page.                                             *)
ChangedElsewhere(p) ==
  /\ truth[p] + MaxOperations < MaxRevision
  /\ Changed(p)
  /\ NothingShown

-----------------------------------------------------------------------------
(* Reading and publishing a pair                                            *)

Reading(p, generation, commitGeneration) ==
  [at |-> "Reading", projectId |-> p, generation |-> generation,
   commitGeneration |-> commitGeneration, expected |-> Unread,
   project |-> Unread, evidence |-> Unread]

\* Mutant: every call owns the page until it ends.
EveryOwnsResult(c) == calls[c].at # "None"

ownsResult(c) ==
  /\ calls[c].at # "None"
  /\ calls[c].generation = routeGeneration
  /\ calls[c].commitGeneration = processPairCommitGeneration

publishProjectPair(c) ==
  process' = [projectId |-> calls[c].projectId, project |-> calls[c].project,
              evidence |-> calls[c].evidence, state |-> "current"]

Ended(c) == calls' = [calls EXCEPT ![c] = NoCall]

Elsewhere ==
  UNCHANGED <<service, lastBootstrapCursor, currentRoute, generations,
              operations>>

(* The Project and the evidence are asked for together; the service answers *)
(* each at its own time.                                                    *)
ReadProject(c) ==
  /\ calls[c].at = "Reading"
  /\ calls[c].project = Unread
  /\ calls' = [calls EXCEPT ![c].project = truth[calls[c].projectId]]
  /\ Elsewhere /\ UNCHANGED <<process, failures>>

ReadEvidence(c) ==
  /\ calls[c].at \in {"Reading", "Changed"}
  /\ calls[c].evidence = Unread
  /\ calls' = [calls EXCEPT ![c].evidence = truth[calls[c].projectId]]
  /\ Elsewhere /\ UNCHANGED <<process, failures>>

PairRead(c) ==
  /\ calls[c].at \in {"Reading", "Changed"}
  /\ Unread \notin {calls[c].project, calls[c].evidence}
  /\ IF ownsResult(c) THEN publishProjectPair(c) ELSE UNCHANGED process
  /\ Ended(c)
  /\ Elsewhere /\ UNCHANGED failures

Failing ==
  /\ failures < MaxFailures
  /\ failures' = failures + 1

(* A pair that cannot be read: the page says so, if it is the owner's.      *)
PairFailed(c) ==
  /\ calls[c].at = "Reading"
  /\ Failing
  /\ process' = IF ownsResult(c) THEN [process EXCEPT !.state = "unavailable"]
                ELSE process
  /\ Ended(c)
  /\ Elsewhere

(* The evidence of a change that cannot be read: the whole pair is.         *)
EvidenceFailed(c) ==
  /\ calls[c].at = "Changed"
  /\ Failing
  /\ calls' = [calls EXCEPT ![c] =
       Reading(@.projectId, @.generation, @.commitGeneration)]
  /\ Elsewhere /\ UNCHANGED process

-----------------------------------------------------------------------------
(* Routes and bootstrap states                                              *)

loadProcess(p, generation) ==
  /\ processPairCommitGeneration' = processPairCommitGeneration + 1
  /\ calls' = [calls EXCEPT ![Loader] =
       Reading(p, generation, processPairCommitGeneration + 1)]

routeChanged(route) ==
  /\ routeGeneration < MaxRoutes
  /\ routeGeneration' = routeGeneration + 1
  /\ currentRoute' = route
  /\ IF route \in Projects
     THEN /\ process' = [process EXCEPT !.state = "loading"]
          /\ loadProcess(route, routeGeneration + 1)
     ELSE /\ calls' = [calls EXCEPT ![Loader] = NoCall]
          /\ UNCHANGED <<process, processPairCommitGeneration>>
  /\ UNCHANGED <<service, lastBootstrapCursor, operations, failures>>

(* A bootstrap state with a newer cursor reads the open Project again.      *)
bootstrapState ==
  /\ cursor > lastBootstrapCursor
  /\ lastBootstrapCursor' = cursor
  /\ IF lastBootstrapCursor # 0 /\ currentRoute \in Projects
     THEN loadProcess(currentRoute, routeGeneration)
     ELSE UNCHANGED <<calls, processPairCommitGeneration>>
  /\ UNCHANGED <<service, currentRoute, routeGeneration, process, operations,
                 failures>>

-----------------------------------------------------------------------------
(* Operations                                                               *)

(* An operation acts on the current pair of the routed Project.             *)
Process ==
  /\ operations < MaxOperations
  /\ currentRoute \in Projects
  /\ process.projectId = currentRoute
  /\ process.state = "current"
  /\ operations' = operations + 1
  /\ processPairCommitGeneration' = processPairCommitGeneration + 1
  /\ calls' = [calls EXCEPT ![operations + 1] =
       [Reading(currentRoute, routeGeneration,
                processPairCommitGeneration + 1)
          EXCEPT !.at = "Sent", !.expected = process.project]]
  /\ UNCHANGED <<service, lastBootstrapCursor, currentRoute, routeGeneration,
                 process, failures>>

(* The service changes the Project only at the revision it was shown at.    *)
(* The answer may be lost, as may the request; an operation that does not   *)
(* know its outcome reads the pair.                                         *)
changeProject(c) ==
  /\ calls[c].at = "Sent"
  /\ LET p == calls[c].projectId
         answered == [calls EXCEPT ![c].at = "Changed",
                                   ![c].project = truth[p] + 1]
         unknown == [calls EXCEPT ![c].at = "Reading"]
     IN  \/ /\ calls[c].expected = truth[p]
            /\ Changed(p)
            /\ \/ calls' = answered /\ UNCHANGED failures
               \/ calls' = unknown /\ Failing
         \/ /\ calls[c].expected # truth[p]
            /\ calls' = unknown
            /\ UNCHANGED <<service, failures>>
         \/ /\ calls' = unknown
            /\ Failing
            /\ UNCHANGED service
  /\ UNCHANGED <<lastBootstrapCursor, currentRoute, generations, process,
                 operations>>

-----------------------------------------------------------------------------
Read(c) == ReadProject(c) \/ ReadEvidence(c)
Close(c) == PairRead(c) \/ PairFailed(c)

Next ==
  \/ \E p \in Projects : ChangedElsewhere(p)
  \/ \E route \in Projects \cup {"Elsewhere"} : routeChanged(route)
  \/ bootstrapState \/ Process \/ publishProcessingProjection \/ Restart
  \/ \E c \in Callers :
       Read(c) \/ Close(c) \/ EvidenceFailed(c) \/ changeProject(c)

Spec == Init /\ [][Next]_vars

(* Requests are answered or fail, and the bootstrap client catches up.      *)
GoesOn ==
  \/ publishProcessingProjection \/ bootstrapState
  \/ \E c \in Callers : Read(c) \/ Close(c) \/ changeProject(c)

FairSpec == Spec /\ WF_vars(GoesOn)

-----------------------------------------------------------------------------
(* What the page shows of a Project never becomes older, whichever of the   *)
(* calls in flight ends last (ownsResult).                                  *)
ShownNeverOlder ==
  [][process'.projectId = process.projectId
     => /\ process'.project >= process.project
        /\ process'.evidence >= process.evidence]_vars

(* A failure makes the page unavailable only when no newer call is under    *)
(* way that may still show the Project.                                     *)
NoLateFailure ==
  [][(process.state # "unavailable" /\ process'.state = "unavailable")
       => ~\E c \in Callers :
             /\ calls'[c] # NoCall
             /\ calls'[c].generation = routeGeneration'
             /\ calls'[c].commitGeneration =
                  processPairCommitGeneration']_vars

(* A pair that is current on a Project's page is a pair of that Project.    *)
RoutedProject ==
  (currentRoute \in Projects /\ process.state = "current") =>
    process.projectId = currentRoute

(* Once the Project and the route settle, the page shows the Project as it  *)
(* is, or says that it is unavailable.  A change whose notice is lost with   *)
(* the memory of the service moves no cursor, and the page need not show it *)
(* (projectionInvalidations); and a first snapshot that comes late does not *)
(* read the open pair again (lastBootstrapCursor).                          *)
Settles ==
  (lastBootstrapCursor # 0) =>
    <>[](currentRoute \in Projects =>
           LET since == announced[currentRoute]..truth[currentRoute] IN
           \/ process.state = "unavailable"
           \/ /\ process.projectId = currentRoute
              /\ process.project \in since /\ process.evidence \in since
              /\ process.state = "current")
=============================================================================
