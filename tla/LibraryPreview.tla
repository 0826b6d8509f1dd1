--------------------------- MODULE LibraryPreview ---------------------------
(***************************************************************************)
(* The previews the Library serves (services/library-representation-       *)
(* service.ts): a request is admitted against the time its client was last *)
(* served and the number of requests under way, reads the file, and notes  *)
(* its delivery when it ends.                                              *)
(***************************************************************************)
EXTENDS Naturals, FiniteSets

CONSTANTS
    Clients,
    Requests,  \* requests that can be under way, admitted or not
    Limit,     \* previewConcurrentLimit
    Refresh,   \* previewRefreshMs
    MaxNow     \* bound: the clock

PreviewAssumption ==
    Limit \in Nat /\ Refresh \in Nat \ {0} /\ MaxNow \in Nat

VARIABLES
    now,
    activePreviews,
    lastDelivered, \* admission of the preview that was delivered last
    reading        \* the requests past their admission

vars == <<now, activePreviews, lastDelivered, reading>>

Idle == [client |-> "none", admitted |-> 0]

\* The clock is long past the epoch, where lastDelivered starts.
Init ==
    /\ now = Refresh
    /\ activePreviews = 0
    /\ lastDelivered = [c \in Clients |-> 0]
    /\ reading = [r \in Requests |-> Idle]

\* The request of a client that is limited or finds the origin busy is
\* refused, and nothing changes.
Admit(r, c) ==
    /\ reading[r] = Idle
    /\ lastDelivered[c] + Refresh <= now
    /\ activePreviews < Limit
    /\ activePreviews' = activePreviews + 1
    /\ reading' = [reading EXCEPT ![r] = [client |-> c, admitted |-> now]]
    /\ UNCHANGED <<now, lastDelivered>>

Deliver(r) ==
    LET c == reading[r].client
    IN /\ reading[r] # Idle
       /\ lastDelivered' = [lastDelivered EXCEPT ![c] = reading[r].admitted]
       /\ activePreviews' = activePreviews - 1
       /\ reading' = [reading EXCEPT ![r] = Idle]
       /\ UNCHANGED now

\* No inspection, no file, a file that is too large, or the request ends.
Fail(r) ==
    /\ reading[r] # Idle
    /\ activePreviews' = activePreviews - 1
    /\ reading' = [reading EXCEPT ![r] = Idle]
    /\ UNCHANGED <<now, lastDelivered>>

Tick ==
    /\ now < MaxNow
    /\ now' = now + 1
    /\ UNCHANGED <<activePreviews, lastDelivered, reading>>

Next ==
    \/ \E r \in Requests : (\E c \in Clients : Admit(r, c))
    \/ \E r \in Requests : Deliver(r) \/ Fail(r)
    \/ Tick

Spec == Init /\ [][Next]_vars

-----------------------------------------------------------------------------
(* Every place taken is that of a request under way, so that places cannot *)
(* leak away, and there are no more of them than allowed.                  *)
PlacesAreTaken ==
    /\ activePreviews = Cardinality({r \in Requests : reading[r] # Idle})
    /\ activePreviews <= Limit
=============================================================================
