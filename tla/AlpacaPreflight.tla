--------------------------- MODULE AlpacaPreflight ---------------------------
(***************************************************************************)
(* The preflight provider of an Alpaca rig                                 *)
(* (providers/alpaca-preflight-provider.ts): an observation reads the      *)
(* inventory and then fact after fact of device after device, while the    *)
(* rig moves on, and its verdict speaks of all of them at once.            *)
(***************************************************************************)
EXTENDS Naturals, Sequences

CONSTANTS
  Devices,    \* config.devices, in the order they are observed
  MaxChanges, \* bound: changes of the rig
  MaxFailed   \* bound: reads that bring no fact

VARIABLES
  facts,       \* per fact of a device, whether it is as a command needs it
  observing, \* where the observation is, and what it holds
  snapshot,  \* the verdict and the checks it was made of
  seen,      \* what each fact has been since the observation began
  changes, failed

preflightVars == <<facts, observing, snapshot, seen, changes, failed>>

AlpacaPreflightOK ==
  /\ Devices \in Seq({"camera", "telescope", "focuser", "filterWheel"})
  /\ Devices # <<>> /\ {MaxChanges, MaxFailed} \subseteq Nat

\* The reads of a device, in order; "facts" stands for those that only tell
\* capabilities, which no check is made of.
Reads(kind) ==
  CASE kind = "telescope" -> <<"connected", "parked", "slewing", "facts">>
    [] kind = "focuser"   -> <<"connected", "ismoving", "facts">>
    [] OTHER              -> <<"connected", "facts">>
Kinds == {Devices[i] : i \in DOMAIN Devices}
FactsOf(kind) ==
  ({"available"} \cup {Reads(kind)[j] : j \in DOMAIN Reads(kind)}) \ {"facts"}
Facts == UNION {{<<kind, fact>> : fact \in FactsOf(kind)} : kind \in Kinds}

Rest == [device |-> 0, read |-> 0, listed |-> {}, values |-> <<>>,
         safety |-> {}]
Unread == [verdict |-> "none", safety |-> {}]

Init ==
  /\ facts = [f \in Facts |-> TRUE]
  /\ observing = Rest /\ snapshot = Unread
  /\ seen = [f \in Facts |-> {}]
  /\ changes = 0 /\ failed = 0

\* observe: the inventory comes first.
Observe ==
  /\ observing = Rest
  /\ observing' = [Rest EXCEPT !.device = 1, !.read = 1,
       !.listed = {kind \in Kinds : facts[<<kind, "available">>]}]
  /\ seen' = [f \in Facts |-> {facts[f]}]
  /\ snapshot' = Unread
  /\ UNCHANGED <<facts, changes, failed>>

\* unavailableSnapshot: the inventory could not be read.
Unavailable ==
  /\ observing = Rest /\ failed < MaxFailed
  /\ failed' = failed + 1
  /\ snapshot' = [verdict |-> "unavailable",
                  safety |-> {<<k, "available", "unavailable">> : k \in Kinds}]
  /\ UNCHANGED <<facts, observing, seen, changes>>

Reading(kind) ==
  observing.device \in DOMAIN Devices /\ kind = Devices[observing.device]
Done(checks) ==
  /\ observing' = [observing EXCEPT !.device = @ + 1, !.read = 1,
                     !.values = <<>>, !.safety = @ \cup checks]
  /\ UNCHANGED <<facts, snapshot, seen, changes>>

\* A device the inventory does not list is not read.
Missing(kind) ==
  /\ Reading(kind) /\ kind \notin observing.listed
  /\ Done({<<kind, "available", "unavailable">>}) /\ UNCHANGED failed

State(fine) == IF fine THEN "ready" ELSE "blocked"
Checks(kind, values) ==
  {<<kind, Reads(kind)[j], State(values[j])>> :
     j \in {i \in DOMAIN values : Reads(kind)[i] # "facts"}}

\* observeDevice, deviceFacts: one read after the other.
Read(kind) ==
  /\ Reading(kind) /\ kind \in observing.listed
  /\ LET fact == Reads(kind)[observing.read]
         values == Append(observing.values,
                          IF fact = "facts" THEN TRUE ELSE facts[<<kind, fact>>])
     IN IF observing.read = Len(Reads(kind))
        THEN Done(Checks(kind, values)) /\ UNCHANGED failed
        ELSE /\ observing' = [observing EXCEPT !.read = @ + 1,
                                               !.values = values]
             /\ UNCHANGED <<facts, snapshot, seen, changes, failed>>

\* Without a connection fact the device is unavailable; without another one
\* its facts are, the ones read before it included.
ReadFails(kind) ==
  /\ Reading(kind) /\ kind \in observing.listed
  /\ failed < MaxFailed /\ failed' = failed + 1
  /\ IF observing.read = 1
     THEN Done({<<kind, "available", "unavailable">>})
     ELSE Done(Checks(kind, <<observing.values[1]>>)
                 \cup {<<kind, "facts", "unavailable">>})

Verdict(safety) ==
  LET states == {c[3] : c \in safety}
  IN IF "blocked" \in states THEN "blocked"
     ELSE IF "unavailable" \in states THEN "unknown" ELSE "ready"

Conclude ==
  /\ observing.device > Len(Devices)
  /\ snapshot' = [verdict |-> Verdict(observing.safety),
                  safety |-> observing.safety]
  /\ observing' = Rest
  /\ UNCHANGED <<facts, seen, changes, failed>>

\* The rig goes on: a mount parks or slews, a connection comes or goes.
Changes(f) ==
  /\ changes < MaxChanges
  /\ changes' = changes + 1
  /\ facts' = [facts EXCEPT ![f] = ~@]
  /\ seen' = [seen EXCEPT ![f] = @ \cup {facts'[f]}]
  /\ UNCHANGED <<observing, snapshot, failed>>

Next ==
  \/ Observe \/ Unavailable \/ Conclude
  \/ \E kind \in Kinds : Missing(kind) \/ Read(kind) \/ ReadFails(kind)
  \/ \E f \in Facts : Changes(f)

Spec == Init /\ [][Next]_preflightVars

-----------------------------------------------------------------------------
\* A verdict tells of every configured device what it has been during the
\* observation: ready needs each fact to have been as needed, and blocked
\* names one that was not.
VerdictIsSeen ==
  observing = Rest =>
    /\ snapshot.verdict = "ready" =>
         \A f \in Facts : TRUE \in seen[f]
    /\ snapshot.verdict = "blocked" => \E f \in Facts : FALSE \in seen[f]
    /\ snapshot.verdict \notin {"none"} =>
         \A kind \in Kinds : \E c \in snapshot.safety : c[1] = kind
    /\ \A c \in snapshot.safety :
         c[3] = "blocked" => FALSE \in seen[<<c[1], c[2]>>]
=============================================================================
