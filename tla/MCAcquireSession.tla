-------------------------- MODULE MCAcquireSession --------------------------
(* Instances of AcquireSession for TLC.  A behaviour follows one scenario:  *)
(* a deep-sky session of one request at a time (the cfg's constants), two   *)
(* requests at a time, a polar alignment with two clients, a lunar session, *)
(* a session with the smallest budgets, or a session with an Observe page.  *)
EXTENDS ObservePage

VARIABLE scenario

Few == {"centered", "approval"}

Race == INSTANCE AcquireSession WITH
    Slots <- {"r1", "r2"}, Results <- Few \cup {"final"},
    MaxKeys <- 4, MaxClock <- 1

Polar == INSTANCE AcquireSession WITH
    Clients <- {"desktop", "laptop"}, Method <- "polar", Results <- Few,
    DenyOuter <- TRUE, MaxKeys <- 4

Lunar == INSTANCE AcquireSession WITH Method <- "lunar", Results <- Few

Frugal == INSTANCE AcquireSession WITH MaxAttempts <- 1, MaxCorrections <- 1

Observe == INSTANCE ObservePage WITH
    Clients <- {"desktop", "laptop"},
    Results <- {"approval", "retryable", "centered"},
    MaxAttempts <- 1, MaxKeys <- 3

\* Without a page its variables rest.
Pageless ==
    /\ lease = 0 /\ snap = Unknown /\ shown = Unknown /\ pending = AtRest
    /\ phone = FALSE /\ turns = 0 /\ lost = 0

MCInit ==
    \/ scenario = "center" /\ Init /\ Pageless
    \/ scenario = "race" /\ Race!Init /\ Pageless
    \/ scenario = "polar" /\ Polar!Init /\ Pageless
    \/ scenario = "lunar" /\ Lunar!Init /\ Pageless
    \/ scenario = "frugal" /\ Frugal!Init /\ Pageless
    \/ scenario = "observe" /\ Observe!ObserveInit
MCNext ==
    /\ UNCHANGED scenario
    /\ \/ scenario = "center" /\ Next /\ UNCHANGED pageVars
       \/ scenario = "race" /\ Race!Next /\ UNCHANGED pageVars
       \/ scenario = "polar" /\ Polar!Next /\ UNCHANGED pageVars
       \/ scenario = "lunar" /\ Lunar!Next /\ UNCHANGED pageVars
       \/ scenario = "frugal" /\ Frugal!Next /\ UNCHANGED pageVars
       \/ scenario = "observe" /\ Observe!ObserveNext
MCSpec == MCInit /\ [][MCNext]_<<scenario, observeVars>>
=============================================================================
