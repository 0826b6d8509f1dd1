---------------------------- MODULE ControlLease ----------------------------
(***************************************************************************)
(* The exclusive control lease of the observatory origin: the five control  *)
(* commands (persistence/control-sqlite-repository.ts), the lease state and *)
(* its reconnect grace (persistence/state-sqlite-repository.ts) and the     *)
(* in-memory stream counts and 250 ms poll that drive them                  *)
(* (services/projection-publication.ts).                                    *)
(*                                                                          *)
(* Every handler runs in one tick of the event loop on a synchronous        *)
(* database, so a handler is one action.  What interleaves is the handlers, *)
(* the clock, the loss of the process, and the publisher, a second process  *)
(* that writes the same database file.                                      *)
(***************************************************************************)
EXTENDS Naturals, FiniteSets

CONSTANTS
  Clients,        \* client ids known to admission
  Owners,         \* the clients whose membership role is owner
  ReadOnly,       \* the clients admitted with the readOnly capability
  NoClient,       \* leaseHolder = null
  Keys,           \* idempotency keys a client uses
  NoReceipt,      \* no row in control_command_receipts
  PublisherRuns,  \* whether the publisher process shares the database
  MaxRevision,    \* bound: no command is accepted at this revision
  MaxRequests,    \* bound: control requests ever created
  MaxStreams,     \* bound: projection streams open per client
  MaxRestarts     \* bound: how often the process is lost

ASSUME LeaseAssumption ==
  /\ Owners \subseteq Clients
  /\ ReadOnly \subseteq Clients
  /\ NoClient \notin Clients
  /\ PublisherRuns \in BOOLEAN
  /\ MaxRevision \in Nat
  /\ MaxRequests \in Nat
  /\ MaxStreams \in Nat
  /\ MaxRestarts \in Nat

VARIABLES
  lease,        \* leaseHolder, leaseRevision, leaseState, reconnectGraceUntil
  requests,     \* rows of control_requests
  nextRequest,  \* the next request id (randomUUID: never used before)
  receipts,     \* control_command_receipts: the command stored under a key
  applied,      \* history: how often a keyed command took effect
  streams,      \* controllerStreams of the running process
  polling,      \* whether the poll fiber of the running process is alive
  restarts      \* processes lost so far

stored == <<lease, requests, nextRequest, receipts, applied>>
process == <<streams, polling, restarts>>
vars == <<stored, process>>

-----------------------------------------------------------------------------
(* Commands.  A command carries the lease revision its sender last saw; the *)
(* set of commands a client may deliver contains every stale, repeated and  *)
(* reordered one.                                                           *)

Revisions == 0 .. MaxRevision
RequestIds == 1 .. MaxRequests

Plain == [type : {"RequestControl", "ReleaseControl", "TakeControl"},
          key : Keys, expected : Revisions]
Decline == [type : {"DeclineControl"}, key : Keys, expected : Revisions,
            request : RequestIds]
Grant == [type : {"GrantControl"}, key : Keys, expected : Revisions,
          request : RequestIds, target : Clients]
Commands == Plain \cup Decline \cup Grant

ASSUME ReceiptAssumption == NoReceipt \notin Commands

Lease == [holder : Clients \cup {NoClient}, revision : Nat,
          state : {"unheld", "held", "reconnecting"},
          grace : {"none", "running", "elapsed"}]
Request == [id : Nat, client : Clients, due : BOOLEAN]

TypeOK ==
  /\ lease \in Lease
  /\ requests \subseteq Request
  /\ nextRequest \in Nat
  /\ receipts \in [Keys \X Clients -> Commands \cup {NoReceipt}]
  /\ applied \in [Keys \X Clients -> Nat]
  /\ streams \in [Clients -> Nat]
  /\ polling \in BOOLEAN
  /\ restarts \in Nat

Init ==
  /\ lease = [holder |-> NoClient, revision |-> 0, state |-> "unheld",
              grace |-> "none"]
  /\ requests = {}
  /\ nextRequest = 1
  /\ receipts = [kc \in Keys \X Clients |-> NoReceipt]
  /\ applied = [kc \in Keys \X Clients |-> 0]
  /\ streams = [c \in Clients |-> 0]
  /\ polling = TRUE
  /\ restarts = 0

-----------------------------------------------------------------------------
(* Mutants: the expiry leaves its deadline behind, or the revision alone.    *)
ExpiredKeepsDeadline(l) ==
  IF l.state = "reconnecting" /\ l.grace = "elapsed"
  THEN [l EXCEPT !.holder = NoClient, !.revision = @ + 1, !.state = "unheld"]
  ELSE l

ExpiredQuietly(l) ==
  IF l.state = "reconnecting" /\ l.grace = "elapsed"
  THEN [l EXCEPT !.holder = NoClient, !.state = "unheld", !.grace = "none"]
  ELSE l

(* expireReconnectGrace: the lease after an elapsed grace was noticed.      *)
Expired(l) ==
  IF l.state = "reconnecting" /\ l.grace = "elapsed"
  THEN [holder |-> NoClient, revision |-> l.revision + 1,
        state |-> "unheld", grace |-> "none"]
  ELSE l

(* expireControlRequests, run by every read of the state.                   *)
Live(reqs) == {r \in reqs : ~r.due}

(* The columns a control command commits, whatever the command: the state   *)
(* is derived from the holder and the grace is always cleared.              *)
Committed(h, rev) ==
  [holder |-> h, revision |-> rev,
   state |-> IF h = NoClient THEN "unheld" ELSE "held", grace |-> "none"]

(* Mutants: the capability, or the receipt, is not looked at.                *)
AdmittedReadOnly(c, m, l) ==
  receipts[<<m.key, c>>] = NoReceipt /\ m.expected = l.revision

AdmittedAgain(c, m, l) == c \notin ReadOnly /\ m.expected = l.revision

(* The guards every command passes before its own: no receipt under its key, *)
(* a control-capable sender and the current lease revision.                  *)
Admitted(c, m, l) ==
  /\ receipts[<<m.key, c>>] = NoReceipt
  /\ c \notin ReadOnly
  /\ m.expected = l.revision

(* Mutant: anyone may take control, as long as the revision is current.      *)
AcceptsAnyTake(c, m, l, live) ==
  /\ Admitted(c, m, l)
  /\ m.type \in {"GrantControl", "DeclineControl"} => c \in Owners
  /\ m.type = "ReleaseControl" => l.holder = c
  /\ m.type = "RequestControl" =>
       l.holder # c /\ \A r \in live : r.client # c
  /\ m.type = "GrantControl" =>
       \E r \in live : r.id = m.request /\ r.client = m.target
  /\ m.type = "DeclineControl" => \E r \in live : r.id = m.request

Accepts(c, m, l, live) ==
  /\ Admitted(c, m, l)
  /\ m.type \in {"GrantControl", "DeclineControl", "TakeControl"} => c \in Owners
  /\ m.type = "ReleaseControl" => l.holder = c
  /\ m.type = "RequestControl" =>
       l.holder # c /\ \A r \in live : r.client # c
  /\ m.type = "GrantControl" =>
       \E r \in live : r.id = m.request /\ r.client = m.target
  /\ m.type = "DeclineControl" => \E r \in live : r.id = m.request

(* The receipt is written in the transaction that applies the command.      *)
Record(c, m) ==
  /\ receipts' = [receipts EXCEPT ![<<m.key, c>>] = m]
  /\ applied' = [applied EXCEPT ![<<m.key, c>>] = @ + 1]

(* A request leaves holder and revision alone and inserts a row.            *)
RequestControl(c, m) ==
  LET l == Expired(lease)
      live == Live(requests)
  IN /\ m.type = "RequestControl"
     /\ nextRequest <= MaxRequests
     /\ Accepts(c, m, l, live)
     /\ requests' = live \cup {[id |-> nextRequest, client |-> c, due |-> FALSE]}
     /\ nextRequest' = nextRequest + 1
     /\ lease' = Committed(l.holder, l.revision)
     /\ Record(c, m)
     /\ UNCHANGED process

DeclineControl(c, m) ==
  LET l == Expired(lease)
      live == Live(requests)
  IN /\ m.type = "DeclineControl"
     /\ Accepts(c, m, l, live)
     /\ requests' = {r \in live : r.id # m.request}
     /\ lease' = Committed(l.holder, l.revision)
     /\ Record(c, m)
     /\ UNCHANGED <<nextRequest, process>>

(* Mutant: moving the lease leaves the pending requests.                     *)
MoveLeaseKeepsRequests(c, m, h) ==
  LET l == Expired(lease)
      live == Live(requests)
  IN /\ l.revision < MaxRevision
     /\ Accepts(c, m, l, live)
     /\ requests' = live
     /\ lease' = Committed(h, l.revision + 1)
     /\ Record(c, m)
     /\ UNCHANGED <<nextRequest, process>>

(* Grant, release and take move the lease, advance its revision and drop    *)
(* every pending request.                                                   *)
MoveLease(c, m, h) ==
  LET l == Expired(lease)
      live == Live(requests)
  IN /\ l.revision < MaxRevision
     /\ Accepts(c, m, l, live)
     /\ requests' = {}
     /\ lease' = Committed(h, l.revision + 1)
     /\ Record(c, m)
     /\ UNCHANGED <<nextRequest, process>>

GrantControl(c, m) == m.type = "GrantControl" /\ MoveLease(c, m, m.target)
ReleaseControl(c, m) == m.type = "ReleaseControl" /\ MoveLease(c, m, NoClient)
TakeControl(c, m) == m.type = "TakeControl" /\ MoveLease(c, m, c)

(* A known key is answered from its receipt (the same command) or refused   *)
(* (another one): either way only the grace expiry has run.                 *)
AnswerFromReceipt(c, m) ==
  /\ receipts[<<m.key, c>>] # NoReceipt
  /\ lease' = Expired(lease)
  /\ UNCHANGED <<requests, nextRequest, receipts, applied, process>>

(* A refused command still expired the grace and the overdue requests.      *)
Refuse(c, m) ==
  /\ receipts[<<m.key, c>>] = NoReceipt
  /\ ~Accepts(c, m, Expired(lease), Live(requests))
  /\ lease' = Expired(lease)
  /\ requests' = Live(requests)
  /\ UNCHANGED <<nextRequest, receipts, applied, process>>

-----------------------------------------------------------------------------
(* Streams.  Only the first stream of a client connects it and only the     *)
(* last one disconnects it.                                                 *)

Connected(c, l) ==
  IF l.holder = c /\ l.state = "reconnecting"
  THEN [l EXCEPT !.state = "held", !.grace = "none"]
  ELSE l

Disconnected(c, l) ==
  IF l.holder = c /\ l.state = "held"
  THEN [l EXCEPT !.state = "reconnecting", !.grace = "running"]
  ELSE l

OpenStream(c) ==
  /\ streams[c] < MaxStreams
  /\ streams' = [streams EXCEPT ![c] = @ + 1]
  /\ lease' = IF streams[c] = 0 THEN Connected(c, lease) ELSE lease
  /\ requests' = Live(requests)
  /\ UNCHANGED <<nextRequest, receipts, applied, polling, restarts>>

(* Mutants: the finalizer runs twice; every closed stream disconnects.       *)
CloseStreamTwice(c) ==
  /\ streams' = [streams EXCEPT ![c] = @ - 1]
  /\ lease' = IF streams[c] = 1 THEN Disconnected(c, lease) ELSE lease
  /\ requests' = IF streams[c] = 1 THEN Live(requests) ELSE requests
  /\ UNCHANGED <<nextRequest, receipts, applied, polling, restarts>>

CloseAnyStream(c) ==
  /\ streams[c] > 0
  /\ streams' = [streams EXCEPT ![c] = @ - 1]
  /\ lease' = Disconnected(c, lease)
  /\ requests' = Live(requests)
  /\ UNCHANGED <<nextRequest, receipts, applied, polling, restarts>>

CloseStream(c) ==
  /\ streams[c] > 0
  /\ streams' = [streams EXCEPT ![c] = @ - 1]
  /\ lease' = IF streams[c] = 1 THEN Disconnected(c, lease) ELSE lease
  /\ requests' = IF streams[c] = 1 THEN Live(requests) ELSE requests
  /\ UNCHANGED <<nextRequest, receipts, applied, polling, restarts>>

(* Mutant: the poll only reads the cursor.                                   *)
PollCursor ==
  /\ polling
  /\ requests' = Live(requests)
  /\ UNCHANGED <<lease, nextRequest, receipts, applied, process>>

(* The poll fiber: expire the grace, then read the cursor (and so purge).    *)
Poll ==
  /\ polling
  /\ lease' = Expired(lease)
  /\ requests' = Live(requests)
  /\ UNCHANGED <<nextRequest, receipts, applied, process>>

-----------------------------------------------------------------------------
(* The environment: clocks, the loss of the process, the second writer.     *)

GraceElapses ==
  /\ lease.grace = "running"
  /\ lease' = [lease EXCEPT !.grace = "elapsed"]
  /\ UNCHANGED <<requests, nextRequest, receipts, applied, process>>

RequestElapses ==
  \E r \in Live(requests) :
    /\ requests' = (requests \ {r}) \cup {[r EXCEPT !.due = TRUE]}
    /\ UNCHANGED <<lease, nextRequest, receipts, applied, process>>

(* The process dies and starts again: the stream counts are gone and no     *)
(* finalizer ran; the start-up writes INSERT OR IGNORE leave the rows alone. *)
Restart ==
  /\ restarts < MaxRestarts
  /\ restarts' = restarts + 1
  /\ streams' = [c \in Clients |-> 0]
  /\ polling' = TRUE
  /\ UNCHANGED stored

(* The origin opens the database without busy_timeout, and every state()     *)
(* runs a DELETE.  While the publisher holds the write lock that throws: in  *)
(* the poll fiber it is a defect that ends the fiber, before or after the    *)
(* expiry has committed.                                                     *)
PollDies ==
  /\ PublisherRuns
  /\ polling
  /\ polling' = FALSE
  /\ lease' \in {lease, Expired(lease)}
  /\ UNCHANGED <<requests, nextRequest, receipts, applied, streams, restarts>>

(* In the finalizer of the last stream it is thrown after the count was      *)
(* deleted: the lease keeps its state.                                       *)
CloseStreamBusy(c) ==
  /\ PublisherRuns
  /\ streams[c] = 1
  /\ streams' = [streams EXCEPT ![c] = 0]
  /\ requests' \in {requests, Live(requests)}
  /\ UNCHANGED <<lease, nextRequest, receipts, applied, polling, restarts>>

Command(c) ==
  \E m \in Commands :
    \/ RequestControl(c, m)
    \/ DeclineControl(c, m)
    \/ GrantControl(c, m)
    \/ ReleaseControl(c, m)
    \/ TakeControl(c, m)
    \/ AnswerFromReceipt(c, m)
    \/ Refuse(c, m)

Next ==
  \/ \E c \in Clients :
       \/ Command(c)
       \/ OpenStream(c)
       \/ CloseStream(c)
       \/ CloseStreamBusy(c)
  \/ Poll
  \/ GraceElapses
  \/ RequestElapses
  \/ Restart
  \/ PollDies

(* Time passes and a living poll fiber keeps polling; nothing else is fair: *)
(* clients need not come back and nobody has to send a command.             *)
Fairness == WF_vars(GraceElapses) /\ WF_vars(Poll)

Spec == Init /\ [][Next]_vars /\ Fairness

-----------------------------------------------------------------------------
(* The stored columns agree: no holder exactly when unheld, and a grace     *)
(* deadline exactly while reconnecting.  Seven handlers write subsets of    *)
(* these columns; one that forgets a column leaves a lease nobody can       *)
(* expire, or one that expires under a present controller.                  *)
LeaseCoherent ==
  /\ lease.holder = NoClient <=> lease.state = "unheld"
  /\ lease.state = "reconnecting" <=> lease.grace # "none"

(* control_requests holds at most one request per client, under distinct    *)
(* ids already issued, and never one of the current holder: an owner cannot *)
(* grant a request whose author has taken control some other way since.     *)
RequestsExclusive ==
  /\ \A r \in requests : r.client # lease.holder /\ r.id < nextRequest
  /\ \A r, s \in requests : r.client = s.client \/ r.id = s.id => r = s

(* A read-only client (every phone, the owner's included) never holds the   *)
(* lease and never has a request that could be granted (product-spec.md,    *)
(* "cannot request or hold the control lease").                             *)
ReadOnlyNeverControls ==
  /\ lease.holder \notin ReadOnly
  /\ \A r \in requests : r.client \notin ReadOnly

(* However often, late or out of order a command with one idempotency key   *)
(* is delivered, and across restarts, it takes effect at most once, and     *)
(* exactly when its receipt says so.                                        *)
AppliedOnce ==
  \A kc \in Keys \X Clients :
    applied[kc] = IF receipts[kc] = NoReceipt THEN 0 ELSE 1

(* Control never moves silently (product-spec.md, Identity, Presence, And   *)
(* Control): a new holder needs an owner's command in that very step; losing *)
(* the holder needs that, the holder's own command, or a grace that ran out. *)
Spoke(c) == \E k \in Keys : receipts'[<<k, c>>] # receipts[<<k, c>>]

ControlNeverMovesSilently ==
  [][lease'.holder # lease.holder =>
       \/ \E o \in Owners : Spoke(o)
       \/ /\ lease'.holder = NoClient
          /\ \/ lease.holder \in Clients /\ Spoke(lease.holder)
             \/ lease.state = "reconnecting" /\ lease.grace = "elapsed"]_vars

(* The lease implements the fenced lease: the holder never changes without  *)
(* the revision growing, so a revision identifies the holder it was read    *)
(* with, even when an expiry and a take-over share one handler.             *)
Fence == INSTANCE FencedLease WITH holder <- lease.holder, term <- lease.revision
FencedSpec == Fence!LeaseSpec

(* The grace only runs while its controller has no stream: a second tab     *)
(* that closes, or one that opens first, never makes a present controller   *)
(* lose the lease.                                                          *)
GraceOnlyWhileAbsent ==
  lease.state = "reconnecting" => streams[lease.holder] = 0

(* A reconnect grace always ends: the controller returns or the lease is    *)
(* released (gate-05-scenarios.md LEASE-03).                                *)
ReconnectGraceEnds ==
  (lease.state = "reconnecting") ~> (lease.state # "reconnecting")

(* A controller that was present and never returns loses the lease          *)
(* (gate-05-scenarios.md LEASE-03, "expiry releases to no controller").     *)
LostControllerReleased ==
  \A c \in Clients :
    <>[](streams[c] = 0)
      => [](lease.holder = c /\ streams[c] > 0 => <>(lease.holder # c))

(* The lease in one moment: it keeps its shape, its columns agree, a request *)
(* is its client's only one and never the holder's, no read-only client      *)
(* controls, and a grace runs only against a client without a stream         *)
(* (acceptControl, connect and disconnect, expireReconnectGrace).            *)
LeaseIsSound ==
  /\ TypeOK /\ LeaseCoherent /\ RequestsExclusive
  /\ ReadOnlyNeverControls /\ GraceOnlyWhileAbsent

(* Control moves by the commands of a fenced lease alone: by an owner's, by  *)
(* the holder's, or by an elapsed grace, each time to a newer revision       *)
(* (acceptControl, expireReconnectGrace).                                    *)
ControlIsFenced == FencedSpec /\ ControlNeverMovesSilently
=============================================================================
