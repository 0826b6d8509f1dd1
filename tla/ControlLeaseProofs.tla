------------------------- MODULE ControlLeaseProofs -------------------------
(***************************************************************************)
(* The safety properties of ControlLease for every set of clients, every    *)
(* set of idempotency keys and every bound.                                 *)
(***************************************************************************)
EXTENDS ControlLease, TLAPS

-----------------------------------------------------------------------------
(* What the helpers do to a well-typed lease.                               *)

LEMMA ExpiredType ==
  ASSUME NEW l \in Lease
  PROVE  Expired(l) \in Lease
BY LeaseAssumption DEF Expired, Lease

LEMMA CommittedType ==
  ASSUME NEW h \in Clients \cup {NoClient}, NEW rev \in Nat
  PROVE  Committed(h, rev) \in Lease
BY LeaseAssumption DEF Committed, Lease

LEMMA StreamType ==
  ASSUME NEW l \in Lease, NEW c \in Clients
  PROVE  Connected(c, l) \in Lease /\ Disconnected(c, l) \in Lease
BY DEF Connected, Disconnected, Lease

(* Type correctness is inductive by itself.                                 *)
LEMMA TypeStep == TypeOK /\ [Next]_vars => TypeOK'
<1> SUFFICES ASSUME TypeOK, [Next]_vars PROVE TypeOK'
  OBVIOUS
<1> USE LeaseAssumption
<1>a. Expired(lease) \in Lease
  BY ExpiredType DEF TypeOK
<1>b. Live(requests) \subseteq Request
  BY DEF TypeOK, Live
<1>c. ASSUME NEW c \in Clients, NEW m \in Commands, Record(c, m)
      PROVE  /\ receipts' \in [Keys \X Clients -> Commands \cup {NoReceipt}]
             /\ applied' \in [Keys \X Clients -> Nat]
  <2>1. m.key \in Keys
    BY DEF Commands, Plain, Decline, Grant
  <2> QED BY <1>c, <2>1 DEF TypeOK, Record
<1>d. Expired(lease).holder \in Clients \cup {NoClient} /\ Expired(lease).revision \in Nat
  BY <1>a DEF Lease
<1>1. ASSUME NEW c \in Clients, NEW m \in Commands, RequestControl(c, m) PROVE TypeOK'
  <2>1. lease' \in Lease
    BY <1>1, <1>d, CommittedType DEF RequestControl
  <2>2. [id |-> nextRequest, client |-> c, due |-> FALSE] \in Request
    BY DEF TypeOK, Request
  <2>3. requests' \subseteq Request
    BY <1>1, <1>b, <2>2, Zenon DEF RequestControl
  <2>4. nextRequest' \in Nat
    BY <1>1 DEF RequestControl, TypeOK
  <2> QED BY <1>1, <1>c, <2>1, <2>3, <2>4 DEF RequestControl, TypeOK, process
<1>2. ASSUME NEW c \in Clients, NEW m \in Commands, DeclineControl(c, m) PROVE TypeOK'
  <2>1. lease' \in Lease
    BY <1>2, <1>d, CommittedType DEF DeclineControl
  <2>2. requests' \subseteq Request
    BY <1>2, <1>b DEF DeclineControl
  <2> QED BY <1>2, <1>c, <2>1, <2>2 DEF DeclineControl, TypeOK, process
<1>3. ASSUME NEW c \in Clients, NEW m \in Commands, NEW h \in Clients \cup {NoClient},
             MoveLease(c, m, h)
      PROVE  TypeOK'
  <2>1. lease' \in Lease
    BY <1>3, <1>d, CommittedType DEF MoveLease
  <2> QED BY <1>3, <1>c, <2>1 DEF MoveLease, TypeOK, process
<1>4. ASSUME NEW c \in Clients, NEW m \in Commands, GrantControl(c, m) PROVE TypeOK'
  <2>1. m.target \in Clients
    BY <1>4 DEF GrantControl, Commands, Plain, Decline, Grant
  <2> QED BY <1>3, <1>4, <2>1 DEF GrantControl
<1>5. ASSUME NEW c \in Clients, NEW m \in Commands, ReleaseControl(c, m) PROVE TypeOK'
  BY <1>3, <1>5 DEF ReleaseControl
<1>6. ASSUME NEW c \in Clients, NEW m \in Commands, TakeControl(c, m) PROVE TypeOK'
  BY <1>3, <1>6 DEF TakeControl
<1>7. ASSUME NEW c \in Clients, NEW m \in Commands,
             AnswerFromReceipt(c, m) \/ Refuse(c, m)
      PROVE  TypeOK'
  BY <1>7, <1>a, <1>b DEF AnswerFromReceipt, Refuse, TypeOK, process
<1>8. ASSUME NEW c \in Clients, OpenStream(c) PROVE TypeOK'
  BY <1>8, <1>b, StreamType DEF OpenStream, TypeOK
<1>9. ASSUME NEW c \in Clients, CloseStream(c) PROVE TypeOK'
  BY <1>9, <1>b, StreamType DEF CloseStream, TypeOK
<1>10. ASSUME NEW c \in Clients, CloseStreamBusy(c) PROVE TypeOK'
  BY <1>10, <1>b DEF CloseStreamBusy, TypeOK
<1>11. CASE Poll \/ PollDies
  BY <1>11, <1>a, <1>b DEF Poll, PollDies, TypeOK, process
<1>12. CASE GraceElapses
  <2>1. lease' \in Lease
    BY <1>12 DEF GraceElapses, TypeOK, Lease
  <2> QED BY <1>12, <2>1 DEF GraceElapses, TypeOK, process
<1>13. CASE RequestElapses
  <2>1. PICK r \in Live(requests) :
          requests' = (requests \ {r}) \cup {[r EXCEPT !.due = TRUE]}
    BY <1>13 DEF RequestElapses
  <2>2. [r EXCEPT !.due = TRUE] \in Request
    BY <1>b DEF Request
  <2> QED BY <1>13, <2>1, <2>2 DEF RequestElapses, TypeOK, process
<1>14. CASE Restart
  BY <1>14 DEF Restart, TypeOK, stored
<1>15. CASE UNCHANGED vars
  BY <1>15 DEF vars, stored, process, TypeOK
<1> QED
  BY <1>1, <1>2, <1>4, <1>5, <1>6, <1>7, <1>8, <1>9, <1>10, <1>11, <1>12, <1>13,
     <1>14, <1>15 DEF Next, Command

(* Every reachable state is well typed.                                     *)
THEOREM TypeCorrect == Spec => []TypeOK
<1>1. Init => TypeOK
  BY LeaseAssumption DEF Init, TypeOK, Lease, Request
<1> QED BY <1>1, TypeStep, PTL DEF Spec

-----------------------------------------------------------------------------
(* What a step may do to the lease.  Every step that is not a control       *)
(* command leaves the columns as the expiry, a stream or the clock does.    *)
LEMMA LeaseStep ==
  ASSUME [Next]_vars
  PROVE  \/ lease' \in {lease, Expired(lease)}
         \/ \E h, rev : lease' = Committed(h, rev)
         \/ \E c \in Clients : lease' \in {Connected(c, lease), Disconnected(c, lease)}
         \/ lease.grace = "running" /\ lease' = [lease EXCEPT !.grace = "elapsed"]
<1>1. ASSUME NEW c \in Clients, NEW m \in Commands, RequestControl(c, m)
      PROVE  \E h, rev : lease' = Committed(h, rev)
  BY <1>1 DEF RequestControl
<1>2. ASSUME NEW c \in Clients, NEW m \in Commands, DeclineControl(c, m)
      PROVE  \E h, rev : lease' = Committed(h, rev)
  BY <1>2 DEF DeclineControl
<1>3. ASSUME NEW c \in Clients, NEW m \in Commands,
             GrantControl(c, m) \/ ReleaseControl(c, m) \/ TakeControl(c, m)
      PROVE  \E h, rev : lease' = Committed(h, rev)
  BY <1>3 DEF GrantControl, ReleaseControl, TakeControl, MoveLease
<1>4. ASSUME NEW c \in Clients, NEW m \in Commands,
             AnswerFromReceipt(c, m) \/ Refuse(c, m)
      PROVE  lease' = Expired(lease)
  BY <1>4 DEF AnswerFromReceipt, Refuse
<1>5. ASSUME NEW c \in Clients, OpenStream(c) \/ CloseStream(c) \/ CloseStreamBusy(c)
      PROVE  lease' \in {lease, Connected(c, lease), Disconnected(c, lease)}
  BY <1>5 DEF OpenStream, CloseStream, CloseStreamBusy
<1>6. CASE Poll \/ PollDies
  BY <1>6 DEF Poll, PollDies
<1>7. CASE GraceElapses
  BY <1>7 DEF GraceElapses
<1>8. CASE RequestElapses \/ Restart \/ UNCHANGED vars
  BY <1>8 DEF RequestElapses, Restart, stored, vars
<1> QED
  BY <1>1, <1>2, <1>3, <1>4, <1>5, <1>6, <1>7, <1>8 DEF Next, Command

(* The columns of the lease agree in every reachable state.                 *)
THEOREM LeaseIsCoherent == Spec => []LeaseCoherent
<1>1. Init => LeaseCoherent
  BY DEF Init, LeaseCoherent
<1>2. TypeOK /\ LeaseCoherent /\ [Next]_vars => LeaseCoherent'
  <2> SUFFICES ASSUME TypeOK, LeaseCoherent, [Next]_vars PROVE LeaseCoherent'
    OBVIOUS
  <2> USE LeaseAssumption DEF LeaseCoherent
  <2>1. lease \in Lease
    BY DEF TypeOK
  <2>2. CASE lease' \in {lease, Expired(lease)}
    BY <2>1, <2>2 DEF Expired, Lease
  <2>3. ASSUME NEW h, NEW rev, lease' = Committed(h, rev) PROVE LeaseCoherent'
    BY <2>3 DEF Committed
  <2>4. ASSUME NEW c \in Clients, lease' = Connected(c, lease) PROVE LeaseCoherent'
    BY <2>1, <2>4 DEF Connected, Lease
  <2>5. ASSUME NEW c \in Clients, lease' = Disconnected(c, lease) PROVE LeaseCoherent'
    BY <2>1, <2>5 DEF Disconnected, Lease
  <2>6. CASE lease.grace = "running" /\ lease' = [lease EXCEPT !.grace = "elapsed"]
    BY <2>1, <2>6 DEF Lease
  <2> QED BY <2>2, <2>3, <2>4, <2>5, <2>6, LeaseStep
<1> QED BY <1>1, <1>2, TypeCorrect, PTL DEF Spec

-----------------------------------------------------------------------------
(* The holder after a step that is not a grant, a release or a take-over.   *)
LEMMA HolderKept ==
  ASSUME TypeOK, NEW c \in Clients
  PROVE  /\ Expired(lease).holder \in {lease.holder, NoClient}
         /\ Connected(c, lease).holder = lease.holder
         /\ Disconnected(c, lease).holder = lease.holder
         /\ Committed(Expired(lease).holder, Expired(lease).revision).holder
              \in {lease.holder, NoClient}
BY DEF TypeOK, Lease, Expired, Connected, Disconnected, Committed

(* What a step may do to the pending requests and to the holder: drop all   *)
(* of them, purge or resolve some, create one, or let one become overdue.   *)
LEMMA RequestStep ==
  ASSUME TypeOK, [Next]_vars
  PROVE  \/ requests' = {}
         \/ /\ requests' \subseteq requests
            /\ nextRequest' = nextRequest
            /\ lease'.holder \in {lease.holder, NoClient}
         \/ \E c \in Clients \ ReadOnly :
              /\ requests' = Live(requests)
                               \cup {[id |-> nextRequest, client |-> c, due |-> FALSE]}
              /\ nextRequest' = nextRequest + 1
              /\ lease'.holder \in {lease.holder, NoClient} \ {c}
              /\ \A r \in Live(requests) : r.client # c
         \/ \E r \in requests :
              /\ requests' = (requests \ {r}) \cup {[r EXCEPT !.due = TRUE]}
              /\ nextRequest' = nextRequest
              /\ lease' = lease
<1> USE LeaseAssumption
<1> DEFINE Shrinks == /\ requests' \subseteq requests
                      /\ nextRequest' = nextRequest
                      /\ lease'.holder \in {lease.holder, NoClient}
<1>0. Live(requests) \subseteq requests
  BY DEF Live
<1>1. ASSUME NEW c \in Clients, NEW m \in Commands, RequestControl(c, m)
      PROVE  /\ c \notin ReadOnly
             /\ requests' = Live(requests)
                              \cup {[id |-> nextRequest, client |-> c, due |-> FALSE]}
             /\ nextRequest' = nextRequest + 1
             /\ lease'.holder \in {lease.holder, NoClient} \ {c}
             /\ \A r \in Live(requests) : r.client # c
  <2>1. /\ m.type = "RequestControl"
        /\ Accepts(c, m, Expired(lease), Live(requests))
        /\ lease' = Committed(Expired(lease).holder, Expired(lease).revision)
        /\ requests' = Live(requests)
                         \cup {[id |-> nextRequest, client |-> c, due |-> FALSE]}
        /\ nextRequest' = nextRequest + 1
    BY <1>1 DEF RequestControl
  <2>2. /\ c \notin ReadOnly
        /\ Expired(lease).holder # c
        /\ \A r \in Live(requests) : r.client # c
    BY <2>1 DEF Accepts, Admitted
  <2>3. lease'.holder = Expired(lease).holder
    BY <2>1 DEF Committed
  <2> QED BY <2>1, <2>2, <2>3, HolderKept
<1>2. ASSUME NEW c \in Clients, NEW m \in Commands, DeclineControl(c, m) PROVE Shrinks
  BY <1>0, <1>2, HolderKept DEF DeclineControl
<1>3. ASSUME NEW c \in Clients, NEW m \in Commands,
             GrantControl(c, m) \/ ReleaseControl(c, m) \/ TakeControl(c, m)
      PROVE  requests' = {}
  BY <1>3 DEF GrantControl, ReleaseControl, TakeControl, MoveLease
<1>4. ASSUME NEW c \in Clients, NEW m \in Commands,
             AnswerFromReceipt(c, m) \/ Refuse(c, m)
      PROVE  Shrinks
  BY <1>0, <1>4, HolderKept DEF AnswerFromReceipt, Refuse
<1>5. ASSUME NEW c \in Clients, OpenStream(c) \/ CloseStream(c) \/ CloseStreamBusy(c)
      PROVE  Shrinks
  BY <1>0, <1>5, HolderKept DEF OpenStream, CloseStream, CloseStreamBusy
<1>6. CASE Poll \/ PollDies
  <2>1. lease' \in {lease, Expired(lease)} /\ Shrinks!1 /\ Shrinks!2
    BY <1>0, <1>6 DEF Poll, PollDies
  <2>2. Expired(lease).holder \in {lease.holder, NoClient}
    BY DEF TypeOK, Lease, Expired
  <2> QED BY <2>1, <2>2
<1>7. CASE GraceElapses
  BY <1>7 DEF GraceElapses, TypeOK, Lease
<1>8. CASE RequestElapses
  BY <1>0, <1>8 DEF RequestElapses
<1>9. CASE Restart \/ UNCHANGED vars
  BY <1>9 DEF Restart, stored, vars
<1> QED
  BY <1>1, <1>2, <1>3, <1>4, <1>5, <1>6, <1>7, <1>8, <1>9 DEF Next, Command

(* No pending request is the holder's, no client has two, ids are unique.   *)
THEOREM RequestsAreExclusive == Spec => []RequestsExclusive
<1>1. Init => RequestsExclusive
  BY DEF Init, RequestsExclusive
<1>2. TypeOK /\ RequestsExclusive /\ [Next]_vars => RequestsExclusive'
  <2> SUFFICES ASSUME TypeOK, RequestsExclusive, [Next]_vars PROVE RequestsExclusive'
    OBVIOUS
  <2> USE LeaseAssumption
  <2>1. \A r \in requests : /\ r \in Request /\ r.client \in Clients
                            /\ r.client # NoClient /\ r.id \in Nat
    BY DEF TypeOK, Request
  <2>2. CASE requests' = {}
    BY <2>2 DEF RequestsExclusive
  <2>3. CASE /\ requests' \subseteq requests
             /\ nextRequest' = nextRequest
             /\ lease'.holder \in {lease.holder, NoClient}
    BY <2>1, <2>3 DEF RequestsExclusive
  <2>4. ASSUME NEW c \in Clients,
               requests' = Live(requests)
                             \cup {[id |-> nextRequest, client |-> c, due |-> FALSE]},
               nextRequest' = nextRequest + 1,
               lease'.holder \in {lease.holder, NoClient} \ {c},
               \A r \in Live(requests) : r.client # c
        PROVE  RequestsExclusive'
    <3>1. \A r \in Live(requests) :
            r \in requests /\ r.client # lease'.holder /\ r.id < nextRequest
      BY <2>1, <2>4 DEF RequestsExclusive, Live
    <3> DEFINE new == [id |-> nextRequest, client |-> c, due |-> FALSE]
    <3>2. new.id = nextRequest /\ new.client = c
      OBVIOUS
    <3>3. requests' = Live(requests) \cup {new}
      BY <2>4
    <3> HIDE DEF new
    <3>4. nextRequest \in Nat
      BY DEF TypeOK
    <3>5. \A r \in requests' : r.client # lease'.holder /\ r.id < nextRequest'
      BY <2>1, <2>4, <3>1, <3>2, <3>3, <3>4
    <3>6. \A r \in Live(requests) : r.client # new.client /\ r.id # new.id
      BY <2>1, <2>4, <3>1, <3>2, <3>4
    <3>7. \A r, t \in Live(requests) : r.client = t.client \/ r.id = t.id => r = t
      BY <3>1 DEF RequestsExclusive
    <3>8. \A r, t \in requests' : r.client = t.client \/ r.id = t.id => r = t
      BY <3>3, <3>6, <3>7
    <3> QED BY <3>5, <3>8 DEF RequestsExclusive
  <2>5. ASSUME NEW r \in requests,
               requests' = (requests \ {r}) \cup {[r EXCEPT !.due = TRUE]},
               nextRequest' = nextRequest,
               lease' = lease
        PROVE  RequestsExclusive'
    <3> DEFINE overdue == [r EXCEPT !.due = TRUE]
    <3>1. overdue.id = r.id /\ overdue.client = r.client
      BY <2>1 DEF Request
    <3>2. requests' = (requests \ {r}) \cup {overdue}
      BY <2>5
    <3> HIDE DEF overdue
    <3> QED BY <2>5, <3>1, <3>2 DEF RequestsExclusive
  <2> QED BY <2>2, <2>3, <2>4, <2>5, RequestStep
<1> QED BY <1>1, <1>2, TypeCorrect, PTL DEF Spec

-----------------------------------------------------------------------------
(* How the holder may change: a grace that ran out, an owner that takes     *)
(* control or grants a pending request, or a holder that releases it.       *)
LEMMA HolderStep ==
  ASSUME TypeOK, [Next]_vars
  PROVE  \/ lease'.holder = lease.holder
         \/ /\ lease'.holder = NoClient
            /\ lease.state = "reconnecting" /\ lease.grace = "elapsed"
         \/ \E c \in Clients, m \in Commands :
              /\ receipts[<<m.key, c>>] = NoReceipt
              /\ Record(c, m)
              /\ \/ c \in Owners /\ lease'.holder = c /\ c \notin ReadOnly
                 \/ c \in Owners /\ \E r \in requests : lease'.holder = r.client
                 \/ c = lease.holder /\ lease'.holder = NoClient
<1> USE LeaseAssumption
<1> DEFINE KeptOrExpired ==
             \/ lease'.holder = lease.holder
             \/ /\ lease'.holder = NoClient
                /\ lease.state = "reconnecting" /\ lease.grace = "elapsed"
<1>0. \/ Expired(lease).holder = lease.holder
      \/ /\ Expired(lease).holder = NoClient
         /\ lease.state = "reconnecting" /\ lease.grace = "elapsed"
  BY DEF Expired
<1>1. ASSUME NEW c \in Clients, NEW m \in Commands,
             RequestControl(c, m) \/ DeclineControl(c, m)
      PROVE  KeptOrExpired
  <2>1. lease'.holder = Expired(lease).holder
    BY <1>1 DEF RequestControl, DeclineControl, Committed
  <2> QED BY <1>0, <2>1
<1>2. ASSUME NEW c \in Clients, NEW m \in Commands, GrantControl(c, m)
      PROVE  /\ receipts[<<m.key, c>>] = NoReceipt /\ Record(c, m) /\ c \in Owners
             /\ \E r \in requests : lease'.holder = r.client
  <2>1. /\ m.type = "GrantControl" /\ Record(c, m)
        /\ Accepts(c, m, Expired(lease), Live(requests))
        /\ lease'.holder = m.target
    BY <1>2 DEF GrantControl, MoveLease, Committed
  <2> QED BY <2>1 DEF Accepts, Admitted, Live
<1>3. ASSUME NEW c \in Clients, NEW m \in Commands, ReleaseControl(c, m)
      PROVE  /\ receipts[<<m.key, c>>] = NoReceipt /\ Record(c, m)
             /\ c = lease.holder /\ lease'.holder = NoClient
  <2>1. /\ m.type = "ReleaseControl" /\ Record(c, m)
        /\ Accepts(c, m, Expired(lease), Live(requests))
        /\ lease'.holder = NoClient
    BY <1>3 DEF ReleaseControl, MoveLease, Committed
  <2>2. Expired(lease).holder = c /\ receipts[<<m.key, c>>] = NoReceipt
    BY <2>1 DEF Accepts, Admitted
  <2> QED BY <1>0, <2>1, <2>2
<1>4. ASSUME NEW c \in Clients, NEW m \in Commands, TakeControl(c, m)
      PROVE  /\ receipts[<<m.key, c>>] = NoReceipt /\ Record(c, m)
             /\ c \in Owners /\ c \notin ReadOnly /\ lease'.holder = c
  <2>1. /\ m.type = "TakeControl" /\ Record(c, m)
        /\ Accepts(c, m, Expired(lease), Live(requests))
        /\ lease'.holder = c
    BY <1>4 DEF TakeControl, MoveLease, Committed
  <2> QED BY <2>1 DEF Accepts, Admitted
<1>5. ASSUME NEW c \in Clients, NEW m \in Commands,
             AnswerFromReceipt(c, m) \/ Refuse(c, m)
      PROVE  KeptOrExpired
  BY <1>0, <1>5 DEF AnswerFromReceipt, Refuse
<1>6. ASSUME NEW c \in Clients, OpenStream(c) \/ CloseStream(c) \/ CloseStreamBusy(c)
      PROVE  KeptOrExpired
  BY <1>6, HolderKept DEF OpenStream, CloseStream, CloseStreamBusy
<1>7. CASE Poll \/ PollDies
  BY <1>0, <1>7 DEF Poll, PollDies
<1>8. CASE GraceElapses
  BY <1>8 DEF GraceElapses, TypeOK, Lease
<1>9. CASE RequestElapses \/ Restart \/ UNCHANGED vars
  BY <1>9 DEF RequestElapses, Restart, stored, vars
<1> QED
  BY <1>1, <1>2, <1>3, <1>4, <1>5, <1>6, <1>7, <1>8, <1>9 DEF Next, Command

(* A read-only client never holds the lease nor could be granted it.        *)
THEOREM ReadOnlyNeverInControl == Spec => []ReadOnlyNeverControls
<1>1. Init => ReadOnlyNeverControls
  BY LeaseAssumption DEF Init, ReadOnlyNeverControls
<1>2. TypeOK /\ ReadOnlyNeverControls /\ [Next]_vars => ReadOnlyNeverControls'
  <2> SUFFICES ASSUME TypeOK, ReadOnlyNeverControls, [Next]_vars
               PROVE  ReadOnlyNeverControls'
    OBVIOUS
  <2> USE LeaseAssumption
  <2>1. lease'.holder \notin ReadOnly
    BY HolderStep DEF ReadOnlyNeverControls
  <2>2. ASSUME NEW r \in requests' PROVE r.client \notin ReadOnly
    <3>1. CASE r \in requests
      BY <3>1 DEF ReadOnlyNeverControls
    <3>2. ASSUME NEW c \in Clients \ ReadOnly,
                 r = [id |-> nextRequest, client |-> c, due |-> FALSE]
          PROVE  r.client \notin ReadOnly
      BY <3>2
    <3>3. ASSUME NEW q \in requests, r = [q EXCEPT !.due = TRUE]
          PROVE  r.client \notin ReadOnly
      <4>1. r.client = q.client
        BY <3>3 DEF TypeOK, Request
      <4> QED BY <4>1 DEF ReadOnlyNeverControls
    <3> QED BY <3>1, <3>2, <3>3, RequestStep DEF Live
  <2> QED BY <2>1, <2>2 DEF ReadOnlyNeverControls
<1> QED BY <1>1, <1>2, TypeCorrect, PTL DEF Spec

(* Control moves only on an owner's or the holder's word, or by expiry.     *)
THEOREM ControlMovesOnCommand == Spec => ControlNeverMovesSilently
<1> DEFINE A == lease'.holder # lease.holder =>
                  \/ \E o \in Owners : Spoke(o)
                  \/ /\ lease'.holder = NoClient
                     /\ \/ lease.holder \in Clients /\ Spoke(lease.holder)
                        \/ lease.state = "reconnecting" /\ lease.grace = "elapsed"
<1>1. TypeOK /\ [Next]_vars => A
  <2> SUFFICES ASSUME TypeOK, [Next]_vars, lease'.holder # lease.holder PROVE A
    OBVIOUS
  <2>1. ASSUME NEW c \in Clients, NEW m \in Commands,
               receipts[<<m.key, c>>] = NoReceipt, Record(c, m)
        PROVE  Spoke(c)
    <3>1. m.key \in Keys
      BY DEF Commands, Plain, Decline, Grant
    <3>2. receipts'[<<m.key, c>>] = m
      BY <2>1, <3>1 DEF Record, TypeOK
    <3>3. m # NoReceipt
      BY ReceiptAssumption
    <3> QED BY <2>1, <3>1, <3>2, <3>3 DEF Spoke
  <2> QED BY <2>1, HolderStep
<1> HIDE DEF A
<1>2. Spec => [][A]_vars
  BY <1>1, TypeCorrect, PTL DEF Spec
<1> QED BY <1>2 DEF ControlNeverMovesSilently, A

-----------------------------------------------------------------------------
(* A key is applied exactly when its receipt exists, and once.              *)
THEOREM CommandsApplyOnce == Spec => []AppliedOnce
<1>1. Init => AppliedOnce
  BY DEF Init, AppliedOnce
<1>2. TypeOK /\ AppliedOnce /\ [Next]_vars => AppliedOnce'
  <2> SUFFICES ASSUME TypeOK, AppliedOnce, [Next]_vars PROVE AppliedOnce'
    OBVIOUS
  <2>1. ASSUME NEW c \in Clients, NEW m \in Commands,
               receipts[<<m.key, c>>] = NoReceipt, Record(c, m)
        PROVE  AppliedOnce'
    <3>1. <<m.key, c>> \in Keys \X Clients
      BY DEF Commands, Plain, Decline, Grant
    <3>2. applied[<<m.key, c>>] = 0
      BY <2>1, <3>1 DEF AppliedOnce
    <3>3. receipts'[<<m.key, c>>] = m /\ applied'[<<m.key, c>>] = 1
      BY <2>1, <3>1, <3>2 DEF Record, TypeOK
    <3>4. ASSUME NEW kc \in Keys \X Clients, kc # <<m.key, c>>
          PROVE  receipts'[kc] = receipts[kc] /\ applied'[kc] = applied[kc]
      BY <2>1, <3>4 DEF Record, TypeOK
    <3>5. m # NoReceipt
      BY ReceiptAssumption
    <3> QED BY <3>3, <3>4, <3>5 DEF AppliedOnce
  <2>2. ASSUME NEW c \in Clients, NEW m \in Commands,
               \/ RequestControl(c, m) \/ DeclineControl(c, m) \/ GrantControl(c, m)
               \/ ReleaseControl(c, m) \/ TakeControl(c, m)
        PROVE  receipts[<<m.key, c>>] = NoReceipt /\ Record(c, m)
    BY <2>2 DEF RequestControl, DeclineControl, GrantControl, ReleaseControl, TakeControl,
                MoveLease, Accepts, Admitted
  <2>3. CASE UNCHANGED <<receipts, applied>>
    BY <2>3 DEF AppliedOnce
  <2>4. ASSUME NEW c \in Clients, NEW m \in Commands,
               AnswerFromReceipt(c, m) \/ Refuse(c, m)
        PROVE  UNCHANGED <<receipts, applied>>
    BY <2>4 DEF AnswerFromReceipt, Refuse
  <2>5. ASSUME NEW c \in Clients, OpenStream(c) \/ CloseStream(c) \/ CloseStreamBusy(c)
        PROVE  UNCHANGED <<receipts, applied>>
    BY <2>5 DEF OpenStream, CloseStream, CloseStreamBusy
  <2>6. CASE Poll \/ PollDies \/ GraceElapses \/ RequestElapses \/ Restart \/ UNCHANGED vars
    BY <2>3, <2>6 DEF Poll, PollDies, GraceElapses, RequestElapses, Restart, stored, vars
  <2> QED BY <2>1, <2>2, <2>3, <2>4, <2>5, <2>6 DEF Next, Command
<1> QED BY <1>1, <1>2, TypeCorrect, PTL DEF Spec

(* The grace never runs against a controller that has a stream open.        *)
THEOREM GraceOnlyAgainstAbsent == Spec => []GraceOnlyWhileAbsent
<1>1. Init => GraceOnlyWhileAbsent
  BY DEF Init, GraceOnlyWhileAbsent
<1>2. TypeOK /\ LeaseCoherent /\ GraceOnlyWhileAbsent /\ [Next]_vars
        => GraceOnlyWhileAbsent'
  <2> SUFFICES ASSUME TypeOK, LeaseCoherent, GraceOnlyWhileAbsent, [Next]_vars
               PROVE  GraceOnlyWhileAbsent'
    OBVIOUS
  <2> USE LeaseAssumption DEF GraceOnlyWhileAbsent
  <2>1. /\ lease \in Lease /\ streams \in [Clients -> Nat]
        /\ lease.state = "reconnecting" => lease.holder \in Clients
    BY DEF TypeOK, LeaseCoherent, Lease
  <2>2. ASSUME NEW h, NEW rev, lease' = Committed(h, rev) PROVE GraceOnlyWhileAbsent'
    BY <2>2 DEF Committed
  <2>3. ASSUME UNCHANGED streams,
               \/ lease' \in {lease, Expired(lease)}
               \/ lease.grace = "running" /\ lease' = [lease EXCEPT !.grace = "elapsed"]
        PROVE  GraceOnlyWhileAbsent'
    BY <2>1, <2>3 DEF Expired, Lease
  <2>4. ASSUME NEW c \in Clients, NEW m \in Commands,
               \/ RequestControl(c, m) \/ DeclineControl(c, m) \/ GrantControl(c, m)
               \/ ReleaseControl(c, m) \/ TakeControl(c, m)
        PROVE  \E h, rev : lease' = Committed(h, rev)
    BY <2>4 DEF RequestControl, DeclineControl, GrantControl, ReleaseControl, TakeControl,
                MoveLease
  <2>5. ASSUME NEW c \in Clients, NEW m \in Commands,
               AnswerFromReceipt(c, m) \/ Refuse(c, m)
        PROVE  GraceOnlyWhileAbsent'
    BY <2>3, <2>5 DEF AnswerFromReceipt, Refuse, process
  <2>6. ASSUME NEW c \in Clients, OpenStream(c) PROVE GraceOnlyWhileAbsent'
    BY <2>1, <2>6 DEF OpenStream, Connected, Lease
  <2>7. ASSUME NEW c \in Clients, CloseStream(c) PROVE GraceOnlyWhileAbsent'
    BY <2>1, <2>7 DEF CloseStream, Disconnected, Lease
  <2>8. ASSUME NEW c \in Clients, CloseStreamBusy(c) PROVE GraceOnlyWhileAbsent'
    BY <2>1, <2>8 DEF CloseStreamBusy
  <2>9. CASE Poll \/ PollDies \/ GraceElapses \/ RequestElapses \/ UNCHANGED vars
    BY <2>3, <2>9 DEF Poll, PollDies, GraceElapses, RequestElapses, process, stored, vars
  <2>10. CASE Restart
    BY <2>1, <2>10 DEF Restart, stored
  <2> QED BY <2>2, <2>4, <2>5, <2>6, <2>7, <2>8, <2>9, <2>10 DEF Next, Command
<1> QED BY <1>1, <1>2, TypeCorrect, LeaseIsCoherent, PTL DEF Spec

-----------------------------------------------------------------------------
(* The lease implements the fenced lease: every step moves the holder under *)
(* a larger revision or leaves both alone.                                  *)
THEOREM LeaseIsFenced == Spec => FencedSpec
<1>1. Init => Fence!LeaseInit
  BY DEF Init, Fence!LeaseInit
<1>2. TypeOK /\ TypeOK' /\ [Next]_vars => [Fence!Move]_(Fence!lvars)
  <2> SUFFICES ASSUME TypeOK, TypeOK', [Next]_vars
               PROVE  \/ lease'.revision > lease.revision
                      \/ UNCHANGED <<lease.holder, lease.revision>>
    BY DEF Fence!Move, Fence!lvars, TypeOK, Lease
  <2>1. lease \in Lease /\ Expired(lease) \in Lease
    BY ExpiredType DEF TypeOK
  <2>2. /\ Expired(lease).revision \in {lease.revision, lease.revision + 1}
        /\ Expired(lease).revision = lease.revision
             => Expired(lease).holder = lease.holder
    BY <2>1 DEF Expired, Lease
  <2>3. ASSUME NEW c \in Clients, NEW m \in Commands,
               RequestControl(c, m) \/ DeclineControl(c, m)
        PROVE  /\ lease'.holder = Expired(lease).holder
               /\ lease'.revision = Expired(lease).revision
    BY <2>3 DEF RequestControl, DeclineControl, Committed
  <2>4. ASSUME NEW c \in Clients, NEW m \in Commands,
               GrantControl(c, m) \/ ReleaseControl(c, m) \/ TakeControl(c, m)
        PROVE  lease'.revision = Expired(lease).revision + 1
    BY <2>4 DEF GrantControl, ReleaseControl, TakeControl, MoveLease, Committed
  <2>5. ASSUME NEW c \in Clients, NEW m \in Commands,
               AnswerFromReceipt(c, m) \/ Refuse(c, m)
        PROVE  lease' = Expired(lease)
    BY <2>5 DEF AnswerFromReceipt, Refuse
  <2>6. ASSUME NEW c \in Clients, OpenStream(c) \/ CloseStream(c) \/ CloseStreamBusy(c)
        PROVE  UNCHANGED <<lease.holder, lease.revision>>
    BY <2>1, <2>6 DEF OpenStream, CloseStream, CloseStreamBusy, Connected, Disconnected, Lease
  <2>7. CASE Poll \/ PollDies
    BY <2>1, <2>2, <2>7 DEF Poll, PollDies, Lease
  <2>8. CASE GraceElapses
    BY <2>1, <2>8 DEF GraceElapses, Lease
  <2>9. CASE RequestElapses \/ Restart \/ UNCHANGED vars
    BY <2>9 DEF RequestElapses, Restart, stored, vars
  <2>10. lease.revision \in Nat
    BY <2>1 DEF Lease
  <2> QED
    BY <2>2, <2>3, <2>4, <2>5, <2>6, <2>7, <2>8, <2>9, <2>10 DEF Next, Command
<1> QED BY <1>1, <1>2, TypeCorrect, PTL DEF Spec, FencedSpec, Fence!LeaseSpec

(* The lease is sound in every reachable moment.                             *)
THEOREM LeaseStaysSound == Spec => []LeaseIsSound
BY TypeCorrect, LeaseIsCoherent, RequestsAreExclusive,
   ReadOnlyNeverInControl, GraceOnlyAgainstAbsent, PTL DEF LeaseIsSound

(* Control never escapes the fence.                                          *)
THEOREM ControlStaysFenced == Spec => ControlIsFenced
BY LeaseIsFenced, ControlMovesOnCommand, PTL DEF ControlIsFenced
=============================================================================
