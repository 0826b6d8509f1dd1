----------------------------- MODULE ObservePage -----------------------------
(***************************************************************************)
(* The Observe page over an Acquire session: what it offers the person who *)
(* controls the run, and the commands made of it.  Two copies lie between  *)
(* the session and a click, the snapshot the client holds and the one the  *)
(* page has rendered: buttons come of the second, revisions of the first.  *)
(* One page is followed, of the client Page; every other command is        *)
(* AcquireSession's.  Of the run's own actions Stop stands for all.        *)
(***************************************************************************)
EXTENDS AcquireSession

CONSTANTS
    Page,       \* the client of the page, a member of Clients
    MaxLease,   \* bound: times control passes
    MaxTurns,   \* bound: times the window narrows or widens
    MaxLost     \* bound: requests and answers lost

ASSUME PageAssumption ==
    Page \in Clients /\ {MaxLease, MaxTurns, MaxLost} \subseteq Nat

VARIABLES
    lease,      \* the revision of the control lease
    snap,       \* WorkspaceState.projection: what the client knows
    shown,      \* the projection prop the page has rendered
    pending,    \* what the page awaits, and what it showed at the click
    phone,      \* usePhoneProjection: ObservePhone is rendered instead
    turns, lost

copies == <<snap, shown>>
window == <<phone, turns>>
pageVars == <<lease, copies, pending, window, lost>>
observeVars == <<vars, pageVars>>

TargetActions == {"capture", "approve", "retry", "skip", "abort"}
Actions == TargetActions \cup {"stop"}

\* A client without control is told of no available action.
View ==
    [revision |-> session.revision, phase |-> session.phase, run |-> run,
     offers |-> IF holder = Page THEN Offers \cap TargetActions ELSE {},
     proposal |-> session.proposal, holds |-> holder = Page, lease |-> lease]

\* What a client without a current snapshot shows.
Unknown ==
    [revision |-> 0, phase |-> "unavailable", run |-> "unavailable",
     offers |-> {}, proposal |-> NoProposal, holds |-> FALSE, lease |-> 0]

AtRest == [at |-> "none"]

ObserveInit ==
    /\ Init
    /\ lease = 0 /\ snap = View /\ shown = snap
    /\ pending = AtRest /\ phone = FALSE /\ turns = 0 /\ lost = 0

-----------------------------------------------------------------------------
\* The two copies.

Deliver ==
    /\ snap # View
    /\ snap' = View
    /\ UNCHANGED <<vars, lease, shown, pending, window, lost>>

\* The client's stream breaks, and with it what it holds is no longer current.
Breaks ==
    /\ snap # Unknown
    /\ snap' = Unknown
    /\ UNCHANGED <<vars, lease, shown, pending, window, lost>>

\* The target's stage takes the place of the run's actions while the target
\* is being acquired.
TargetStage(v) ==
    /\ v # Unknown /\ Method # "polar"
    /\ v.phase # "completed" \/ v.run = "acquire"

\* The stage awaits its own action: taken off the page, it forgets what the
\* origin has taken, and the request goes on.
Render ==
    /\ shown # snap
    /\ shown' = snap
    /\ pending' = IF /\ pending.at = "taken"
                     /\ pending.action \in TargetActions
                     /\ ~TargetStage(snap)
                  THEN AtRest ELSE pending
    /\ UNCHANGED <<vars, lease, snap, window, lost>>

\* The window narrows below the phone's width, or widens again: the whole
\* desktop page is taken off.
Turn ==
    /\ turns < MaxTurns /\ pending.at # "sent"
    /\ turns' = turns + 1 /\ phone' = ~phone
    /\ pending' = AtRest
    /\ UNCHANGED <<vars, lease, copies, lost>>

-----------------------------------------------------------------------------
\* The page.

TargetDecision == shown.offers

RunActions == {action \in {"stop"} : shown.run # "stopped"}

\* Handlers are withheld from a page without control; one pending action
\* disables every button.
Buttons ==
    IF shown.holds /\ ~phone /\ pending = AtRest
    THEN IF TargetStage(shown) THEN TargetDecision ELSE RunActions
    ELSE {}

\* What the client's own snapshot must project for an action it submits.
\* An approval names the proposal whose button was pressed.
Submits(action) ==
    IF action = "stop"
    THEN snap.holds /\ snap.run # "stopped"
    ELSE /\ action \in snap.offers
         /\ action = "approve" => snap.proposal.id = shown.proposal.id

Sent(action) ==
    [at |-> "sent", action |-> action, revision |-> snap.revision,
     run |-> snap.run, lease |-> snap.lease, proposal |-> snap.proposal,
     saw |-> shown, fresh |-> shown = snap]

\* Mutant: an approval names the proposal the client knows now.
PressNewest(action) ==
    /\ action \in Buttons
    /\ action \in snap.offers \cup {"stop"}
    /\ pending' = Sent(action)
    /\ UNCHANGED <<vars, lease, copies, window, lost>>

Press(action) ==
    /\ action \in Buttons /\ Submits(action)
    /\ pending' = Sent(action)
    /\ UNCHANGED <<vars, lease, copies, window, lost>>

-----------------------------------------------------------------------------
\* The command at the origin, and its answer.

Expected ==
    /\ pending.lease = lease /\ pending.run = run
    /\ pending.action = "stop" \/ pending.revision = session.revision

Permitted ==
    CASE pending.action = "capture" -> session.work.kind = "solve"
      [] pending.action = "approve" ->
           Approvable(session) /\ session.proposal.id = pending.proposal.id
      [] pending.action = "retry" -> OpensRecovery(session, "longer")
      [] pending.action = "skip" -> session.phase = "paused"
      [] pending.action = "abort" ->
           session.phase \notin {"completed", "skipped"}
      [] OTHER -> run # "stopped"

\* The page retries with 15 s, which is longer than planned.
Executes ==
    \/ \E s \in Slots :
         \/ /\ pending.action = "capture"
            /\ CaptureTargetAcquisitionEvidence(s, Page)
         \/ /\ pending.action = "approve"
            /\ ApprovePointingCorrection(s, Page)
    \/ /\ pending.action = "retry"
       /\ Commit(Recovering(session, "longer"))
    \/ pending.action = "skip" /\ SkipAcquireTarget
    \/ pending.action = "abort" /\ AbortAcquire
    \/ pending.action = "stop" /\ StopRun

Taken ==
    [at |-> "taken", action |-> pending.action,
     key |-> IF pending.action = "stop" THEN 0 ELSE Len(receipts) + 1]

Reaches ==
    /\ pending.at = "sent"
    /\ IF Expected /\ Permitted
       THEN Executes /\ pending' = Taken
       ELSE UNCHANGED vars /\ pending' = [at |-> "refused"]
    /\ UNCHANGED <<lease, copies, window, lost>>

\* The origin answers once the request is done; an answer that accepts
\* nothing makes the client read the snapshot.
Done ==
    /\ pending.at = "taken"
    /\ ~\E s \in Slots :
          flight[s] # Idle /\ flight[s].key = pending.key
Accepted ==
    /\ pending.at = "taken"
    /\ pending.action = "stop" \/ receipts[pending.key] = "accepted"

Returns ==
    /\ pending.at = "refused" \/ Done
    /\ snap' = IF Accepted THEN snap ELSE View
    /\ pending' = AtRest
    /\ UNCHANGED <<vars, lease, shown, window, lost>>

\* The request or its answer is lost: the client reads the snapshot.
Loses ==
    /\ pending # AtRest /\ lost < MaxLost
    /\ lost' = lost + 1
    /\ snap' = View
    /\ pending' = AtRest
    /\ UNCHANGED <<vars, lease, shown, window>>

-----------------------------------------------------------------------------
\* Beside the page: the other client, another page of the same client, the
\* rig and the executor.

Elsewhere ==
    /\ \/ Commands \/ StopRun \/ ContinueCompletedAcquire
       \/ \E s \in Slots : Progress(s) \/ RequestEnds(s)
    /\ UNCHANGED pageVars

PassControl ==
    /\ lease < MaxLease
    /\ TakeControl
    /\ lease' = lease + 1
    /\ UNCHANGED <<copies, pending, window, lost>>

ObserveNext ==
    \/ Deliver \/ Breaks \/ Render \/ Turn \/ Reaches \/ Returns \/ Loses
    \/ Elsewhere \/ PassControl
    \/ \E action \in Actions : Press(action)

ObserveSpec == ObserveInit /\ [][ObserveNext]_observeVars

-----------------------------------------------------------------------------
(* The page keeps its shape.                                                *)
PageTypeOK ==
    /\ pending.at \in {"none", "sent", "taken", "refused"}
    /\ {snap.offers, shown.offers} \subseteq SUBSET TargetActions
    /\ phone \in BOOLEAN /\ lease \in 0 .. MaxLease
    /\ turns \in 0 .. MaxTurns /\ lost \in 0 .. MaxLost

(* Whatever the page does, the session is one its schema accepts, with      *)
(* whatever its provider answers next, opens its recovery and keeps within  *)
(* the budgets (SessionSound), and the page keeps its shape.                *)
SessionIsSound == SessionSound /\ PageTypeOK

(* What the origin takes of the page is what the person saw.  An approval   *)
(* sends the mount by the correction its button showed, even when the       *)
(* client had a newer one that was not rendered yet; any other command, if  *)
(* the page was up to date at the click, meets the session, the control and *)
(* the run it showed (TargetDecision, acquireCommandIntent).                *)
ActsAsShown ==
    (pending.at = "sent" /\ pending'.at = "taken") =>
      /\ pending.action = "approve" =>
           session.proposal = pending.saw.proposal
      /\ pending.fresh =>
           IF pending.action = "stop"
           THEN /\ pending.saw.run = run /\ pending.saw.lease = lease
                /\ holder = Page
           ELSE pending.saw = View

(* With one request at a time, what the origin takes of the Observe page is *)
(* what the person at it saw: no answer of the rig brings back a revision   *)
(* the page was shown (ActsAsShown).                                        *)
ObserveIsAsShown == [][Alone => ActsAsShown]_observeVars
=============================================================================
