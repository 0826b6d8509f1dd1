------------------------------ MODULE PlanPage ------------------------------
(***************************************************************************)
(* The Plan page: a draft of the plan, and the commands it makes of what   *)
(* it shows.  Between the origin and a person's click there are two        *)
(* copies: the snapshot the client holds and the projection the page has   *)
(* rendered.  The page offers and asks for confirmation by the second; the *)
(* client takes revisions, preview and token of a request from the first.  *)
(* The origin is RunLifecycle's, under the fake executor and with a plan   *)
(* that is ready; what other pages do to it is one action, Elsewhere.      *)
(***************************************************************************)
EXTENDS Integers

CONSTANTS
  Edits,        \* changes a person can make to a sequence
  None,
  MaxRevision,  \* bound: saved revisions of the plan
  MaxPreviews,  \* bound: previews made
  MaxMoves,     \* bound: times control passes between pages
  MaxTurns,     \* bound: times the page gives way to the phone's or returns
  MaxLost       \* bound: requests and answers lost

VARIABLES
  server,   \* the stored plan, its definition, run and previews, control
  snap,     \* BootstrapClientState.Current
  shown,    \* the projection prop the page has rendered
  draft,    \* PlanDesktop's draft: the edits its sequences have
  confirm,  \* PlanDesktop's confirm
  pending,  \* the request the page awaits, and what it showed at the click
  phone,    \* usePhoneProjection: the read-only page is rendered instead
  stray,    \* a request whose page has gone
  turns, lost

page == <<draft, confirm, phone, turns>>
vars == <<server, snap, shown, page, pending, stray, lost>>

PlanPageOK == 
  {MaxRevision, MaxPreviews, MaxMoves, MaxTurns, MaxLost} \subseteq Nat

Plans == 1 .. MaxRevision + 1
\* What a snapshot tells the page.  A preview shows while it is the newest,
\* unapplied and unexpired; only its holder is told an approval's token.
Views ==
  [revision : Plans, content : SUBSET Edits, accepted : BOOLEAN,
   running : BOOLEAN, preview : 0 .. MaxPreviews, holds : BOOLEAN,
   lease : 0 .. MaxMoves]
View ==
  [revision |-> server.revision, content |-> server.content,
   accepted |-> server.accepted = server.revision,
   running |-> server.running,
   preview |-> IF server.made > server.closed THEN server.made ELSE 0,
   holds |-> server.holds, lease |-> server.lease]

Kinds == {"save", "accept", "start", "preview", "apply"}
Dialogs == {"accept", "start", "apply"}

TypeOK ==
  /\ server \in
       [revision : Plans, content : SUBSET Edits,
        accepted : {0} \cup Plans, definition : SUBSET Edits,
        running : BOOLEAN, made : 0 .. MaxPreviews,
        closed : 0 .. MaxPreviews, applied : 0 .. MaxPreviews,
        holds : BOOLEAN, lease : 0 .. MaxMoves]
  /\ snap \in Views /\ shown \in Views /\ draft \subseteq Edits
  /\ confirm \in {"none"} \cup Dialogs
  /\ pending.at \in {"none", "sent", "accepted", "refused"}
  /\ phone \in BOOLEAN /\ turns \in 0 .. MaxTurns /\ lost \in 0 .. MaxLost

Rest == [at |-> "none"]

Init ==
  /\ server \in
       [revision : {1}, content : {{}}, accepted : {0}, definition : {{}},
        running : {FALSE}, made : {0}, closed : {0}, applied : {0},
        holds : BOOLEAN, lease : {0}]
  /\ snap = View /\ shown = snap /\ draft = snap.content
  /\ confirm = "none" /\ pending = Rest /\ stray = Rest
  /\ phone = FALSE /\ turns = 0 /\ lost = 0

-----------------------------------------------------------------------------
\* The two copies.

\* The client reads a current snapshot.
Deliver ==
  /\ snap # View
  /\ snap' = View
  /\ UNCHANGED <<server, shown, page, pending, stray, lost>>

\* The page renders the snapshot.  Another revision of the plan replaces the
\* draft with its sequences, whatever was edited; a dialog stays open.
Render ==
  /\ shown # snap
  /\ shown' = snap
  /\ draft' = IF shown.revision = snap.revision /\ ~phone
              THEN draft ELSE snap.content
  /\ UNCHANGED <<server, snap, confirm, phone, turns, pending, stray, lost>>

-----------------------------------------------------------------------------
\* What the page lets a person do.

\* The actions a view projects as eligible; a draft needs no control.
Eligible(v) ==
  {k \in Kinds :
     CASE k = "save"    -> ~v.running
       [] k = "accept"  -> ~v.running /\ ~v.accepted
       [] k = "start"   -> v.holds /\ ~v.running /\ v.accepted
       [] k = "preview" -> v.running
       [] OTHER         -> v.holds /\ v.running /\ v.preview # 0}

\* The workspace withholds submit, and with it editing, from a page without
\* control.
HasSubmit == shown.holds /\ ~phone
Changed == draft # shown.content
Rests == pending = Rest

Edit(e) ==
  /\ HasSubmit /\ Rests /\ "save" \in Eligible(shown)
  /\ e \notin draft
  /\ draft' = draft \cup {e}
  /\ UNCHANGED <<server, snap, shown, confirm, phone, turns, pending, stray,
                 lost>>

\* The buttons that can be pressed: those of the editor's dock, ...
Dock ==
  {k \in {"save", "accept", "start"} \cap Eligible(shown) :
     (k = "save" => Changed) /\ (k = "accept" => ~Changed)}

\* ... and those of the review, which offers a preview while nothing has
\* changed and shows the one there is.
Review ==
  {k \in {"save", "preview", "apply"} :
     /\ k = "save" => Changed /\ "save" \in Eligible(shown)
     /\ k = "preview" => /\ HasSubmit /\ ~Changed /\ shown.running
                         /\ shown.preview = 0 /\ k \in Eligible(shown)
     /\ k = "apply" => shown.preview # 0}

Buttons == IF Rests /\ ~phone THEN Dock \cup Review ELSE {}

\* A button with a dialog opens it.
Open(k) ==
  /\ k \in Buttons \cap Dialogs
  /\ confirm' = k
  /\ UNCHANGED <<server, snap, shown, draft, phone, turns, pending, stray,
                 lost>>

Cancel ==
  /\ confirm # "none" /\ Rests
  /\ confirm' = "none"
  /\ UNCHANGED <<server, snap, shown, draft, phone, turns, pending, stray,
                 lost>>

\* prepareAction: the request the client makes of its snapshot, and for the
\* property what the page showed, unless the client knew better.
Request(k) ==
  [at |-> "sent", kind |-> k,
   revision |-> snap.revision, lease |-> snap.lease,
   arg |-> CASE k = "save"  -> draft
             [] k = "apply" -> snap.preview
             [] OTHER       -> None,
   saw |-> IF shown # snap THEN None
           ELSE [content |-> shown.content, preview |-> shown.preview]]

\* Mutant: the command names the revision the origin has now.
SubmitUnversioned(k) ==
  /\ HasSubmit /\ Rests /\ k \in Eligible(snap)
  /\ pending' = [Request(k) EXCEPT !.revision = server.revision]
  /\ UNCHANGED <<server, snap, shown, page, stray, lost>>

\* submit: the client's snapshot must project the action.
Submit(k) ==
  /\ HasSubmit /\ Rests /\ k \in Eligible(snap)
  /\ pending' = Request(k)
  /\ UNCHANGED <<server, snap, shown, page, stray, lost>>

\* A dialog confirms what it shows at that moment; one about a preview is
\* gone with the preview.
Press(k) ==
  /\ \/ k = confirm /\ (k = "apply" => shown.preview # 0)
     \/ k \in Buttons \ Dialogs
  /\ Submit(k)

-----------------------------------------------------------------------------
\* The command at the origin, and its answer.

Allows(q, holds) ==
  CASE q.kind = "save" ->
         /\ q.revision = server.revision /\ ~server.running
         /\ q.arg # server.content /\ server.revision <= MaxRevision
    [] q.kind = "accept" ->
         /\ q.revision = server.revision /\ ~server.running
         /\ q.lease = server.lease /\ server.accepted # server.revision
    [] q.kind = "start" ->
         /\ q.revision = server.revision /\ ~server.running
         /\ q.lease = server.lease /\ holds
         /\ server.accepted = server.revision
    [] q.kind = "preview" -> server.running /\ server.made < MaxPreviews
    [] OTHER ->
         /\ q.lease = server.lease /\ holds /\ server.running
         /\ q.arg \in server.closed + 1 .. server.made

Effect(q) ==
  CASE q.kind = "save" ->
         [server EXCEPT !.revision = @ + 1, !.content = q.arg]
    [] q.kind = "accept" ->
         [server EXCEPT !.accepted = server.revision,
                        !.definition = server.content]
    [] q.kind = "start" -> [server EXCEPT !.running = TRUE]
    [] q.kind = "preview" -> [server EXCEPT !.made = @ + 1]
    [] OTHER -> [server EXCEPT !.applied = q.arg, !.closed = server.made]

Answered(how) == pending' = [at |-> how, kind |-> pending.kind]

Reaches ==
  /\ pending.at = "sent"
  /\ IF Allows(pending, server.holds)
     THEN server' = Effect(pending) /\ Answered("accepted")
     ELSE UNCHANGED server /\ Answered("refused")
  /\ UNCHANGED <<snap, shown, page, stray, lost>>

\* An accepted command closes its dialog; a preview made and a refusal make
\* the client read the snapshot.
Returns ==
  /\ pending.at \in {"accepted", "refused"}
  /\ pending' = Rest
  /\ confirm' = IF pending.at = "accepted" /\ pending.kind \in Dialogs
                THEN "none" ELSE confirm
  /\ snap' = IF pending.at = "refused" \/ pending.kind = "preview"
             THEN View ELSE snap
  /\ UNCHANGED <<server, shown, draft, phone, turns, stray, lost>>

\* The request or its answer is lost, and the person may press again.
Loses ==
  /\ ~Rests /\ lost < MaxLost
  /\ lost' = lost + 1
  /\ pending' = Rest
  /\ UNCHANGED <<server, snap, shown, page, stray>>

\* The window narrows and the phone's page takes the desktop's place, or it
\* widens again: what the desktop page kept is gone, its request is not.
Turn ==
  /\ turns < MaxTurns /\ stray = Rest
  /\ phone' = ~phone /\ turns' = turns + 1
  /\ draft' = shown.content /\ confirm' = "none"
  /\ pending' = Rest
  /\ stray' = IF pending.at = "sent" THEN pending ELSE Rest
  /\ UNCHANGED <<server, snap, shown, lost>>

StrayReaches ==
  /\ stray # Rest
  /\ stray' = Rest
  /\ IF Allows(stray, server.holds)
     THEN server' = Effect(stray) /\ UNCHANGED snap
     ELSE snap' = View /\ UNCHANGED server
  /\ UNCHANGED <<shown, page, pending, lost>>

-----------------------------------------------------------------------------
\* Beside the page.

Args(k) ==
  CASE k = "save"  -> SUBSET Edits
    [] k = "apply" -> 1 .. MaxPreviews
    [] OTHER       -> {None}

\* Another page's command is accepted: it may save without control.
Elsewhere ==
  /\ \E k \in Kinds : \E arg \in Args(k) :
       LET q == [kind |-> k, arg |-> arg, revision |-> server.revision,
                 lease |-> server.lease]
       IN Allows(q, ~server.holds) /\ server' = Effect(q)
  /\ UNCHANGED <<snap, shown, page, pending, stray, lost>>

\* Control passes to the page, or from it to another.
Moves ==
  /\ server.lease < MaxMoves
  /\ server' = [server EXCEPT !.holds = ~@, !.lease = @ + 1]
  /\ UNCHANGED <<snap, shown, page, pending, stray, lost>>

\* The oldest open preview expires.
Elapses ==
  /\ server.closed < server.made
  /\ server' = [server EXCEPT !.closed = @ + 1]
  /\ UNCHANGED <<snap, shown, page, pending, stray, lost>>

Next ==
  \/ Deliver \/ Render \/ Cancel \/ Reaches \/ Returns \/ Loses
  \/ Turn \/ StrayReaches \/ Elsewhere \/ Moves \/ Elapses
  \/ \E e \in Edits : Edit(e)
  \/ \E k \in Kinds : Open(k) \/ Press(k)

Spec == Init /\ [][Next]_vars

-----------------------------------------------------------------------------
\* A page that had rendered what its client knew when the person pressed does
\* what the person saw: a save replaces no content but the one its draft was
\* made from, a definition accepted or started is the plan the page showed,
\* and a preview applied is the one whose consequences it showed.
DoesAsShown(q) ==
  CASE q.kind = "save"   -> /\ server.content = q.saw.content
                            /\ q.saw.content \subseteq server'.content
    [] q.kind = "accept" -> server'.definition = q.saw.content
    [] q.kind = "start"  -> server.definition = q.saw.content
    [] q.kind = "apply"  -> server'.applied = q.saw.preview
    [] OTHER             -> TRUE

PlanIsReviewed ==
  /\ pending.at = "sent" /\ pending'.at = "accepted" /\ pending.saw # None
       => DoesAsShown(pending)
  /\ stray # Rest /\ stray' = Rest /\ server' # server /\ stray.saw # None
       => DoesAsShown(stray)

\* The draft is made from the revision the page shows.
DraftIsCurrent == TypeOK /\ shown.content \subseteq draft

(* Whatever the person at the page makes of a draft, a dialog or a preview  *)
(* is what the page showed (submit, prepareAction).                         *)
PlanIsAsShown == [][PlanIsReviewed]_vars /\ []DraftIsCurrent
=============================================================================
