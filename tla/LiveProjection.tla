--------------------------- MODULE LiveProjection ---------------------------
(* How a browser keeps up with the service: the projection publication that *)
(* offers every subscriber the latest complete snapshot, the event stream   *)
(* that carries it, and the bootstrap client that installs it.              *)
(*                                                                          *)
(* A snapshot is its cursor and a number for what it shows.  snapshotVersion *)
(* only changes together with the cursor, so its check is left out.         *)
(* Two fibers of the browser install snapshots: the listener of the event   *)
(* stream, and the command whose answer asks for a fresh one.  Each loads   *)
(* and then sets the shared state, with the other free to run in between.   *)
EXTENDS Integers, Sequences, FiniteSets

CONSTANTS
  MaxChanges,    \* bound: changes of the service's truth
  MaxErrors,     \* bound: errors the event source reports
  MaxCommands,   \* bound: commands the browser submits
  Capacity,      \* places of the browser's message queue
  Kinds,         \* the commands of the browser, a subset of CommandKinds
  Faults         \* what may go wrong, a subset of AllFaults

(* Purge: overdue control requests are deleted.  Refuse: the service answers *)
(* the stream's request with something else.  Stall: the connection dies     *)
(* without an error.  Fail: a snapshot cannot be loaded.                     *)
AllFaults == {"Purge", "Refuse", "Stall", "Fail"}

CommandKinds == {"Control", "Plan", "Preview", "Observe", "Preflight"}

LiveAssumption ==
  /\ {MaxChanges, MaxErrors, MaxCommands} \subseteq Nat
  /\ Capacity \in Nat \ {0}
  /\ Kinds \subseteq CommandKinds
  /\ Faults \subseteq AllFaults

VARIABLES
  truth,       \* cursor and content of the service
  owed,        \* cursors whose handler has yet to publish
  emitted,     \* emittedCursor of the publication
  connection,  \* the browser's event source
  stream,      \* initial event and latest-value queue of the subscription
  messages,    \* messages of the browser, in order
  errors,      \* errors reported so far
  client,      \* state of the bootstrap client
  fiber,       \* each fiber's installSnapshot
  command,     \* the command in progress
  commands     \* commands submitted so far

service == <<truth, owed, emitted>>
line == <<connection, stream, messages, errors>>
browser == <<client, fiber, command, commands>>
vars == <<service, line, browser>>

Snapshots == [cursor : Nat, content : Nat]
None == [cursor |-> 0, content |-> 0]
Changed(snapshot) == [_tag |-> "ProjectionChanged", data |-> snapshot]
Disconnected == [_tag |-> "Disconnected", data |-> None]
Fibers == {"Listener", "Command"}
ClientStates ==
  [tag : {"Current", "Stale", "Reconnecting", "Unavailable"},
   snapshot : Snapshots]
Loads ==
  [at : {"Idle"}] \cup [at : {"Asked"}, before : ClientStates]
    \cup [at : {"Answered"}, before : ClientStates,
          snapshot : Snapshots]
Answers == {"Accepted", "Rejected", "Unavailable", "Lost"}

TypeOK ==
  /\ truth \in Snapshots
  /\ owed \subseteq Nat /\ emitted \in Nat
  /\ connection \in {"Connecting", "Open", "Closed", "Dead"}
  /\ stream \in [first : Snapshots, latest : Snapshots]
  /\ messages \in Seq([_tag : {"ProjectionChanged", "Disconnected"},
                       data : Snapshots])
  /\ Len(messages) <= Capacity
  /\ errors \in 0..MaxErrors
  /\ client \in ClientStates
  /\ fiber \in [Fibers -> Loads]
  /\ command \in [at : {"Idle", "Refreshing"}]
                   \cup [at : {"Sent"}, kind : Kinds]
                   \cup [at : {"Answered"}, kind : Kinds, answer : Answers]
  /\ commands \in 0..MaxCommands

Nothing == [first |-> None, latest |-> None]
Idle == [at |-> "Idle"]

Current(snapshot) == [tag |-> "Current", snapshot |-> snapshot]

Tagged(tag, state) ==
  IF state.tag = "Unavailable" THEN state
  ELSE [tag |-> tag, snapshot |-> state.snapshot]

stale(state) == Tagged("Stale", state)
reconnecting(state) == Tagged("Reconnecting", state)

Init ==
  /\ truth = [cursor |-> 1, content |-> 1]
  /\ owed = {} /\ emitted = 0
  /\ connection = "Connecting"
  /\ stream = Nothing /\ messages = <<>> /\ errors = 0
  /\ \/ client = Current(truth)
     \/ /\ "Fail" \in Faults
        /\ client = [tag |-> "Unavailable", snapshot |-> None]
  /\ fiber = [f \in Fibers |-> Idle]
  /\ command = Idle /\ commands = 0

-----------------------------------------------------------------------------
(* The service                                                              *)

(* A transition commits; its handler may publish it afterwards, and what a  *)
(* worker or another process commits is left to the poll.                   *)
Commit(publishes) ==
  /\ truth.content < MaxChanges
  /\ truth' = [cursor |-> truth.cursor + 1, content |-> truth.content + 1]
  /\ owed' = IF publishes THEN owed \cup {truth.cursor + 1} ELSE owed
  /\ UNCHANGED <<emitted, line, browser>>

(* Overdue control requests are deleted: another snapshot, the same cursor. *)
expireControlRequests ==
  /\ "Purge" \in Faults
  /\ truth.content < MaxChanges
  /\ truth' = [truth EXCEPT !.content = @ + 1]
  /\ UNCHANGED <<owed, emitted, line, browser>>

(* Every subscriber is offered the snapshot of this moment, which replaces  *)
(* the one it has not taken.                                                *)
Offered ==
  IF connection = "Open" THEN [stream EXCEPT !.latest = truth] ELSE stream

publish(cursor) ==
  /\ emitted' = IF cursor > emitted THEN cursor ELSE emitted
  /\ stream' = Offered

PublishOwed ==
  \E cursor \in owed :
    /\ publish(cursor)
    /\ owed' = owed \ {cursor}
    /\ UNCHANGED <<truth, connection, messages, errors, browser>>

\* Mutant: the poll notes the cursor and offers nothing.
PollQuietly ==
  /\ truth.cursor > emitted
  /\ emitted' = truth.cursor
  /\ UNCHANGED <<truth, owed, stream, connection, messages, errors, browser>>

poll ==
  /\ truth.cursor > emitted
  /\ publish(truth.cursor)
  /\ UNCHANGED <<truth, owed, connection, messages, errors, browser>>

(* The process stops and another takes its place.                           *)
Restart ==
  /\ errors < MaxErrors
  /\ emitted > 0
  /\ emitted' = 0 /\ owed' = {}
  /\ connection = "Open"
  /\ connection' = "Connecting" /\ stream' = Nothing
  /\ errors' = errors + 1
  /\ messages' = IF Len(messages) < Capacity
                 THEN Append(messages, Disconnected) ELSE messages
  /\ UNCHANGED <<truth, browser>>

-----------------------------------------------------------------------------
(* The stream                                                               *)

(* offerUnsafe on a full bounded queue keeps the queue as it is.            *)
offer(message) ==
  messages' = IF Len(messages) < Capacity
              THEN Append(messages, message) ELSE messages

(* The subscription starts with the snapshot of this moment.                *)
Connect ==
  /\ connection = "Connecting"
  /\ connection' = "Open"
  /\ stream' = [first |-> truth, latest |-> None]
  /\ UNCHANGED <<service, messages, errors, browser>>

Deliver ==
  /\ connection = "Open"
  /\ \/ /\ stream.first # None
        /\ offer(Changed(stream.first))
        /\ stream' = [stream EXCEPT !.first = None]
     \/ /\ stream.first = None
        /\ stream.latest # None
        /\ offer(Changed(stream.latest))
        /\ stream' = [stream EXCEPT !.latest = None]
  /\ UNCHANGED <<service, connection, errors, browser>>

(* The event source reports an error and tries again by itself.             *)
Break ==
  /\ errors < MaxErrors
  /\ connection \in {"Open", "Connecting"}
  /\ connection' = "Connecting"
  /\ stream' = Nothing
  /\ errors' = errors + 1
  /\ offer(Disconnected)
  /\ UNCHANGED <<service, browser>>

(* An answer that is no event stream closes the event source for good.      *)
Refuse ==
  /\ "Refuse" \in Faults
  /\ errors < MaxErrors
  /\ connection = "Connecting"
  /\ connection' = "Closed"
  /\ errors' = errors + 1
  /\ offer(Disconnected)
  /\ UNCHANGED <<service, stream, browser>>

(* The connection dies and nobody tells the browser: the heartbeat is a     *)
(* comment of the stream, which an event source does not report.            *)
Stall ==
  /\ "Stall" \in Faults
  /\ connection = "Open"
  /\ connection' = "Dead"
  /\ stream' = Nothing
  /\ UNCHANGED <<service, messages, errors, browser>>

-----------------------------------------------------------------------------
(* The bootstrap client                                                     *)

(* installSnapshot first reads the state it falls back to.                  *)
Asking(state) == [at |-> "Asked", before |-> state]

Installs(state) ==
  /\ client' = state
  /\ fiber' = [fiber EXCEPT !["Listener"] = Asking(state)]

\* Mutant: every event is applied.
ReceiveAnything(message) ==
  IF message = Disconnected THEN Installs(stale(client))
  ELSE client' = Current(message.data) /\ UNCHANGED fiber

(* receiveEvent and receiveDecodedEvent: what one message does to the       *)
(* client.                                                                  *)
receiveEvent(message) ==
  LET event == message.data IN
  IF message = Disconnected THEN Installs(stale(client))
  ELSE IF client.tag # "Current" THEN Installs(reconnecting(client))
  ELSE IF event.cursor <= client.snapshot.cursor
    THEN UNCHANGED <<client, fiber>>
  ELSE IF event.cursor = client.snapshot.cursor + 1
    THEN client' = Current(event) /\ UNCHANGED fiber
  ELSE Installs(reconnecting(client))

reconcile ==
  /\ fiber["Listener"] = Idle
  /\ messages # <<>>
  /\ messages' = Tail(messages)
  /\ receiveEvent(Head(messages))
  /\ UNCHANGED <<service, connection, stream, errors, command, commands>>

(* The service reads its snapshot before the answer arrives.                *)
LoadRead(f) ==
  /\ fiber[f].at = "Asked"
  /\ fiber' = [fiber EXCEPT ![f] = [at |-> "Answered", before |-> @.before,
                                    snapshot |-> truth]]
  /\ UNCHANGED <<service, line, client, command, commands>>

Finished(f) ==
  /\ fiber' = [fiber EXCEPT ![f] = Idle]
  /\ command' = IF f = "Command" THEN Idle ELSE command
  /\ UNCHANGED <<service, line, commands>>

LoadInstalled(f) ==
  /\ fiber[f].at = "Answered"
  /\ client' = Current(fiber[f].snapshot)
  /\ Finished(f)

LoadFailed(f) ==
  /\ "Fail" \in Faults
  /\ fiber[f].at \in {"Asked", "Answered"}
  /\ client' = stale(fiber[f].before)
  /\ Finished(f)

-----------------------------------------------------------------------------
(* The command clients                                                      *)

(* A command is sent once, from a Current snapshot, under a fresh key.      *)
submit(kind) ==
  /\ command = Idle
  /\ commands < MaxCommands
  /\ client.tag = "Current"
  /\ command' = [at |-> "Sent", kind |-> kind]
  /\ commands' = commands + 1
  /\ UNCHANGED <<service, line, client, fiber>>

Answered(answer) ==
  command' = [at |-> "Answered", kind |-> command.kind, answer |-> answer]

(* The service decides: an accepted command is a transition, except the     *)
(* preview and the preflight, which may leave the cursor alone.             *)
Decide ==
  /\ command.at = "Sent"
  /\ \/ /\ truth.content < MaxChanges
        /\ truth' = [cursor |-> truth.cursor + 1,
                     content |-> truth.content + 1]
        /\ owed' = owed \cup {truth.cursor + 1}
        /\ (Answered("Accepted") \/ Answered("Lost"))
     \/ /\ command.kind \in {"Preview", "Preflight"}
        /\ Answered("Accepted")
        /\ UNCHANGED <<truth, owed>>
     \/ /\ \E answer \in Answers \ {"Accepted"} : Answered(answer)
        /\ UNCHANGED <<truth, owed>>
  /\ UNCHANGED <<emitted, line, client, fiber, commands>>

(* Which answers make each client load a fresh snapshot; none loads one     *)
(* after a lost answer, and the control client never does.                  *)
PlanCommandRefreshes(kind, answer) ==
  \/ kind \in {"Plan", "Preview"} /\ answer \in {"Rejected", "Unavailable"}
  \/ kind = "Preview" /\ answer = "Accepted"

ObserveCommandRefreshes(kind, answer) ==
  kind = "Observe" /\ answer \in {"Rejected", "Unavailable"}

PreflightRefreshes(kind, answer) ==
  kind = "Preflight" /\ answer \in {"Accepted", "Rejected"}

refreshes(kind, answer) ==
  \/ PlanCommandRefreshes(kind, answer)
  \/ ObserveCommandRefreshes(kind, answer)
  \/ PreflightRefreshes(kind, answer)

AnswerReceived ==
  /\ command.at = "Answered"
  /\ IF refreshes(command.kind, command.answer)
     THEN /\ command' = [at |-> "Refreshing"]
          /\ fiber' = [fiber EXCEPT !["Command"] = Asking(client)]
     ELSE command' = Idle /\ UNCHANGED fiber
  /\ UNCHANGED <<service, line, client, commands>>

-----------------------------------------------------------------------------
Next ==
  \/ \E publishes \in BOOLEAN : Commit(publishes)
  \/ expireControlRequests \/ PublishOwed \/ poll \/ Restart
  \/ Connect \/ Deliver \/ Break \/ Refuse \/ Stall
  \/ reconcile
  \/ \E f \in Fibers : LoadRead(f) \/ LoadInstalled(f) \/ LoadFailed(f)
  \/ \E kind \in Kinds : submit(kind)
  \/ Decide \/ AnswerReceived

Spec == Init /\ [][Next]_vars

(* The poll repeats every 250 ms, an event source reconnects by itself,     *)
(* bytes arrive, the listener takes messages, requests are answered.        *)
GoesOn ==
  \/ poll \/ Connect \/ Deliver \/ reconcile
  \/ \E f \in Fibers : LoadRead(f) \/ LoadInstalled(f) \/ LoadFailed(f)
  \/ Decide \/ AnswerReceived

FairSpec == Spec /\ WF_vars(GoesOn)

-----------------------------------------------------------------------------
(* While the listener waits for the snapshot a disconnection or a gap made  *)
(* it ask for, the browser does not show itself current, so it sends no     *)
(* command (receiveEvent, and every command client's first check); once it  *)
(* has sent one, the command may install a snapshot meanwhile.              *)
WaitingIsNotCurrent ==
  commands = 0 /\ fiber["Listener"].at # "Idle" => client.tag # "Current"

NoOlder(snapshot, than) ==
  snapshot.cursor >= than.cursor /\ snapshot.content >= than.content

(* A fiber's load ends although the other fiber has installed a snapshot    *)
(* since it began.                                                          *)
Overtaken(f) ==
  /\ fiber[f].at # "Idle" /\ fiber'[f] = Idle
  /\ client.snapshot # fiber[f].before.snapshot

(* What the browser shows never moves to an older cursor or content: a late *)
(* or repeated event, a gap or a disconnection cannot rewind it             *)
(* (receiveDecodedEvent).  Only the end of an overtaken load does:          *)
(* installSnapshot sets what it loaded, or the state it fell back to,       *)
(* without looking at the state in between; and never behind what was shown *)
(* when it began.                                                           *)
GoesForward ==
  client.tag # "Unavailable" =>
    /\ client'.tag # "Unavailable"
    /\ \/ NoOlder(client'.snapshot, client.snapshot)
       \/ \E f \in Fibers :
            /\ Overtaken(f)
            /\ NoOlder(client'.snapshot, fiber[f].before.snapshot)
KeepsForward == [][GoesForward]_vars

(* The line is cut for good, and nobody tells the browser to try again.      *)
Cut == connection \in {"Closed", "Dead"}

(* The service has sent something for which the queue has no place.         *)
Overflows == Len(messages) = Capacity /\ stream # Nothing

(* A fiber is about to install an older snapshot than the browser shows, or *)
(* than the one the other fiber was told to load.                           *)
Rewinds ==
  \E f \in Fibers :
    /\ fiber[f].at = "Answered" /\ fiber[f].snapshot.cursor < truth.cursor
    /\ \/ fiber[f].snapshot.cursor < client.snapshot.cursor
       \/ \E g \in Fibers \ {f} : fiber[g].at # "Idle"

Lapses == Cut \/ Overflows \/ Rewinds

CaughtUp ==
  IF client.tag = "Current" THEN client.snapshot.cursor = truth.cursor
  ELSE "Fail" \in Faults

(* Once the service's truth settles, the browser shows its cursor as        *)
(* current, for ever (the poll, the reconnection, the queue).  The code     *)
(* allows four ways not to get there.  The event source gives up, or dies   *)
(* in silence (browserEventSourceFactoryLayer).  A full queue drops the     *)
(* last event (offerUnsafe).  A load that was overtaken installs what it    *)
(* has (installSnapshot).  And a load that failed is not tried again before *)
(* the next message, but then the browser does not call itself current.     *)
CatchesUp == <>Lapses \/ <>[]CaughtUp

(* A browser that is not current becomes so only by a whole snapshot it     *)
(* asked for, never by an event, whichever fiber asked (receiveDecodedEvent *)
(* and installSnapshot).                                                    *)
RecoversBySnapshot ==
  [][(client.tag # "Current" /\ client'.tag = "Current") =>
       \E f \in Fibers : fiber[f].at = "Answered"
                        /\ client'.snapshot = fiber[f].snapshot]_vars

(* A snapshot that cannot be loaded leaves the last one in place, marked    *)
(* stale; if another was installed meanwhile, the one that was in place     *)
(* when the load began (installSnapshot).                                   *)
StaysShown ==
  client.tag # "Unavailable" /\ client'.tag = "Stale" =>
    \/ client'.snapshot = client.snapshot
    \/ \E f \in Fibers :
         Overtaken(f) /\ client'.snapshot = fiber[f].before.snapshot
KeepsShown == [][StaysShown]_vars
=============================================================================
