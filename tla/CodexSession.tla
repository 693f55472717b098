----------------------------- MODULE CodexSession -----------------------------
(***************************************************************************)
(* A live Codex session: the bridge of aikit-sdk/src/runner/codex_session.rs *)
(* over the client of aikit-agent-codex/src/client.rs for `codex            *)
(* app-server`.  The client's task pairs responses with requests by id, and *)
(* puts what else the server sends on a bounded channel, waiting while it   *)
(* is full; the bridge selects between that channel and the handle's        *)
(* commands, and awaits the response of each request it makes before it     *)
(* selects again.  The server may answer, stop reading, or exit at any time.*)
(***************************************************************************)
EXTENDS Integers, Sequences

CONSTANTS ChannelSize,  \* messages the client's channel holds (256 in the code)
          InCapacity,   \* requests the pipe to the server holds
          OutCapacity,  \* messages the server's stdout holds
          MaxControls,  \* bound: commands of the handle
          MaxNotices    \* bound: notifications and approval requests, together

ASSUME CodexBoundsAssumption ==
  /\ ChannelSize \in Nat \ {0}
  /\ InCapacity \in Nat \ {0} /\ OutCapacity \in Nat \ {0}
  /\ MaxControls \in Nat /\ MaxNotices \in Nat

VARIABLES
  task,        \* the bridge: its place, the request it makes, and turn_id
  nextId,      \* of the client's requests
  pendingIds,  \* requests whose response the client's task would deliver
  result,      \* what it delivered for the request that is awaited
  channel,     \* notifications and server requests for the bridge
  control,     \* the handle's commands
  controls,    \* how many it was given
  codexReady,  \* what the bridge said to the opener
  codexOpener, \* the caller of open_codex_session, then the owner of the handle
  consumer,    \* whether anyone still has the event receiver
  server,      \* the process: runs or is gone
  serverIn, serverOut, \* its stdin and stdout
  notices,     \* notifications and approval requests sent so far
  asked,       \* approval requests that have no reply yet
  latestTurn,  \* the turn the server started last
  routing,     \* reader_loop
  lost         \* ghost: a turn/start got no response in time

codexVars == <<task, nextId, pendingIds, result, channel, control, controls, codexReady,
               codexOpener, consumer, server, serverIn, serverOut, notices, asked,
               latestTurn, routing, lost>>
appServerVars == <<server, serverIn, serverOut, notices, asked, latestTurn>>
ownerVars == <<codexOpener, consumer, control, controls>>

Request(method, id, turn) == [method |-> method, id |-> id, turn |-> turn]
Response(id, ok, turn) == [kind |-> "response", id |-> id, ok |-> ok, turn |-> turn]
Notice(kind, id) == [kind |-> kind, id |-> id, ok |-> TRUE, turn |-> 0]

CodexInit ==
  /\ task = [pc |-> "request", method |-> "initialize", id |-> 0, turn |-> 0]
  /\ nextId = 1 /\ pendingIds = {} /\ result = <<>>
  /\ channel = <<>> /\ control = <<>> /\ controls = 0
  /\ codexReady = "none" /\ codexOpener = "blocked" /\ consumer = TRUE
  /\ server = "runs" /\ serverIn = <<>> /\ serverOut = <<>>
  /\ notices = 0 /\ asked = {} /\ latestTurn = 0
  /\ routing = TRUE /\ lost = FALSE

-------------------------------------------------------------------------------
(* The app-server, as far as the client relies on it.                        *)

\* The answer to the next request: its result or an error.
ServerAnswers ==
  /\ server = "runs"
  /\ serverIn # <<>> /\ Len(serverOut) < OutCapacity
  /\ serverIn' = Tail(serverIn)
  /\ \E ok \in BOOLEAN :
        LET starts == ok /\ Head(serverIn).method \in {"first turn", "turn"}
            turn == latestTurn + IF starts THEN 1 ELSE 0
        IN /\ latestTurn' = turn
           /\ serverOut' = Append(serverOut, Response(Head(serverIn).id, ok, turn))
  /\ UNCHANGED <<task, nextId, pendingIds, result, channel, codexReady, ownerVars, server,
                 notices, asked, routing, lost>>

\* "frame": a notification the bridge emits events for; "other": one it does not;
\* "approval": a request of the server's.
ServerNotifies ==
  /\ server = "runs"
  /\ notices < MaxNotices /\ Len(serverOut) < OutCapacity
  /\ notices' = notices + 1
  /\ \E kind \in {"frame", "other", "approval"} :
        /\ serverOut' = Append(serverOut, Notice(kind, notices'))
        /\ asked' = IF kind = "approval" THEN asked \cup {notices'} ELSE asked
  /\ UNCHANGED <<task, nextId, pendingIds, result, channel, codexReady, ownerVars, server,
                 serverIn, latestTurn, routing, lost>>

ServerExits ==
  /\ server = "runs"
  /\ server' = "gone" /\ serverIn' = <<>>
  /\ UNCHANGED <<task, nextId, pendingIds, result, channel, codexReady, ownerVars,
                 serverOut, notices, asked, latestTurn, routing, lost>>

-------------------------------------------------------------------------------
(* reader_loop, the client's task.                                           *)

\* A response goes to the request with its id, if that is still pending.
RouteResponse ==
  /\ routing /\ serverOut # <<>>
  /\ LET m == Head(serverOut) IN
     /\ m.kind = "response"
     /\ pendingIds' = pendingIds \ {m.id}
     /\ result' = IF m.id \in pendingIds THEN <<m>> ELSE result
  /\ serverOut' = Tail(serverOut)
  /\ UNCHANGED <<task, nextId, channel, codexReady, ownerVars, server, serverIn, notices,
                 asked, latestTurn, routing, lost>>

\* Anything else goes on the channel, once it has room.
RouteNotice ==
  /\ routing /\ serverOut # <<>>
  /\ Head(serverOut).kind # "response"
  /\ Len(channel) < ChannelSize
  /\ channel' = Append(channel, Head(serverOut))
  /\ serverOut' = Tail(serverOut)
  /\ UNCHANGED <<task, nextId, pendingIds, result, codexReady, ownerVars, server, serverIn,
                 notices, asked, latestTurn, routing, lost>>

\* End of file: whoever waits for a response sees that the client is closed.
RouterEnds ==
  /\ routing /\ serverOut = <<>> /\ server = "gone"
  /\ routing' = FALSE
  /\ pendingIds' = {}
  /\ UNCHANGED <<task, nextId, result, channel, codexReady, ownerVars, server, serverIn,
                 serverOut, notices, asked, latestTurn, lost>>

-------------------------------------------------------------------------------
(* The bridge: run_session.                                                  *)

\* The session is over: the child is killed, the runtime dropped.
End == /\ task' = [task EXCEPT !.pc = "ended"]
       /\ server' = "gone" /\ serverIn' = <<>>
       /\ routing' = FALSE

\* turn_id after a follow-up turn/start.
FirstTurn(turn) == task.turn \* mutated form
StartedTurn(turn) == turn

\* What follows a request, by its method: the start-up's three, then the loop's.
\* The notification after initialize needs no reply; it can only fail as the next
\* request would.
Succeeds(method, turn) ==
  CASE method = "initialize" ->
         /\ task' = [task EXCEPT !.pc = "request", !.method = "thread"]
         /\ UNCHANGED codexReady
    [] method = "thread" ->
         /\ task' = [task EXCEPT !.pc = "request", !.method = "first turn"]
         /\ UNCHANGED codexReady
    [] method = "first turn" ->
         /\ task' = [task EXCEPT !.pc = "select", !.turn = turn]
         /\ codexReady' = "ok"
    [] method = "turn" ->
         /\ task' = [task EXCEPT !.pc = "select", !.turn = StartedTurn(turn)]
         /\ UNCHANGED codexReady
    [] method = "steer" ->
         /\ task' = [task EXCEPT !.pc = "select", !.turn = turn]
         /\ UNCHANGED codexReady
    [] method = "interrupt" -> task' = [task EXCEPT !.pc = "select"] /\ UNCHANGED codexReady

\* A failure of the start-up ends the session; one of the loop's is reported, at
\* most, and the loop goes on.
StartingUp == task.method \in {"initialize", "thread", "first turn"}
Fails ==
  IF StartingUp THEN End /\ codexReady' = "err"
  ELSE task' = [task EXCEPT !.pc = "select"]
       /\ UNCHANGED <<codexReady, server, serverIn, routing>>

\* write_raw has no deadline: it blocks while the server does not read.
CanWrite == server = "gone" \/ Len(serverIn) < InCapacity

\* request_with_timeout registers the id, then writes, and only then starts its
\* timer.  When the write fails the id stays registered.
SendRequest ==
  /\ task.pc = "request"
  /\ CanWrite
  /\ nextId' = nextId + 1
  /\ pendingIds' = pendingIds \cup {nextId}
  /\ IF server = "gone" THEN Fails
     ELSE /\ serverIn' = Append(serverIn, Request(task.method, nextId, task.turn))
          /\ task' = [task EXCEPT !.pc = "await", !.id = nextId]
          /\ UNCHANGED <<codexReady, server, routing>>
  /\ UNCHANGED <<result, channel, ownerVars, serverOut, notices, asked, latestTurn, lost>>

ResponseArrives ==
  /\ task.pc = "await" /\ result # <<>>
  /\ result' = <<>>
  /\ IF result[1].ok
       THEN Succeeds(task.method, result[1].turn) /\ UNCHANGED <<server, serverIn, routing>>
       ELSE Fails
  /\ UNCHANGED <<nextId, pendingIds, channel, ownerVars, serverOut, notices, asked,
                 latestTurn, lost>>

\* The sender was dropped: CodexError::Closed.
RequestCloses ==
  /\ task.pc = "await" /\ result = <<>> /\ task.id \notin pendingIds
  /\ Fails
  /\ UNCHANGED <<nextId, pendingIds, result, channel, ownerVars, serverOut, notices, asked,
                 latestTurn, lost>>

NoDeadline == FALSE \* mutated form
Deadline == task.pc = "await" /\ result = <<>>
RequestTimesOut ==
  /\ Deadline
  /\ task.id \in pendingIds
  /\ pendingIds' = pendingIds \ {task.id}
  /\ lost' = (lost \/ task.method = "turn")
  /\ Fails
  /\ UNCHANGED <<nextId, result, channel, ownerVars, serverOut, notices, asked, latestTurn>>

\* select!: a message of the server's.  One that would emit events ends the
\* session when nobody listens; an approval request is answered, by a write.
HandleNotice ==
  /\ task.pc = "select" /\ channel # <<>>
  /\ Head(channel).kind = "approval" => CanWrite
  /\ channel' = Tail(channel)
  /\ task' = IF Head(channel).kind = "frame" /\ ~consumer
               THEN [task EXCEPT !.pc = "shutdown"] ELSE task
  /\ asked' = IF Head(channel).kind = "approval" THEN asked \ {Head(channel).id} ELSE asked
  /\ UNCHANGED <<nextId, pendingIds, result, codexReady, ownerVars, server, serverIn,
                 serverOut, notices, latestTurn, routing, lost>>

ChannelCloses ==
  /\ task.pc = "select" /\ channel = <<>> /\ ~routing
  /\ task' = [task EXCEPT !.pc = "shutdown"]
  /\ UNCHANGED <<nextId, pendingIds, result, channel, codexReady, ownerVars, server,
                 serverIn, serverOut, notices, asked, latestTurn, routing, lost>>

\* select!: a command of the handle's.
HandleControl ==
  /\ task.pc = "select" /\ control # <<>>
  /\ control' = Tail(control)
  /\ task' = IF Head(control) = "disconnect" THEN [task EXCEPT !.pc = "shutdown"]
             ELSE [task EXCEPT !.pc = "request", !.method = Head(control)]
  /\ UNCHANGED <<nextId, pendingIds, result, channel, controls, codexReady, codexOpener,
                 consumer, appServerVars, routing, lost>>

ControlCloses ==
  /\ task.pc = "select" /\ control = <<>> /\ codexOpener = "dropped"
  /\ task' = [task EXCEPT !.pc = "shutdown"]
  /\ UNCHANGED <<nextId, pendingIds, result, channel, codexReady, ownerVars, appServerVars,
                 routing, lost>>

\* CodexClient::shutdown: five seconds for the child to exit, then it is killed.
Shutdown ==
  /\ task.pc = "shutdown"
  /\ End
  /\ UNCHANGED <<nextId, pendingIds, result, channel, codexReady, ownerVars, serverOut,
                 notices, asked, latestTurn, lost>>

-------------------------------------------------------------------------------
(* The opener and the handle.                                                *)

\* After an error open_codex_session joins the bridge first.
CodexOpens ==
  /\ codexOpener = "blocked"
  /\ \/ codexReady = "ok" /\ codexOpener' = "open"
     \/ codexReady = "err" /\ task.pc = "ended" /\ codexOpener' = "failed"
  /\ UNCHANGED <<task, nextId, pendingIds, result, channel, control, controls, codexReady,
                 consumer, appServerVars, routing, lost>>

Command(command) ==
  /\ codexOpener = "open" /\ controls < MaxControls /\ task.pc # "ended"
  /\ controls' = controls + 1
  /\ control' = Append(control, command)
  /\ UNCHANGED <<task, nextId, pendingIds, result, channel, codexReady, codexOpener,
                 consumer, appServerVars, routing, lost>>

HandleDropped ==
  /\ codexOpener = "open"
  /\ codexOpener' = "dropped"
  /\ UNCHANGED <<task, nextId, pendingIds, result, channel, control, controls, codexReady,
                 consumer, appServerVars, routing, lost>>

ConsumerLeaves ==
  /\ codexOpener \in {"open", "dropped"} /\ consumer
  /\ consumer' = FALSE
  /\ UNCHANGED <<task, nextId, pendingIds, result, channel, control, controls, codexReady,
                 codexOpener, appServerVars, routing, lost>>

-------------------------------------------------------------------------------
TaskStep ==
  \/ SendRequest \/ ResponseArrives \/ RequestCloses \/ RequestTimesOut
  \/ HandleNotice \/ ChannelCloses \/ HandleControl \/ ControlCloses \/ Shutdown
RouterStep == RouteResponse \/ RouteNotice \/ RouterEnds
ServerStep == ServerAnswers \/ ServerNotifies \/ ServerExits
Commands == {"turn", "steer", "interrupt", "disconnect"}
OwnerStep == (\E command \in Commands : Command(command)) \/ HandleDropped \/ ConsumerLeaves

CodexNext == TaskStep \/ RouterStep \/ ServerStep \/ CodexOpens \/ OwnerStep

\* The runtime polls both tasks and deadlines pass.  Nothing of the server.
CodexFairness ==
  WF_codexVars(TaskStep) /\ WF_codexVars(RouterStep) /\ WF_codexVars(CodexOpens)
CodexSpec == CodexInit /\ [][CodexNext]_codexVars /\ CodexFairness

-------------------------------------------------------------------------------
(* Properties.                                                               *)

Methods == {"initialize", "thread", "first turn", "turn", "steer", "interrupt"}
ServerMessages == [kind : {"response", "frame", "other", "approval"}, id : Nat,
                   ok : BOOLEAN, turn : Nat]

\* Types, and: only the request that is awaited is registered, save those whose
\* write failed because the server is gone.
CodexTypeOK ==
  /\ task \in [pc : {"request", "await", "select", "shutdown", "ended"},
               method : Methods, id : Nat, turn : Nat]
  /\ nextId \in Nat
  /\ server # "gone" => pendingIds \subseteq IF task.pc = "await" THEN {task.id} ELSE {}
  /\ result \in Seq(ServerMessages) /\ Len(result) <= 1
  /\ channel \in Seq(ServerMessages) /\ Len(channel) <= ChannelSize
  /\ control \in Seq(Commands)
  /\ controls \in 0 .. MaxControls
  /\ codexReady \in {"none", "ok", "err"}
  /\ codexOpener \in {"blocked", "open", "failed", "dropped"}
  /\ consumer \in BOOLEAN
  /\ server \in {"runs", "gone"}
  /\ serverIn \in Seq([method : Methods, id : Nat, turn : Nat])
  /\ serverOut \in Seq(ServerMessages) /\ Len(serverOut) <= OutCapacity
  /\ notices \in 0 .. MaxNotices
  /\ asked \subseteq 1 .. MaxNotices
  /\ latestTurn \in Nat
  /\ routing \in BOOLEAN /\ lost \in BOOLEAN

\* turn_id is a copy: when the server comes to an interrupt, the turn that it
\* names is the one the server started last, whatever turns, steers, refusals and
\* late responses came before, unless a turn/start got no response in time.
InterruptHitsLatestTurn ==
  serverIn # <<>> /\ Head(serverIn).method = "interrupt" =>
    Head(serverIn).turn = latestTurn \/ lost

\* The bridge waits for room in the pipe to the server.
Blocked ==
  /\ ~CanWrite
  /\ \/ task.pc = "request"
     \/ task.pc = "select" /\ channel # <<>> /\ Head(channel).kind = "approval"

\* Whatever the server does, save that it stops reading while the bridge writes,
\* open_codex_session returns, the session ends once its handle is dropped, and an
\* approval request is answered, or the session ends; and it ends once the server
\* is gone.
CodexSessionEnds ==
  /\ (codexOpener = "blocked") ~> (codexOpener # "blocked" \/ Blocked)
  /\ (codexOpener = "dropped") ~> (task.pc = "ended" \/ Blocked)
  /\ (server = "gone") ~> (task.pc = "ended")
  /\ \A n \in 1 .. MaxNotices :
        (n \in asked) ~> (n \notin asked \/ task.pc = "ended" \/ Blocked)
===============================================================================
