------------------------------ MODULE LiveSession ------------------------------
(***************************************************************************)
(* The live sessions of `aikit serve` (serve/live_session.rs): concurrent   *)
(* create requests that reserve a slot, open an agent and insert a record,  *)
(* one blocking forwarder per session, the control and delete handlers, and *)
(* clients that leave their stream at any time.                             *)
(*                                                                          *)
(* The session engine of the SDK (claude_session.rs and its siblings) is    *)
(* abstracted to an agent that is open or closed and a queued Disconnect.   *)
(* Events are abstracted away, except that a forwarder notices a client     *)
(* that left only when it has an event to send.                             *)
(***************************************************************************)
EXTENDS Integers, FiniteSets

CONSTANTS Requests,         \* create requests, each for a session id of its own
          MaxSessionsValues \* the values of ServeConfig.max_sessions considered

ASSUME RequestsAssumption == IsFiniteSet(Requests)
ASSUME MaxLiveSessionsAssumption == MaxSessionsValues \subseteq Nat

VARIABLES
  max_sessions,  \* ServeConfig.max_sessions, fixed for the server
  open,          \* each request's progress through create_live_session_handler
  pending,       \* AppState.pending_live_sessions
  record,        \* LiveSessionRecord.status, or "none"
  forwarder,     \* each session's blocking forwarder
  stream,        \* "here" while the client reads the session's stream, then "gone"
  agent,         \* the session's agent process
  disconnecting, \* agents with a Disconnect queued, or their control dropped
  poisoned       \* a handler panicked while it held the live_sessions mutex

liveVars == <<max_sessions, open, pending, record, forwarder, stream, agent,
              disconnecting, poisoned>>

Active == {r \in Requests : record[r] = "Active"}

\* Requests that hold a PendingReservation.
Reserving == {r \in Requests : open[r] \in {"opening", "opened", "inserted"}}

LiveInit ==
  /\ max_sessions \in MaxSessionsValues
  /\ open = [r \in Requests |-> "new"]
  /\ pending = 0
  /\ record = [r \in Requests |-> "none"]
  /\ forwarder = [r \in Requests |-> "none"]
  /\ stream = [r \in Requests |-> "here"]
  /\ agent = [r \in Requests |-> "none"]
  /\ disconnecting = {}
  /\ poisoned = FALSE

-------------------------------------------------------------------------------
(* create_live_session_handler.                                              *)

\* try_reserve_live_slot, under the live_sessions lock.
HasSlotIgnoringOpens == Cardinality(Active) < max_sessions \* mutated form
HasSlot == Cardinality(Active) + pending < max_sessions

\* fetch_add of a new reservation, and fetch_sub when one is dropped.
Reserved == pending + 1

LeakedReservation == pending \* mutated form
Released == pending - 1

Reserve(r) ==
  /\ open[r] = "new"
  /\ ~poisoned
  /\ IF HasSlot
       THEN /\ pending' = Reserved
            /\ open' = [open EXCEPT ![r] = "opening"]
       ELSE /\ open' = [open EXCEPT ![r] = "refused"]
            /\ UNCHANGED pending
  /\ UNCHANGED <<max_sessions, record, forwarder, stream, agent, disconnecting,
                 poisoned>>

\* lock().unwrap() of a poisoned mutex panics: the request dies.
ReservePanics(r) ==
  /\ open[r] = "new"
  /\ poisoned
  /\ open' = [open EXCEPT ![r] = "failed"]
  /\ UNCHANGED <<max_sessions, pending, record, forwarder, stream, agent,
                 disconnecting, poisoned>>

\* open_claude_session and its siblings, without the lock.
OpenAgent(r) ==
  /\ open[r] = "opening"
  /\ open' = [open EXCEPT ![r] = "opened"]
  /\ agent' = [agent EXCEPT ![r] = "open"]
  /\ UNCHANGED <<max_sessions, pending, record, forwarder, stream,
                 disconnecting, poisoned>>

\* An early return drops the reservation.
OpenFails(r) ==
  /\ open[r] = "opening"
  /\ open' = [open EXCEPT ![r] = "failed"]
  /\ pending' = Released
  /\ UNCHANGED <<max_sessions, record, forwarder, stream, agent, disconnecting,
                 poisoned>>

\* The record is inserted under the lock and the forwarder spawned; the
\* reservation is still held.
Insert(r) ==
  /\ open[r] = "opened"
  /\ ~poisoned
  /\ record' = [record EXCEPT ![r] = "Active"]
  /\ forwarder' = [forwarder EXCEPT ![r] = "start"]
  /\ open' = [open EXCEPT ![r] = "inserted"]
  /\ UNCHANGED <<max_sessions, pending, stream, agent, disconnecting, poisoned>>

\* The panic unwinds: the control handle and the reservation are dropped.
InsertPanics(r) ==
  /\ open[r] = "opened"
  /\ poisoned
  /\ open' = [open EXCEPT ![r] = "failed"]
  /\ pending' = Released
  /\ disconnecting' = disconnecting \cup {r}
  /\ UNCHANGED <<max_sessions, record, forwarder, stream, agent, poisoned>>

\* The handler returns its stream; its reservation is dropped, without the lock.
Respond(r) ==
  /\ open[r] = "inserted"
  /\ open' = [open EXCEPT ![r] = "streaming"]
  /\ pending' = Released
  /\ UNCHANGED <<max_sessions, record, forwarder, stream, agent, disconnecting,
                 poisoned>>

-------------------------------------------------------------------------------
(* The blocking forwarder of a session.                                      *)

\* The synthetic SessionStarted frame.  Without a receiver the closure returns
\* at once and leaves the record as it is.
SendFirstFrame(r) ==
  /\ forwarder[r] = "start"
  /\ forwarder' = [forwarder EXCEPT ![r] =
                     IF stream[r] = "gone" THEN "abandoned" ELSE "forward"]
  /\ UNCHANGED <<max_sessions, open, pending, record, stream, agent,
                 disconnecting, poisoned>>

\* The loop is left with a break, so the record is still to be closed.
ReturnedInstead == "ended" \* mutated form
AfterFailedSend == "close"

\* An event for a client that has gone ends the loop.
SendFails(r) ==
  /\ forwarder[r] = "forward"
  /\ stream[r] = "gone"
  /\ forwarder' = [forwarder EXCEPT ![r] = AfterFailedSend]
  /\ UNCHANGED <<max_sessions, open, pending, record, stream, agent,
                 disconnecting, poisoned>>

\* The engine drops its only sender when it ends.
EngineKeepsSender(r) == FALSE \* mutated form
ChannelClosed(r) == agent[r] = "closed"

\* The end of the engine's event channel ends the loop too.
EventsEnd(r) ==
  /\ forwarder[r] = "forward"
  /\ ChannelClosed(r)
  /\ forwarder' = [forwarder EXCEPT ![r] = "close"]
  /\ UNCHANGED <<max_sessions, open, pending, record, stream, agent,
                 disconnecting, poisoned>>

\* A poisoned lock is skipped.
LeftActive(r) == record \* mutated form
ClosedRecord(r) == IF poisoned THEN record ELSE [record EXCEPT ![r] = "Closed"]

MarkClosed(r) ==
  /\ forwarder[r] = "close"
  /\ forwarder' = [forwarder EXCEPT ![r] = "ended"]
  /\ record' = ClosedRecord(r)
  /\ UNCHANGED <<max_sessions, open, pending, stream, agent, disconnecting,
                 poisoned>>

-------------------------------------------------------------------------------
(* The control and delete handlers, each under the lock for its whole body.  *)

\* POST control {"action": "disconnect"}.  The other actions only queue a
\* command for the agent; on a closed record all of them answer 410.
ControlDisconnect(r) ==
  /\ record[r] = "Active"
  /\ ~poisoned
  /\ disconnecting' = disconnecting \cup {r}
  /\ UNCHANGED <<max_sessions, open, pending, record, forwarder, stream, agent,
                 poisoned>>

\* POST control {"action": "get_context_usage"} on a Claude session whose
\* engine runs: the async handler calls blocking_recv, which panics inside a
\* tokio runtime, with the lock held.
ControlContextUsage(r) ==
  /\ record[r] = "Active"
  /\ agent[r] = "open"
  /\ ~poisoned
  /\ poisoned' = TRUE
  /\ UNCHANGED <<max_sessions, open, pending, record, forwarder, stream, agent,
                 disconnecting>>

\* DELETE, repeatable; the record stays in the map.
Delete(r) ==
  /\ record[r] # "none"
  /\ ~poisoned
  /\ disconnecting' = disconnecting \cup {r}
  /\ record' = [record EXCEPT ![r] = "Closed"]
  /\ UNCHANGED <<max_sessions, open, pending, forwarder, stream, agent,
                 poisoned>>

-------------------------------------------------------------------------------
(* Clients and agents.                                                       *)

LiveClientLeaves(r) ==
  /\ open[r] = "streaming"
  /\ stream[r] = "here"
  /\ stream' = [stream EXCEPT ![r] = "gone"]
  /\ UNCHANGED <<max_sessions, open, pending, record, forwarder, agent,
                 disconnecting, poisoned>>

\* The engine takes Disconnect from its control channel.
Disconnected(r) ==
  /\ agent[r] = "open"
  /\ r \in disconnecting
  /\ agent' = [agent EXCEPT ![r] = "closed"]
  /\ UNCHANGED <<max_sessions, open, pending, record, forwarder, stream,
                 disconnecting, poisoned>>

\* The agent's own stream ends, or an event finds the receiver dropped.
AgentEnds(r) ==
  /\ agent[r] = "open"
  /\ agent' = [agent EXCEPT ![r] = "closed"]
  /\ UNCHANGED <<max_sessions, open, pending, record, forwarder, stream,
                 disconnecting, poisoned>>

-------------------------------------------------------------------------------

Create(r) == \/ Reserve(r) \/ ReservePanics(r) \/ OpenAgent(r) \/ OpenFails(r)
             \/ Insert(r) \/ InsertPanics(r) \/ Respond(r)

Forward(r) == SendFirstFrame(r) \/ SendFails(r) \/ EventsEnd(r) \/ MarkClosed(r)

Control(r) == ControlDisconnect(r) \/ ControlContextUsage(r) \/ Delete(r)

Environment(r) == LiveClientLeaves(r) \/ Disconnected(r) \/ AgentEnds(r)

LiveNext == \E r \in Requests : Create(r) \/ Forward(r) \/ Control(r) \/ Environment(r)

LiveSpec == LiveInit /\ [][LiveNext]_liveVars

\* Handlers and forwarders are scheduled and an engine reads its commands.  No
\* agent has to send an event or to end by itself.
LiveFairness ==
  \A r \in Requests :
     /\ WF_liveVars(Create(r))
     /\ WF_liveVars(SendFirstFrame(r) \/ EventsEnd(r) \/ MarkClosed(r))
     /\ WF_liveVars(Disconnected(r))

-------------------------------------------------------------------------------
(* Properties.                                                               *)

LiveTypeOK ==
  /\ max_sessions \in MaxSessionsValues
  /\ open \in [Requests -> {"new", "refused", "failed", "opening", "opened",
                            "inserted", "streaming"}]
  /\ pending \in Nat
  /\ record \in [Requests -> {"none", "Active", "Closed"}]
  /\ forwarder \in [Requests -> {"none", "start", "forward", "close", "ended",
                                 "abandoned"}]
  /\ stream \in [Requests -> {"here", "gone"}]
  /\ agent \in [Requests -> {"none", "open", "closed"}]
  /\ disconnecting \in SUBSET Requests
  /\ poisoned \in BOOLEAN

\* PendingReservation: every exit path of a create request gives its slot back
\* exactly once, so the unsigned counter neither leaks a slot nor wraps.
ReservationsBalance == pending = Cardinality(Reserving)

\* Requests that use a slot: those with an active record, and those opening an
\* agent for a record to come.
Claimed == Active \cup {r \in Requests : open[r] \in {"opening", "opened"}}

\* try_reserve_live_slot: however many opens run at once, and whatever ends or
\* is deleted meanwhile, the slots in use are never more than max_sessions.
LiveCapacityRespected == Cardinality(Claimed) <= max_sessions

\* A session whose forwarder ran to its end is not listed as active, however
\* its end raced a delete, unless the lock was poisoned.
EndedSessionIsClosed ==
  \A r \in Requests : forwarder[r] = "ended" /\ ~poisoned => record[r] = "Closed"

\* The slot of an agent that has ended is given back, unless the client was
\* gone before the first frame or the lock was poisoned.
EndedAgentFreesItsSlot ==
  \A r \in Requests :
     (record[r] = "Active" /\ agent[r] = "closed")
        ~> (record[r] = "Closed" \/ forwarder[r] = "abandoned" \/ poisoned)

\* DELETE and the disconnect action: the agent is brought down and the stream
\* of the session ends, even when the lock is poisoned afterwards.
DisconnectEndsStream ==
  \A r \in Requests :
     (r \in disconnecting /\ record[r] # "none")
        ~> (agent[r] = "closed" /\ forwarder[r] \in {"ended", "abandoned"})

\* live_session.rs: live sessions "enforce the same max_sessions cap one-shot
\* runs already have", or a caller "can open unbounded long-lived agent
\* subprocesses".  Agents nobody has told to disconnect are never more than the
\* cap.
LiveAgentsWithinCap ==
  Cardinality({r \in Requests : agent[r] = "open" /\ r \notin disconnecting})
     <= max_sessions
===============================================================================
