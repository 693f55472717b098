------------------------------ MODULE RunSession ------------------------------
(***************************************************************************)
(* One-shot runs of `aikit serve` (src/cli/serve/run_session.rs): the      *)
(* registry of sessions behind one mutex, the POST handler that validates  *)
(* and then upserts a record and spawns the run, the outer task that waits *)
(* for the blocking run_fn, its timeout or the client's departure, the     *)
(* relay between the two event channels, DELETE, pruning, and the stream   *)
(* the client reads.                                                       *)
(*                                                                         *)
(* Each turn is a run r with its own handler, task, relay, run_fn, channels*)
(* and client.  An agent event is its number in the order of emission, and *)
(* one of them may be a QuotaExceeded; the two serve-level frames are 0    *)
(* and -1.  Left out: the backend resume token, the stderr text, and the   *)
(* synthetic first frame.                                                  *)
(***************************************************************************)
EXTENDS Integers, Sequences, FiniteSets

CONSTANTS Sessions,     \* server session ids
          Runs,         \* turns: one POST each
          Stored,       \* sessions the persistent SessionStore can resume
          MaxSessions,  \* ServeConfig.max_sessions
          MaxEvents,    \* bound: agent events of one run
          Capacity,     \* slots of each event channel (64 in the code)
          Outcomes,     \* the ways run_fn may return
          None          \* no handle, no exit code, no session yet

ASSUME SessionsFinite        == IsFiniteSet(Sessions)
ASSUME StoredAssumption      == Stored \subseteq Sessions
ASSUME MaxSessionsAssumption == MaxSessions \in Nat \ {0}
ASSUME BoundsAssumption      == MaxEvents \in Nat /\ Capacity \in Nat \ {0}
ASSUME NoneAssumption        == None \notin Runs \cup Sessions \cup Int

VARIABLES
  \* the registry, AppState.runs
  status,         \* RunRecord.status by session; "absent" without a record
  abort_handle,   \* RunRecord.abort_handle: the run whose task it aborts
  cancel_handle,  \* RunRecord.cancel: the run it cancels
  last_exit_code, \* RunRecord.last_exit_code
  known,          \* session ids in existence, minted here or stored
  \* the parts of each run
  session,        \* the session a run was posted to
  handler,        \* the POST handler
  task,           \* the outer tokio task
  run_fn,         \* the blocking agent run: "running", or how it returned
  cancelled,      \* cancellation has been dispatched for the run
  emitted,        \* agent events the run has produced
  quota,          \* the first QuotaExceeded among them, 0 if there is none
  inner, outer,   \* the two channels
  relay,          \* the relay task
  client,         \* the reader of the response
  received,       \* frames the client has read
  reported,       \* the exit code of the response
  \* DELETE handlers between their critical section and the kill
  stopping

registry == <<status, abort_handle, cancel_handle, last_exit_code>>
pipe     == <<emitted, quota, inner, outer, relay>>
reader   == <<client, received, reported>>
vars == <<registry, known, session, handler, task, run_fn, cancelled, pipe,
          reader, stopping>>

ErrorFrame      == 0
RunTimeoutFrame == -1
Frames == -1 .. MaxEvents

\* How run_fn returns: exit code 0; non-zero with or without a stderr tail;
\* a RunError; or the blocking thread panicked.
AllOutcomes == {"success", "failure", "silent_failure", "error", "panic"}
ASSUME OutcomesAssumption == Outcomes \subseteq AllOutcomes

ZeroByDefault(outcome) == 0 \* mutated form
ExitCode(outcome) == IF outcome = "success" THEN 0 ELSE 1

\* A task is over when it returned or was aborted at an await.
TaskStates == {"none", "select", "send_timeout", "close_timed_out",
               "send_error", "settle", "over"}

\* The server has served a turn of each session of earlier before.
InitAfter(earlier) ==
  /\ status = [s \in Sessions |-> IF s \in earlier THEN "idle" ELSE "absent"]
  /\ abort_handle = [s \in Sessions |-> None]
  /\ cancel_handle = [s \in Sessions |-> None]
  /\ last_exit_code = [s \in Sessions |-> IF s \in earlier THEN ExitCode("success") ELSE None]
  /\ known = Stored \cup earlier
  /\ session = [r \in Runs |-> None]
  /\ handler = [r \in Runs |-> "none"]
  /\ task = [r \in Runs |-> "none"]
  /\ run_fn = [r \in Runs |-> "none"]
  /\ cancelled = {}
  /\ emitted = [r \in Runs |-> 0]
  /\ quota = [r \in Runs |-> 0]
  /\ inner = [r \in Runs |-> <<>>]
  /\ outer = [r \in Runs |-> <<>>]
  /\ relay = [r \in Runs |-> "none"]
  /\ client = [r \in Runs |-> "none"]
  /\ received = [r \in Runs |-> <<>>]
  /\ reported = [r \in Runs |-> None]
  /\ stopping = {}

Init == InitAfter({})

Running == {s \in Sessions : status[s] = "running"}

-------------------------------------------------------------------------------
(* POST /api/v1/messages.                                                    *)

\* A request without a session id: spawn_run will mint one.
PostNew(r, s) ==
  /\ handler[r] = "none"
  /\ s \notin known
  /\ known' = known \cup {s}
  /\ session' = [session EXCEPT ![r] = s]
  /\ handler' = [handler EXCEPT ![r] = "validated"]
  /\ UNCHANGED <<registry, task, run_fn, cancelled, pipe, reader, stopping>>

\* A request that resumes s: validate_request takes the lock to find the record
\* (or looks in the SessionStore) and releases it.
PostResume(r, s) ==
  /\ handler[r] = "none"
  /\ status[s] # "absent" \/ s \in Stored
  /\ known' = known \cup {s}
  /\ session' = [session EXCEPT ![r] = s]
  /\ handler' = [handler EXCEPT ![r] = "validated"]
  /\ UNCHANGED <<registry, task, run_fn, cancelled, pipe, reader, stopping>>

\* The critical section of spawn_run refuses the turn: busy (409), closed (404)
\* or at capacity (429).
AdmitsOneMore(s) == /\ status[s] \notin {"running", "closed"} \* mutated form
                    /\ Cardinality(Running) <= MaxSessions
Admits(s) == /\ status[s] \notin {"running", "closed"}
             /\ Cardinality(Running) < MaxSessions

RefuseRun(r) ==
  /\ handler[r] = "validated"
  /\ ~Admits(session[r])
  /\ handler' = [handler EXCEPT ![r] = "refused"]
  /\ UNCHANGED <<registry, known, session, task, run_fn, cancelled, pipe,
                 reader, stopping>>

\* It upserts the record, then starts the relay and the task.
SpawnRun(r) ==
  /\ handler[r] = "validated"
  /\ Admits(session[r])
  /\ status' = [status EXCEPT ![session[r]] = "running"]
  /\ abort_handle' = [abort_handle EXCEPT ![session[r]] = None]
  /\ cancel_handle' = [cancel_handle EXCEPT ![session[r]] = r]
  /\ last_exit_code' = [last_exit_code EXCEPT ![session[r]] = None]
  /\ handler' = [handler EXCEPT ![r] = "spawned"]
  /\ task' = [task EXCEPT ![r] = "select"]
  /\ run_fn' = [run_fn EXCEPT ![r] = "running"]
  /\ relay' = [relay EXCEPT ![r] = "open"]
  /\ client' = [client EXCEPT ![r] = "reading"]
  /\ UNCHANGED <<known, session, cancelled, emitted, quota, inner, outer,
                 received, reported, stopping>>

\* A second critical section stores the abort handle in whatever record the
\* session has by then.
StoreAbortHandle(r) ==
  /\ handler[r] = "spawned"
  /\ handler' = [handler EXCEPT ![r] = "streaming"]
  /\ abort_handle' = IF status[session[r]] = "absent" THEN abort_handle
                     ELSE [abort_handle EXCEPT ![session[r]] = r]
  /\ UNCHANGED <<status, cancel_handle, last_exit_code, known, session, task,
                 run_fn, cancelled, pipe, reader, stopping>>

-------------------------------------------------------------------------------
(* The blocking run_fn and the relay.                                        *)

\* blocking_send waits for a slot; once the relay is gone it fails, ignored.
Emit(r) ==
  /\ run_fn[r] = "running"
  /\ emitted[r] < MaxEvents
  /\ relay[r] = "open" => Len(inner[r]) < Capacity
  /\ emitted' = [emitted EXCEPT ![r] = @ + 1]
  /\ \/ UNCHANGED quota
     \/ quota[r] = 0 /\ quota' = [quota EXCEPT ![r] = emitted[r] + 1]
  /\ inner' = IF relay[r] = "open"
              THEN [inner EXCEPT ![r] = Append(@, emitted[r] + 1)]
              ELSE inner
  /\ UNCHANGED <<registry, known, session, handler, task, run_fn, cancelled,
                 outer, relay, reader, stopping>>

\* The agent ends by itself, by its own timeout or because it was cancelled.
Return(r) ==
  /\ run_fn[r] = "running"
  /\ \E outcome \in Outcomes : run_fn' = [run_fn EXCEPT ![r] = outcome]
  /\ UNCHANGED <<registry, known, session, handler, task, cancelled, pipe,
                 reader, stopping>>

\* One item from the inner to the outer channel; the relay breaks off when the
\* client has gone.
Relay(r) ==
  /\ relay[r] = "open"
  /\ inner[r] # <<>>
  /\ IF client[r] = "gone"
       THEN /\ relay' = [relay EXCEPT ![r] = "closed"]
            /\ inner' = [inner EXCEPT ![r] = <<>>]
            /\ UNCHANGED outer
       ELSE /\ Len(outer[r]) < Capacity
            /\ outer' = [outer EXCEPT ![r] = Append(@, Head(inner[r]))]
            /\ inner' = [inner EXCEPT ![r] = Tail(@)]
            /\ UNCHANGED relay
  /\ UNCHANGED <<registry, known, session, handler, task, run_fn, cancelled,
                 emitted, quota, reader, stopping>>

\* The inner channel is closed when run_fn and the task have dropped their
\* senders, and drained.
NotDrained(r) == TRUE \* mutated form
Drained(r) == inner[r] = <<>>

RelayEnds(r) ==
  /\ relay[r] = "open"
  /\ Drained(r)
  /\ run_fn[r] # "running"
  /\ task[r] = "over"
  /\ relay' = [relay EXCEPT ![r] = "closed"]
  /\ UNCHANGED <<registry, known, session, handler, task, run_fn, cancelled,
                 emitted, quota, inner, outer, reader, stopping>>

-------------------------------------------------------------------------------
(* The outer task.                                                           *)

Advance(r, from, to) == /\ task[r] = from
                        /\ task' = [task EXCEPT ![r] = to]

\* A send waits for a slot and fails, ignored, once the client has gone.
Send(r, frame) ==
  \/ /\ client[r] = "gone"
     /\ UNCHANGED outer
  \/ /\ client[r] # "gone"
     /\ Len(outer[r]) < Capacity
     /\ outer' = [outer EXCEPT ![r] = Append(@, frame)]

\* The end of every run, in one critical section: the record, if there still is
\* one, gets its new status (`exit` is the new exit code) and loses its handles;
\* then prune_closed_and_stale drops the closed records and those idle for more
\* than an hour, never the one just touched unless it is closed.
Conclude(s, new, exit) ==
  LET concluded == IF status[s] = "absent" THEN status
                   ELSE [status EXCEPT ![s] = new]
  IN  \E stale \in SUBSET {i \in Sessions \ {s} : status[i] = "idle"} :
        LET gone(i)    == concluded[i] = "closed" \/ i \in stale
            cleared(i) == gone(i) \/ i = s
        IN  /\ status' = [i \in Sessions |->
                            IF gone(i) THEN "absent" ELSE concluded[i]]
            /\ abort_handle' = [i \in Sessions |->
                            IF cleared(i) THEN None ELSE abort_handle[i]]
            /\ cancel_handle' = [i \in Sessions |->
                            IF cleared(i) THEN None ELSE cancel_handle[i]]
            /\ last_exit_code' = [i \in Sessions |->
                            IF gone(i) \/ concluded[i] = "absent" THEN None
                            ELSE IF i = s THEN exit ELSE last_exit_code[i]]

\* The server-level timeout fires: dispatch the cancellation, then tell the
\* client, then close the record.
TimeOut(r) ==
  /\ run_fn[r] = "running"
  /\ Advance(r, "select", "send_timeout")
  /\ cancelled' = cancelled \cup {r}
  /\ UNCHANGED <<registry, known, session, handler, run_fn, pipe, reader,
                 stopping>>

SendTimeoutFrame(r) ==
  /\ Advance(r, "send_timeout", "close_timed_out")
  /\ Send(r, RunTimeoutFrame)
  /\ UNCHANGED <<registry, known, session, handler, run_fn, cancelled, emitted,
                 quota, inner, relay, reader, stopping>>

CloseTimedOut(r) ==
  /\ Advance(r, "close_timed_out", "over")
  /\ Conclude(session[r], "closed", 1)
  /\ UNCHANGED <<known, session, handler, run_fn, cancelled, pipe, reader,
                 stopping>>

\* The client went away, or run_fn panicked: cancel, close the record, return.
IgnoredJoinError(r) == FALSE \* mutated form
JoinError(r) == run_fn[r] = "panic"

AbandonKeepsRecord(r) == \* mutated form
  /\ client[r] = "gone" \/ JoinError(r)
  /\ Advance(r, "select", "over")
  /\ cancelled' = cancelled \cup {r}
  /\ UNCHANGED <<registry, known, session, handler, run_fn, pipe, reader, stopping>>

Abandon(r) ==
  /\ client[r] = "gone" \/ JoinError(r)
  /\ Advance(r, "select", "over")
  /\ cancelled' = cancelled \cup {r}
  /\ Conclude(session[r], "closed", last_exit_code[session[r]])
  /\ UNCHANGED <<known, session, handler, run_fn, pipe, reader, stopping>>

\* run_fn returned a result: its exit code goes to the record, if there is one,
\* and a failure with a stderr tail becomes an error frame.
TakeResult(r) ==
  /\ run_fn[r] \in {"success", "failure", "silent_failure"}
  /\ Advance(r, "select",
             IF run_fn[r] = "failure" THEN "send_error" ELSE "settle")
  /\ last_exit_code' =
       IF status[session[r]] = "absent" THEN last_exit_code
       ELSE [last_exit_code EXCEPT ![session[r]] = ExitCode(run_fn[r])]
  /\ UNCHANGED <<status, abort_handle, cancel_handle, known, session, handler,
                 run_fn, cancelled, pipe, reader, stopping>>

TakeError(r) ==
  /\ run_fn[r] = "error"
  /\ Advance(r, "select", "send_error")
  /\ UNCHANGED <<registry, known, session, handler, run_fn, cancelled, pipe,
                 reader, stopping>>

SendErrorFrame(r) ==
  /\ Advance(r, "send_error", "settle")
  /\ Send(r, ErrorFrame)
  /\ UNCHANGED <<registry, known, session, handler, run_fn, cancelled, emitted,
                 quota, inner, relay, reader, stopping>>

\* The session may take its next turn.
Settle(r) ==
  /\ Advance(r, "settle", "over")
  /\ Conclude(session[r], "idle", last_exit_code[session[r]])
  /\ UNCHANGED <<known, session, handler, run_fn, cancelled, pipe, reader,
                 stopping>>

-------------------------------------------------------------------------------
(* DELETE /api/v1/sessions/{id}.                                             *)

\* Unknown and closed sessions are a 404 that changes nothing.
DeleteRun(s) ==
  /\ status[s] \in {"running", "idle"}
  /\ status' = [status EXCEPT ![s] = "closed"]
  /\ abort_handle' = [abort_handle EXCEPT ![s] = None]
  /\ cancel_handle' = [cancel_handle EXCEPT ![s] = None]
  /\ stopping' = stopping \cup
                 {[abort |-> abort_handle[s], cancel |-> cancel_handle[s]]}
  /\ UNCHANGED <<last_exit_code, known, session, handler, task, run_fn,
                 cancelled, pipe, reader>>

\* The run a DELETE cancels, if its record held a handle.
CancelledBy(k) == {k.cancel} \ {None}

\* Outside the lock: dispatch the cancellation and abort the task, which ends
\* at its next await unless it gets to its end first.
Stop(k) ==
  /\ k \in stopping
  /\ stopping' = stopping \ {k}
  /\ cancelled' = cancelled \cup CancelledBy(k)
  /\ \/ /\ k.abort # None
        /\ task[k.abort] \in {"select", "send_timeout", "send_error"}
        /\ task' = [task EXCEPT ![k.abort] = "over"]
     \/ /\ IF k.abort = None THEN TRUE ELSE task[k.abort] # "select"
        /\ UNCHANGED task
  /\ UNCHANGED <<registry, known, session, handler, run_fn, pipe, reader>>

-------------------------------------------------------------------------------
(* The client's stream.                                                      *)

Receive(r) ==
  /\ handler[r] = "streaming"
  /\ client[r] = "reading"
  /\ outer[r] # <<>>
  /\ received' = [received EXCEPT ![r] = Append(@, Head(outer[r]))]
  /\ outer' = [outer EXCEPT ![r] = Tail(@)]
  /\ UNCHANGED <<registry, known, session, handler, task, run_fn, cancelled,
                 emitted, quota, inner, relay, client, reported, stopping>>

\* is_error_signal: a serve-level frame, or the agent's QuotaExceeded.
SawError(r) ==
  \E i \in 1 .. Len(received[r]) :
     received[r][i] <= 0 \/ received[r][i] = quota[r]

\* The code of the done event of a stream, and of the JSON body of a sync
\* response, given the exit code in the session's record.
DoneCode(r, exit) == IF exit # None THEN exit ELSE IF SawError(r) THEN 1 ELSE 0
BodyCode(r, exit) == IF SawError(r) \/ exit \notin {None, 0} THEN 1 ELSE 0

\* Every sender is gone and the channel is drained: the response is completed
\* from the record as it is now.
EndStream(r) ==
  /\ handler[r] = "streaming"
  /\ client[r] = "reading"
  /\ outer[r] = <<>>
  /\ relay[r] = "closed"
  /\ task[r] = "over"
  /\ client' = [client EXCEPT ![r] = "done"]
  /\ LET exit == last_exit_code[session[r]]
     IN  \E code \in {DoneCode(r, exit), BodyCode(r, exit)} :
           reported' = [reported EXCEPT ![r] = code]
  /\ UNCHANGED <<registry, known, session, handler, task, run_fn, cancelled,
                 pipe, received, stopping>>

ClientLeaves(r) ==
  /\ handler[r] = "streaming"
  /\ client[r] = "reading"
  /\ client' = [client EXCEPT ![r] = "gone"]
  /\ outer' = [outer EXCEPT ![r] = <<>>]
  /\ UNCHANGED <<registry, known, session, handler, task, run_fn, cancelled,
                 emitted, quota, inner, relay, received, reported, stopping>>

-------------------------------------------------------------------------------

\* What the server and a reading client do by themselves.
Progress(r) ==
  \/ RefuseRun(r) \/ SpawnRun(r) \/ StoreAbortHandle(r)
  \/ Relay(r) \/ RelayEnds(r)
  \/ TimeOut(r) \/ SendTimeoutFrame(r) \/ CloseTimedOut(r) \/ Abandon(r)
  \/ TakeResult(r) \/ TakeError(r) \/ SendErrorFrame(r) \/ Settle(r)
  \/ Receive(r) \/ EndStream(r)

Step(r) ==
  \/ \E s \in Sessions : PostNew(r, s) \/ PostResume(r, s)
  \/ Emit(r) \/ Return(r) \/ ClientLeaves(r)
  \/ Progress(r)

Next == \/ \E r \in Runs : Step(r)
        \/ \E s \in Sessions : DeleteRun(s)
        \/ \E k \in stopping : Stop(k)

Spec == Init /\ [][Next]_vars

\* The tokio tasks of a run are scheduled, its timer fires while run_fn has not
\* returned, and a client that stays reads its stream.  Nothing makes run_fn
\* return: an agent may outlive its cancellation.
Fairness == \A r \in Runs : WF_vars(Progress(r))

-------------------------------------------------------------------------------
(* Properties.                                                               *)

TypeOK ==
  /\ status \in [Sessions -> {"absent", "running", "idle", "closed"}]
  /\ abort_handle \in [Sessions -> Runs \cup {None}]
  /\ cancel_handle \in [Sessions -> Runs \cup {None}]
  /\ last_exit_code \in [Sessions -> {None, 0, 1}]
  /\ known \in SUBSET Sessions
  /\ session \in [Runs -> Sessions \cup {None}]
  /\ handler \in [Runs -> {"none", "validated", "refused", "spawned",
                           "streaming"}]
  /\ task \in [Runs -> TaskStates]
  /\ run_fn \in [Runs -> {"none", "running"} \cup Outcomes]
  /\ cancelled \in SUBSET Runs
  /\ emitted \in [Runs -> 0 .. MaxEvents]
  /\ quota \in [Runs -> 0 .. MaxEvents]
  /\ inner \in [Runs -> Seq(Frames)]
  /\ outer \in [Runs -> Seq(Frames)]
  /\ relay \in [Runs -> {"none", "open", "closed"}]
  /\ client \in [Runs -> {"none", "reading", "gone", "done"}]
  /\ received \in [Runs -> Seq(Frames)]
  /\ reported \in [Runs -> {None, 0, 1}]
  /\ stopping \in SUBSET [abort : Runs \cup {None}, cancel : Runs \cup {None}]

\* spawn_run: however requests, ends of runs, deletions and prunings interleave,
\* no more than max_sessions sessions are running.
CapacityRespected == Cardinality(Running) <= MaxSessions

\* A session is never stuck busy (409 for ever, and a capacity slot lost), and a
\* DELETE always finds the run to cancel: the record of a running session holds
\* the cancel handle of a run of its own whose task is still there to conclude it.
BusySessionHasTask ==
  \A s \in Running :
     \E r \in Runs : /\ cancel_handle[s] = r
                     /\ session[r] = s
                     /\ task[r] \notin {"none", "over"}

\* The events of queue are those numbered low + 1 to high, each once and in
\* order, whatever serve frames come between.
Carries(queue, low, high) ==
  /\ {queue[i] : i \in DOMAIN queue} \ {ErrorFrame, RunTimeoutFrame} = low + 1 .. high
  /\ \A i, j \in DOMAIN queue :
        (i < j /\ queue[i] > 0 /\ queue[j] > 0) => queue[i] < queue[j]

\* What a client has read of its run's agent events is a prefix of what the
\* agent emitted, in order, whatever serve frames come between; and all of it
\* once the response is complete, also after a timeout or a DELETE.
StreamFaithful ==
  \A r \in Runs :
     \E n \in 0 .. emitted[r] : /\ Carries(received[r], 0, n)
                                /\ client[r] = "done" => n = emitted[r]

\* A response that completes before its session is given another turn, and whose
\* record is neither gone nor deleted, reports success only if run_fn succeeded;
\* and failure only if run_fn failed or the agent said QuotaExceeded on the way.
ReportsOwnExit ==
  [][\A r \in Runs :
        (/\ client[r] = "reading" /\ client'[r] = "done"
         /\ status[session[r]] = "idle"
         /\ \A q \in Runs \ {r} : session[q] # session[r])
        => /\ reported'[r] = 0 => run_fn[r] = "success"
           /\ reported'[r] # 0 => run_fn[r] # "success" \/ quota[r] # 0]_vars

\* No turn waits for ever, even for an agent that cannot be killed: it is refused,
\* or its task ends (and with it the record stops being busy).  Once run_fn has
\* returned as well, the stream completes, unless its client has left.
EveryTurnEnds ==
  \A r \in Runs :
     /\ handler[r] = "validated" ~> (handler[r] = "refused" \/ task[r] = "over")
     /\ run_fn[r] \in Outcomes ~> client[r] \in {"done", "gone"}

\* ADR 0014, decision 4: "the busy check cannot admit a second concurrent run on
\* the same session".
OneRunPerSession ==
  \A q, r \in Runs :
     (q # r /\ run_fn[q] = "running" /\ run_fn[r] = "running") =>
        session[q] # session[r]

\* delete_run_handler: "DELETE terminates the underlying subprocess through the
\* same cancel mechanism as a timeout or client disconnect, not just detaching the
\* tokio task that was draining it".  When a run's task is over and its run_fn is
\* not, the run has been cancelled or a DELETE is about to cancel it.
NoAbandonedRun ==
  \A r \in Runs :
     (task[r] = "over" /\ run_fn[r] = "running") =>
        \/ r \in cancelled
        \/ \E k \in stopping : k.cancel = r
===============================================================================
