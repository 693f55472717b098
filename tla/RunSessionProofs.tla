--------------------------- MODULE RunSessionProofs ----------------------------
(***************************************************************************)
(* Proofs about module RunSession, for any sessions, any number of runs and *)
(* any max_sessions: types, the cap on running sessions, and that a running *)
(* session's record holds the handle of a live task of its own.             *)
(*                                                                         *)
(* The last is not inductive.  A DELETE may abort a task through a handle   *)
(* that a slow POST handler stored long after its critical section, so one  *)
(* has to know which records such a handle can have reached (HandlesOwned), *)
(* and that no handle on its way to be aborted belongs to the run a running *)
(* session depends on (StopsMissBusy).                                      *)
(***************************************************************************)
EXTENDS RunSession, FiniteSetTheorems, TLAPS

\* A handler past validation has its session; handles name started runs of
\* their session.
HandlesOwned ==
  /\ \A r \in Runs : handler[r] # "none" => session[r] \in Sessions
  /\ \A r \in Runs : task[r] # "none" => handler[r] \in {"spawned", "streaming"}
  /\ \A s \in Sessions :
        abort_handle[s] # None =>
           /\ handler[abort_handle[s]] = "streaming"
           /\ session[abort_handle[s]] = s
  /\ \A k \in stopping : k.abort # None => handler[k.abort] = "streaming"

StopsMissBusy ==
  \A k \in stopping : \A s \in Running :
     k.abort # None => k.abort # cancel_handle[s]

OwnInv == HandlesOwned /\ StopsMissBusy /\ BusySessionHasTask

IInv == TypeOK /\ OwnInv /\ CapacityRespected

-------------------------------------------------------------------------------
(* Types.                                                                    *)

LEMMA FramesOfEvents ==
  ASSUME NEW n \in 0 .. MaxEvents, n < MaxEvents
  PROVE  n + 1 \in 0 .. MaxEvents /\ n + 1 \in Frames
BY BoundsAssumption DEF Frames

LEMMA ServeFrames == ErrorFrame \in Frames /\ RunTimeoutFrame \in Frames
BY BoundsAssumption DEF Frames, ErrorFrame, RunTimeoutFrame

\* Conclude leaves the registry well typed.
LEMMA ConcludeTypes ==
  ASSUME TypeOK, NEW s \in Sessions, NEW new \in {"idle", "closed"},
         NEW exit \in {None, 0, 1}, Conclude(s, new, exit)
  PROVE  /\ status' \in [Sessions -> {"absent", "running", "idle", "closed"}]
         /\ abort_handle' \in [Sessions -> Runs \cup {None}]
         /\ cancel_handle' \in [Sessions -> Runs \cup {None}]
         /\ last_exit_code' \in [Sessions -> {None, 0, 1}]
BY DEF TypeOK, Conclude

LEMMA FrameSequences ==
  ASSUME NEW q \in Seq(Frames)
  PROVE  /\ \A f \in Frames : Append(q, f) \in Seq(Frames)
         /\ q # <<>> => Head(q) \in Frames /\ Tail(q) \in Seq(Frames)
OBVIOUS

LEMMA SendTypes ==
  ASSUME TypeOK, NEW r \in Runs, NEW frame \in Frames, Send(r, frame)
  PROVE  outer' \in [Runs -> Seq(Frames)]
<1>1. outer[r] \in Seq(Frames)
  BY DEF TypeOK
<1>2. Append(outer[r], frame) \in Seq(Frames)
  BY <1>1, FrameSequences
<1> QED
  BY <1>2 DEF TypeOK, Send

LEMMA PostTypes ==
  ASSUME TypeOK, NEW r \in Runs,
         \/ \E s \in Sessions : PostNew(r, s) \/ PostResume(r, s)
         \/ RefuseRun(r) \/ SpawnRun(r) \/ StoreAbortHandle(r)
  PROVE  TypeOK'
<1> USE DEF TypeOK, TaskStates, registry, pipe, reader
<1>1. CASE \E s \in Sessions : PostNew(r, s)
  BY <1>1 DEF PostNew
<1>2. CASE \E s \in Sessions : PostResume(r, s)
  BY <1>2 DEF PostResume
<1>3. CASE RefuseRun(r)
  BY <1>3 DEF RefuseRun
<1>4. CASE SpawnRun(r)
  BY <1>4 DEF SpawnRun
<1>5. CASE StoreAbortHandle(r)
  BY <1>5 DEF StoreAbortHandle
<1> QED
  BY <1>1, <1>2, <1>3, <1>4, <1>5

LEMMA PipeTypes ==
  ASSUME TypeOK, NEW r \in Runs,
         Emit(r) \/ Return(r) \/ Relay(r) \/ RelayEnds(r)
  PROVE  TypeOK'
<1> USE DEF TypeOK, registry, pipe, reader
<1>1. inner[r] \in Seq(Frames) /\ outer[r] \in Seq(Frames)
  OBVIOUS
<1>2. CASE Emit(r)
  <2>1. /\ emitted[r] + 1 \in 0 .. MaxEvents
        /\ emitted[r] + 1 \in Frames
    BY <1>2, FramesOfEvents, BoundsAssumption DEF Emit
  <2>2. Append(inner[r], emitted[r] + 1) \in Seq(Frames)
    BY <1>1, <2>1, FrameSequences
  <2>3. emitted' \in [Runs -> 0 .. MaxEvents]
    BY <1>2, <2>1 DEF Emit
  <2>4. inner' \in [Runs -> Seq(Frames)]
    BY <1>2, <2>2 DEF Emit
  <2>5. quota' \in [Runs -> 0 .. MaxEvents]
    BY <1>2, <2>1 DEF Emit
  <2> QED
    BY <1>2, <2>3, <2>4, <2>5 DEF Emit
<1>3. CASE Return(r)
  BY <1>3 DEF Return
<1>4. CASE Relay(r)
  <2>1. /\ Head(inner[r]) \in Frames
        /\ Tail(inner[r]) \in Seq(Frames)
    BY <1>1, <1>4, FrameSequences DEF Relay
  <2>2. Append(outer[r], Head(inner[r])) \in Seq(Frames)
    BY <1>1, <2>1, FrameSequences
  <2>3. <<>> \in Seq(Frames)
    OBVIOUS
  <2>4. inner' \in [Runs -> Seq(Frames)]
    BY <1>4, <2>1, <2>3 DEF Relay
  <2>5. outer' \in [Runs -> Seq(Frames)]
    BY <1>4, <2>2 DEF Relay
  <2>6. relay' \in [Runs -> {"none", "open", "closed"}]
    BY <1>4 DEF Relay
  <2> QED
    BY <1>4, <2>4, <2>5, <2>6 DEF Relay
<1>5. CASE RelayEnds(r)
  BY <1>5 DEF RelayEnds
<1> QED
  BY <1>2, <1>3, <1>4, <1>5

LEMMA AdvanceTypes ==
  ASSUME task \in [Runs -> TaskStates], NEW r \in Runs, NEW from,
         NEW to \in TaskStates, Advance(r, from, to)
  PROVE  task' \in [Runs -> TaskStates]
BY DEF Advance

LEMMA TaskTypes ==
  ASSUME TypeOK, NEW r \in Runs, task[r] # "none" => session[r] \in Sessions,
         \/ TimeOut(r) \/ SendTimeoutFrame(r) \/ CloseTimedOut(r) \/ Abandon(r)
         \/ TakeResult(r) \/ TakeError(r) \/ SendErrorFrame(r) \/ Settle(r)
  PROVE  TypeOK'
<1>1. task' \in [Runs -> TaskStates] /\ session[r] \in Sessions
  <2>1. PICK from \in TaskStates \ {"none"}, to \in TaskStates : Advance(r, from, to)
    BY DEF TaskStates, TimeOut, SendTimeoutFrame, CloseTimedOut, Abandon,
           TakeResult, TakeError, SendErrorFrame, Settle
  <2>2. task \in [Runs -> TaskStates]
    BY DEF TypeOK
  <2> QED
    BY <2>1, <2>2, AdvanceTypes DEF Advance
<1>2. session[r] \in Sessions
  BY <1>1
<1>3. last_exit_code[session[r]] \in {None, 0, 1}
  BY <1>2 DEF TypeOK
<1>4. CASE TimeOut(r) \/ TakeError(r)
  BY <1>1, <1>4 DEF TypeOK, TimeOut, TakeError, registry, pipe, reader
<1>5. CASE SendTimeoutFrame(r) \/ SendErrorFrame(r)
  <2>1. outer' \in [Runs -> Seq(Frames)]
    BY <1>5, ServeFrames, SendTypes DEF SendTimeoutFrame, SendErrorFrame
  <2> QED
    BY <1>1, <1>5, <2>1 DEF TypeOK, SendTimeoutFrame, SendErrorFrame, registry, reader
<1>6. CASE CloseTimedOut(r) \/ Abandon(r) \/ Settle(r)
  <2>1. PICK new \in {"idle", "closed"}, exit \in {None, 0, 1} :
           Conclude(session[r], new, exit)
    BY <1>3, <1>6 DEF CloseTimedOut, Abandon, Settle
  <2>2. /\ status' \in [Sessions -> {"absent", "running", "idle", "closed"}]
        /\ abort_handle' \in [Sessions -> Runs \cup {None}]
        /\ cancel_handle' \in [Sessions -> Runs \cup {None}]
        /\ last_exit_code' \in [Sessions -> {None, 0, 1}]
    BY <1>2, <2>1, ConcludeTypes
  <2>3. cancelled' \in SUBSET Runs
    BY <1>6 DEF TypeOK, CloseTimedOut, Abandon, Settle
  <2> QED
    BY <1>1, <1>6, <2>2, <2>3 DEF TypeOK, CloseTimedOut, Abandon, Settle, pipe, reader
<1>7. CASE TakeResult(r)
  <2>1. last_exit_code' \in [Sessions -> {None, 0, 1}]
    BY <1>2, <1>7 DEF TypeOK, TakeResult, ExitCode
  <2> QED
    BY <1>1, <1>7, <2>1 DEF TypeOK, TakeResult, pipe, reader
<1> QED
  BY <1>4, <1>5, <1>6, <1>7

LEMMA DeleteTypes ==
  ASSUME TypeOK,
         (\E s \in Sessions : DeleteRun(s)) \/ (\E k \in stopping : Stop(k))
  PROVE  TypeOK'
<1>1. CASE \E s \in Sessions : DeleteRun(s)
  BY <1>1 DEF DeleteRun, TypeOK, pipe, reader
<1>2. CASE \E k \in stopping : Stop(k)
  <2>1. PICK k \in stopping : Stop(k)
    BY <1>2
  <2>2. k.abort \in Runs \cup {None} /\ CancelledBy(k) \subseteq Runs
    BY DEF TypeOK, CancelledBy
  <2>3. task \in [Runs -> TaskStates]
    BY DEF TypeOK
  <2>4. task' \in [Runs -> TaskStates]
    BY <2>1, <2>2, <2>3 DEF Stop, TaskStates
  <2> QED
    BY <2>1, <2>2, <2>4 DEF TypeOK, Stop, registry, pipe, reader
<1> QED
  BY <1>1, <1>2

LEMMA ClientTypes ==
  ASSUME TypeOK, HandlesOwned, NEW r \in Runs,
         Receive(r) \/ EndStream(r) \/ ClientLeaves(r)
  PROVE  TypeOK'
<1> USE DEF TypeOK, registry, pipe, reader
<1>1. outer[r] \in Seq(Frames) /\ received[r] \in Seq(Frames) /\ <<>> \in Seq(Frames)
  OBVIOUS
<1>2. CASE Receive(r)
  <2>1. Head(outer[r]) \in Frames /\ Tail(outer[r]) \in Seq(Frames)
    BY <1>1, <1>2, FrameSequences DEF Receive
  <2>2. Append(received[r], Head(outer[r])) \in Seq(Frames)
    BY <1>1, <2>1, FrameSequences
  <2>3. outer' \in [Runs -> Seq(Frames)] /\ received' \in [Runs -> Seq(Frames)]
    BY <1>2, <2>1, <2>2 DEF Receive
  <2> QED
    BY <1>2, <2>3 DEF Receive
<1>3. CASE EndStream(r)
  <2>1. session[r] \in Sessions
    BY <1>3 DEF EndStream, HandlesOwned
  <2>2. last_exit_code[session[r]] \in {None, 0, 1}
    BY <2>1
  <2>3. reported' \in [Runs -> {None, 0, 1}]
    BY <1>3, <2>2 DEF EndStream, DoneCode, BodyCode
  <2> QED
    BY <1>3, <2>3 DEF EndStream
<1>4. CASE ClientLeaves(r)
  BY <1>1, <1>4 DEF ClientLeaves
<1> QED
  BY <1>2, <1>3, <1>4

-------------------------------------------------------------------------------
(* Handles, running sessions and the cap.                                    *)

\* Where no running session, handle or stop changes, nothing is disturbed.
LEMMA OwnershipKept ==
  ASSUME OwnInv, CapacityRespected,
         UNCHANGED <<status, abort_handle, cancel_handle, session, stopping>>,
         \A r \in Runs : task'[r] = "none" <=> task[r] = "none",
         \A r \in Runs : task'[r] = "over" => task[r] = "over",
         handler' = handler
  PROVE  OwnInv' /\ CapacityRespected'
BY DEF OwnInv, HandlesOwned, StopsMissBusy, BusySessionHasTask, Running,
       CapacityRespected

\* Running sessions that go leave room.
LEMMA FewerRunning ==
  ASSUME CapacityRespected, Running' \subseteq Running
  PROVE  CapacityRespected'
<1>1. Running \in SUBSET Sessions /\ Running' \in SUBSET Sessions
  BY DEF Running
<1>2. /\ IsFiniteSet(Running)
      /\ Cardinality(Running) \in Nat
      /\ Cardinality(Running') \in Nat
      /\ Cardinality(Running') <= Cardinality(Running)
  BY <1>1, SessionsFinite, FS_Subset, FS_CardinalityType
<1> QED
  BY <1>2, MaxSessionsAssumption DEF CapacityRespected

\* Posting touches a run that no record and no task knows yet.
LEMMA PostOwnership ==
  ASSUME TypeOK, OwnInv, CapacityRespected, NEW r \in Runs,
         \/ \E s \in Sessions : PostNew(r, s) \/ PostResume(r, s)
         \/ RefuseRun(r)
  PROVE  OwnInv' /\ CapacityRespected'
<1>1. /\ UNCHANGED <<status, abort_handle, cancel_handle, task, stopping>>
      /\ \A q \in Runs \ {r} : session'[q] = session[q] /\ handler'[q] = handler[q]
      /\ session'[r] \in Sessions
      /\ handler[r] \in {"none", "validated"}
  BY DEF PostNew, PostResume, RefuseRun, OwnInv, HandlesOwned, TypeOK, registry
<1>2. task[r] = "none"
  BY <1>1 DEF OwnInv, HandlesOwned
<1>3. Running' = Running
  BY <1>1 DEF Running
<1>4. HandlesOwned'
  <2>1. \A q \in Runs : handler'[q] # "none" => session'[q] \in Sessions
    BY <1>1 DEF OwnInv, HandlesOwned
  <2>2. \A q \in Runs : task'[q] # "none" => handler'[q] \in {"spawned", "streaming"}
    BY <1>1, <1>2 DEF OwnInv, HandlesOwned
  <2>3. \A s \in Sessions :
           abort_handle'[s] # None =>
              /\ handler'[abort_handle'[s]] = "streaming"
              /\ session'[abort_handle'[s]] = s
    BY <1>1 DEF OwnInv, HandlesOwned, TypeOK
  <2>4. \A k \in stopping' : k.abort # None => handler'[k.abort] = "streaming"
    BY <1>1 DEF OwnInv, HandlesOwned, TypeOK
  <2> QED
    BY <2>1, <2>2, <2>3, <2>4 DEF HandlesOwned
<1>5. StopsMissBusy'
  BY <1>1, <1>3 DEF OwnInv, StopsMissBusy
<1>6. BusySessionHasTask'
  BY <1>1, <1>2, <1>3 DEF OwnInv, BusySessionHasTask
<1> QED
  BY <1>3, <1>4, <1>5, <1>6 DEF OwnInv, CapacityRespected

\* The critical section of spawn_run: there was room for one more, and no stop
\* can hold the handle of a run that is only now started.
LEMMA SpawnOwnership ==
  ASSUME TypeOK, OwnInv, CapacityRespected, NEW r \in Runs, SpawnRun(r)
  PROVE  OwnInv' /\ CapacityRespected'
<1> DEFINE s == session[r]
<1>1. /\ s \in Sessions /\ s \notin Running
      /\ handler[r] = "validated" /\ task[r] = "none"
  BY DEF SpawnRun, OwnInv, HandlesOwned, Admits, Running
<1>2. /\ UNCHANGED <<session, stopping>>
      /\ status' = [status EXCEPT ![s] = "running"]
      /\ abort_handle' = [abort_handle EXCEPT ![s] = None]
      /\ cancel_handle' = [cancel_handle EXCEPT ![s] = r]
      /\ handler' = [handler EXCEPT ![r] = "spawned"]
      /\ task' = [task EXCEPT ![r] = "select"]
  BY DEF SpawnRun
<1>3. Running' = Running \cup {s}
  BY <1>1, <1>2 DEF Running, TypeOK
<1>4. HandlesOwned'
  BY <1>1, <1>2 DEF OwnInv, HandlesOwned, TypeOK
<1>5. StopsMissBusy'
  <2> SUFFICES ASSUME NEW k \in stopping', NEW i \in Running', k.abort # None
               PROVE  k.abort # cancel_handle'[i]
    BY DEF StopsMissBusy
  <2>1. k \in stopping /\ handler[k.abort] = "streaming"
    BY <1>2 DEF OwnInv, HandlesOwned
  <2>2. CASE i = s
    BY <1>1, <1>2, <2>1, <2>2 DEF TypeOK
  <2>3. CASE i # s
    BY <1>2, <1>3, <2>1, <2>3 DEF OwnInv, StopsMissBusy, TypeOK, Running
  <2> QED
    BY <2>2, <2>3
<1>6. BusySessionHasTask'
  <2> SUFFICES ASSUME NEW i \in Running'
               PROVE  \E q \in Runs : /\ cancel_handle'[i] = q
                                      /\ session'[q] = i
                                      /\ task'[q] \notin {"none", "over"}
    BY DEF BusySessionHasTask
  <2>1. CASE i = s
    BY <1>1, <1>2, <2>1 DEF TypeOK
  <2>2. CASE i # s
    BY <1>1, <1>2, <1>3, <2>2 DEF OwnInv, BusySessionHasTask, TypeOK, Running
  <2> QED
    BY <2>1, <2>2
<1>7. CapacityRespected'
  <2>1. Running \in SUBSET Sessions /\ IsFiniteSet(Running)
    BY SessionsFinite, FS_Subset DEF Running
  <2>2. Cardinality(Running) \in Nat /\ Cardinality(Running') = Cardinality(Running) + 1
    BY <1>1, <1>3, <2>1, FS_AddElement, FS_CardinalityType
  <2>3. Cardinality(Running) < MaxSessions
    BY DEF SpawnRun, Admits
  <2> QED
    BY <2>2, <2>3, MaxSessionsAssumption DEF CapacityRespected
<1> QED
  BY <1>4, <1>5, <1>6, <1>7 DEF OwnInv

\* A handler that is late stores its own handle, if anywhere, in a record of its
\* own session: that is all HandlesOwned asks.
LEMMA StoreOwnership ==
  ASSUME TypeOK, OwnInv, CapacityRespected, NEW r \in Runs, StoreAbortHandle(r)
  PROVE  OwnInv' /\ CapacityRespected'
<1>1. /\ UNCHANGED <<status, cancel_handle, session, task, stopping>>
      /\ handler[r] = "spawned" /\ session[r] \in Sessions
      /\ handler' = [handler EXCEPT ![r] = "streaming"]
      /\ \/ abort_handle' = abort_handle
         \/ abort_handle' = [abort_handle EXCEPT ![session[r]] = r]
  BY DEF StoreAbortHandle, OwnInv, HandlesOwned
<1>2. Running' = Running
  BY <1>1 DEF Running
<1>3. HandlesOwned'
  <2>1. \A q \in Runs : handler'[q] = handler[q] \/ handler'[q] = "streaming"
    BY <1>1 DEF TypeOK
  <2>2. handler'[r] = "streaming"
    BY <1>1 DEF TypeOK
  <2>3. \A q \in Runs : handler'[q] # "none" => session'[q] \in Sessions
    BY <1>1, <2>1 DEF OwnInv, HandlesOwned, TypeOK
  <2>4. \A q \in Runs : task'[q] # "none" => handler'[q] \in {"spawned", "streaming"}
    BY <1>1, <2>1 DEF OwnInv, HandlesOwned
  <2>5. ASSUME NEW s \in Sessions, abort_handle'[s] # None
        PROVE  handler'[abort_handle'[s]] = "streaming" /\ session'[abort_handle'[s]] = s
    <3>1. \/ abort_handle'[s] = r /\ s = session[r]
          \/ abort_handle'[s] = abort_handle[s] /\ abort_handle[s] \in Runs
      BY <1>1, <2>5 DEF TypeOK
    <3> QED
      BY <1>1, <2>1, <2>2, <2>5, <3>1 DEF OwnInv, HandlesOwned
  <2>6. ASSUME NEW k \in stopping', k.abort # None
        PROVE  handler'[k.abort] = "streaming"
    <3>1. k \in stopping /\ k.abort \in Runs
      BY <1>1, <2>6 DEF TypeOK
    <3> QED
      BY <2>1, <2>6, <3>1 DEF OwnInv, HandlesOwned
  <2> QED
    BY <2>3, <2>4, <2>5, <2>6 DEF HandlesOwned
<1>4. StopsMissBusy' /\ BusySessionHasTask'
  BY <1>1, <1>2 DEF OwnInv, StopsMissBusy, BusySessionHasTask
<1> QED
  BY <1>2, <1>3, <1>4 DEF OwnInv, CapacityRespected

\* A task that ends concludes its own session and no other: every session still
\* running has kept its record, and its task is another one.
LEMMA ConcludeOwnership ==
  ASSUME TypeOK, OwnInv, CapacityRespected, NEW r \in Runs,
         CloseTimedOut(r) \/ Abandon(r) \/ Settle(r)
  PROVE  OwnInv' /\ CapacityRespected'
<1> DEFINE s == session[r]
<1>1. PICK new \in {"idle", "closed"}, exit \in {1, last_exit_code[s]} :
          Conclude(s, new, exit)
  BY DEF CloseTimedOut, Abandon, Settle
<1>2. /\ UNCHANGED <<session, handler, stopping>>
      /\ task[r] \notin {"none", "over"}
      /\ task' = [task EXCEPT ![r] = "over"]
  BY DEF CloseTimedOut, Abandon, Settle, Advance
<1>3. s \in Sessions
  BY <1>2 DEF OwnInv, HandlesOwned
<1>4. /\ Running' = Running \ {s}
      /\ \A i \in Running' : cancel_handle'[i] = cancel_handle[i]
      /\ \A i \in Sessions : abort_handle'[i] \in {None, abort_handle[i]}
  BY <1>1, <1>3 DEF Conclude, Running, TypeOK
<1>5. HandlesOwned'
  <2>1. \A q \in Runs : task'[q] # "none" => handler'[q] \in {"spawned", "streaming"}
    BY <1>2 DEF OwnInv, HandlesOwned, TypeOK
  <2> QED
    BY <1>2, <1>4, <2>1 DEF OwnInv, HandlesOwned
<1>6. StopsMissBusy'
  BY <1>2, <1>4 DEF OwnInv, StopsMissBusy
<1>7. BusySessionHasTask'
  <2> SUFFICES ASSUME NEW i \in Running'
               PROVE  \E q \in Runs : /\ cancel_handle'[i] = q
                                      /\ session'[q] = i
                                      /\ task'[q] \notin {"none", "over"}
    BY DEF BusySessionHasTask
  <2>1. PICK q \in Runs : /\ cancel_handle[i] = q
                          /\ session[q] = i
                          /\ task[q] \notin {"none", "over"}
    BY <1>4 DEF OwnInv, BusySessionHasTask
  <2>2. q # r
    BY <1>4, <2>1
  <2> QED
    BY <1>2, <1>4, <2>1, <2>2 DEF TypeOK
<1>8. CapacityRespected'
  BY <1>4, FewerRunning
<1> QED
  BY <1>5, <1>6, <1>7, <1>8 DEF OwnInv

\* A DELETE takes its session out of the running ones in the step that takes the
\* handles out of its record.
LEMMA DeleteOwnership ==
  ASSUME TypeOK, OwnInv, CapacityRespected, NEW s \in Sessions, DeleteRun(s)
  PROVE  OwnInv' /\ CapacityRespected'
<1> DEFINE k == [abort |-> abort_handle[s], cancel |-> cancel_handle[s]]
<1>1. /\ UNCHANGED <<session, handler, task>>
      /\ status' = [status EXCEPT ![s] = "closed"]
      /\ abort_handle' = [abort_handle EXCEPT ![s] = None]
      /\ cancel_handle' = [cancel_handle EXCEPT ![s] = None]
      /\ stopping' = stopping \cup {k}
  BY DEF DeleteRun
<1>2. /\ Running' = Running \ {s}
      /\ \A i \in Running' : cancel_handle'[i] = cancel_handle[i]
  BY <1>1 DEF Running, TypeOK
<1>3. HandlesOwned'
  <2>1. \A i \in Sessions : abort_handle'[i] \in {None, abort_handle[i]}
    BY <1>1 DEF TypeOK
  <2>2. \A j \in stopping' : j.abort # None => handler'[j.abort] = "streaming"
    BY <1>1 DEF OwnInv, HandlesOwned
  <2> QED
    BY <1>1, <2>1, <2>2 DEF OwnInv, HandlesOwned
<1>4. StopsMissBusy'
  <2> SUFFICES ASSUME NEW j \in stopping', NEW i \in Running', j.abort # None
               PROVE  j.abort # cancel_handle'[i]
    BY DEF StopsMissBusy
  <2>1. CASE j \in stopping
    BY <1>2, <2>1 DEF OwnInv, StopsMissBusy
  <2>2. CASE j = k
    <3>1. session[j.abort] = s
      BY <2>2 DEF OwnInv, HandlesOwned
    <3>2. session[cancel_handle'[i]] = i
      BY <1>2 DEF OwnInv, BusySessionHasTask
    <3> QED
      BY <1>2, <3>1, <3>2
  <2> QED
    BY <1>1, <2>1, <2>2
<1>5. BusySessionHasTask'
  BY <1>1, <1>2 DEF OwnInv, BusySessionHasTask
<1> QED
  BY <1>2, <1>3, <1>4, <1>5, FewerRunning DEF OwnInv

\* The task a stop aborts is none that a running session depends on.
LEMMA StopOwnership ==
  ASSUME TypeOK, OwnInv, CapacityRespected, NEW k \in stopping, Stop(k)
  PROVE  OwnInv' /\ CapacityRespected'
<1>1. /\ UNCHANGED <<status, abort_handle, cancel_handle, session, handler>>
      /\ stopping' \subseteq stopping
      /\ \A r \in Runs : task'[r] = task[r] \/ (/\ r = k.abort
                                                /\ task[r] # "none"
                                                /\ k.abort # None)
  <2>1. task \in [Runs -> TaskStates]
    BY DEF TypeOK
  <2> QED
    BY <2>1 DEF Stop, registry
<1>2. Running' = Running
  BY <1>1 DEF Running
<1>3. HandlesOwned'
  BY <1>1 DEF OwnInv, HandlesOwned
<1>4. StopsMissBusy'
  BY <1>1, <1>2 DEF OwnInv, StopsMissBusy
<1>5. BusySessionHasTask'
  BY <1>1, <1>2 DEF OwnInv, StopsMissBusy, BusySessionHasTask
<1> QED
  BY <1>2, <1>3, <1>4, <1>5 DEF OwnInv, CapacityRespected

-------------------------------------------------------------------------------
(* The invariant.                                                            *)

LEMMA InitInvariant == Init => IInv
<1> SUFFICES ASSUME Init PROVE IInv
  OBVIOUS
<1>1. TypeOK
  <2>1. <<>> \in Seq(Frames)
    OBVIOUS
  <2> QED
    BY <2>1, StoredAssumption, BoundsAssumption DEF Init, InitAfter, TypeOK, TaskStates
<1>2. Running = {}
  BY DEF Init, InitAfter, Running
<1>3. OwnInv
  BY <1>2 DEF Init, InitAfter, OwnInv, HandlesOwned, StopsMissBusy, BusySessionHasTask
<1>4. CapacityRespected
  BY <1>2, FS_EmptySet, MaxSessionsAssumption DEF CapacityRespected
<1> QED
  BY <1>1, <1>3, <1>4 DEF IInv

LEMMA NextInvariant == IInv /\ [Next]_vars => IInv'
<1> SUFFICES ASSUME IInv, [Next]_vars PROVE IInv'
  OBVIOUS
<1> USE DEF IInv
<1>1. CASE \E r \in Runs : Step(r)
  <2>1. PICK r \in Runs : Step(r)
    BY <1>1
  <2>2. CASE \/ \E s \in Sessions : PostNew(r, s) \/ PostResume(r, s)
             \/ RefuseRun(r)
    BY <2>2, PostTypes, PostOwnership
  <2>3. CASE SpawnRun(r)
    BY <2>3, PostTypes, SpawnOwnership
  <2>4. CASE StoreAbortHandle(r)
    BY <2>4, PostTypes, StoreOwnership
  <2>5. CASE Emit(r) \/ Return(r) \/ Relay(r) \/ RelayEnds(r)
    <3>1. UNCHANGED <<status, abort_handle, cancel_handle, session, stopping,
                      task, handler>>
      BY <2>5 DEF Emit, Return, Relay, RelayEnds, registry
    <3> QED
      BY <2>5, <3>1, PipeTypes, OwnershipKept
  <2>6. CASE Receive(r) \/ EndStream(r) \/ ClientLeaves(r)
    <3>1. UNCHANGED <<status, abort_handle, cancel_handle, session, stopping,
                      task, handler>>
      BY <2>6 DEF Receive, EndStream, ClientLeaves, registry
    <3> QED
      BY <2>6, <3>1, ClientTypes, OwnershipKept DEF OwnInv
  <2>7. task[r] # "none" => session[r] \in Sessions
    BY DEF OwnInv, HandlesOwned
  <2>8. CASE \/ TimeOut(r) \/ SendTimeoutFrame(r) \/ TakeResult(r)
             \/ TakeError(r) \/ SendErrorFrame(r)
    <3>1. /\ UNCHANGED <<status, abort_handle, cancel_handle, session, stopping,
                         handler>>
          /\ \E from \in TaskStates \ {"none", "over"} :
             \E to \in TaskStates \ {"none", "over"} : Advance(r, from, to)
      BY <2>8 DEF TimeOut, SendTimeoutFrame, TakeResult, TakeError,
                  SendErrorFrame, registry, TaskStates
    <3>2. task \in [Runs -> TaskStates]
      BY DEF TypeOK
    <3>3. \A q \in Runs : (task'[q] = "none" <=> task[q] = "none")
                       /\ (task'[q] = "over" => task[q] = "over")
      BY <3>1, <3>2 DEF Advance
    <3> QED
      BY <2>7, <2>8, <3>1, <3>3, TaskTypes, OwnershipKept
  <2>9. CASE CloseTimedOut(r) \/ Abandon(r) \/ Settle(r)
    BY <2>7, <2>9, TaskTypes, ConcludeOwnership
  <2> QED
    BY <2>1, <2>2, <2>3, <2>4, <2>5, <2>6, <2>8, <2>9 DEF Step, Progress
<1>2. CASE \E s \in Sessions : DeleteRun(s)
  BY <1>2, DeleteTypes, DeleteOwnership
<1>3. CASE \E k \in stopping : Stop(k)
  BY <1>3, DeleteTypes, StopOwnership
<1>4. CASE UNCHANGED vars
  BY <1>4 DEF vars, registry, pipe, reader, TypeOK, OwnInv, HandlesOwned,
             StopsMissBusy, BusySessionHasTask, CapacityRespected, Running
<1> QED
  BY <1>1, <1>2, <1>3, <1>4 DEF Next

\* The invariant of every reachable state, whatever requests, ends, deletions
\* and prunings interleave.
THEOREM Invariant == Spec => []IInv
BY InitInvariant, NextInvariant, PTL DEF Spec

\* run_session.rs: every variable keeps its type; a session id is read from a
\* run only once its request has been validated.
THEOREM TypeCorrect == Spec => []TypeOK
<1>1. IInv => TypeOK
  BY DEF IInv
<1> QED
  BY <1>1, Invariant, PTL

\* spawn_run: the check and the upsert share a critical section, so no more than
\* max_sessions sessions are ever running, for any max_sessions.
THEOREM CapacityAlwaysRespected == Spec => []CapacityRespected
<1>1. IInv => CapacityRespected
  BY DEF IInv
<1> QED
  BY <1>1, Invariant, PTL

\* A running session always has a task of its own left to conclude it, however
\* late the handles of earlier turns are stored and used: no session stays busy
\* for ever, and none holds a slot that nobody will give back.
THEOREM BusySessionsHaveTasks == Spec => []BusySessionHasTask
<1>1. IInv => BusySessionHasTask
  BY DEF IInv, OwnInv
<1> QED
  BY <1>1, Invariant, PTL

-------------------------------------------------------------------------------
(* What the channels carry.                                                  *)

LEMMA CarriesNothing ==
  ASSUME NEW n \in Nat
  PROVE  Carries(<<>>, n, n)
BY DEF Carries

LEMMA NothingCarried ==
  ASSUME NEW low \in Nat, NEW high \in Nat, low <= high, Carries(<<>>, low, high)
  PROVE  low = high
<1>1. low + 1 \notin low + 1 .. high
  BY DEF Carries
<1> QED
  BY <1>1

\* Where in an extended queue its frames are.
LEMMA Appended ==
  ASSUME NEW queue \in Seq(Frames), NEW f \in Frames
  PROVE  /\ DOMAIN Append(queue, f) = DOMAIN queue \cup {Len(queue) + 1}
         /\ \A i \in DOMAIN queue : /\ i \in 1 .. Len(queue)
                                    /\ Append(queue, f)[i] = queue[i]
                                    /\ queue[i] \in Frames
         /\ Append(queue, f)[Len(queue) + 1] = f
         /\ Len(queue) + 1 \notin DOMAIN queue
OBVIOUS

LEMMA CarriesServeFrame ==
  ASSUME NEW queue \in Seq(Frames), NEW f \in {ErrorFrame, RunTimeoutFrame},
         NEW low \in Nat, NEW high \in Nat, Carries(queue, low, high)
  PROVE  Carries(Append(queue, f), low, high)
<1>1. f \in Frames
  BY ServeFrames
<1> DEFINE longer == Append(queue, f)
<1>2. {longer[i] : i \in DOMAIN longer} = {queue[i] : i \in DOMAIN queue} \cup {f}
  BY <1>1, Appended
<1>3. {longer[i] : i \in DOMAIN longer} \ {ErrorFrame, RunTimeoutFrame} = low + 1 .. high
  BY <1>2 DEF Carries
<1>4. ASSUME NEW i \in DOMAIN longer, NEW j \in DOMAIN longer, i < j,
             longer[i] > 0, longer[j] > 0
      PROVE  longer[i] < longer[j]
  <2>1. i \in DOMAIN queue /\ j \in DOMAIN queue
    BY <1>1, <1>4, Appended DEF ErrorFrame, RunTimeoutFrame
  <2> QED
    BY <1>1, <1>4, <2>1, Appended DEF Carries
<1> QED
  BY <1>3, <1>4 DEF Carries

LEMMA CarriesNextEvent ==
  ASSUME NEW queue \in Seq(Frames), NEW low \in Nat, NEW high \in Nat,
         low <= high, high + 1 \in Frames, Carries(queue, low, high)
  PROVE  Carries(Append(queue, high + 1), low, high + 1)
<1> DEFINE longer == Append(queue, high + 1)
<1>1. {longer[i] : i \in DOMAIN longer} = {queue[i] : i \in DOMAIN queue} \cup {high + 1}
  BY Appended
<1>2. {longer[i] : i \in DOMAIN longer} \ {ErrorFrame, RunTimeoutFrame}
        = low + 1 .. high + 1
  <2>1. high + 1 \notin {ErrorFrame, RunTimeoutFrame}
    BY DEF ErrorFrame, RunTimeoutFrame
  <2>2. (low + 1 .. high) \cup {high + 1} = low + 1 .. high + 1
    OBVIOUS
  <2> QED
    BY <1>1, <2>1, <2>2 DEF Carries
<1>3. ASSUME NEW i \in DOMAIN longer, NEW j \in DOMAIN longer, i < j,
             longer[i] > 0, longer[j] > 0
      PROVE  longer[i] < longer[j]
  <2>1. i \in DOMAIN queue /\ longer[i] = queue[i] /\ i \in 1 .. Len(queue)
    BY <1>3, Appended
  <2>2. CASE j \in DOMAIN queue
    BY <1>3, <2>1, <2>2, Appended DEF Carries
  <2>3. CASE j = Len(queue) + 1
    <3>1. queue[i] \in low + 1 .. high
      BY <1>3, <2>1 DEF Carries, ErrorFrame, RunTimeoutFrame
    <3> QED
      BY <2>1, <2>3, <3>1, Appended
  <2> QED
    BY <2>2, <2>3, Appended
<1> QED
  BY <1>2, <1>3 DEF Carries

\* Where in the rest of a queue its frames are.
LEMMA Shortened ==
  ASSUME NEW queue \in Seq(Frames), queue # <<>>
  PROVE  /\ DOMAIN Tail(queue) = 1 .. Len(queue) - 1
         /\ DOMAIN queue = 1 .. Len(queue) /\ Len(queue) \in Nat \ {0}
         /\ \A i \in DOMAIN Tail(queue) : /\ i + 1 \in DOMAIN queue
                                          /\ Tail(queue)[i] = queue[i + 1]
         /\ \A i \in DOMAIN queue :
               i # 1 => i - 1 \in DOMAIN Tail(queue) /\ Tail(queue)[i - 1] = queue[i]
         /\ Head(queue) = queue[1] /\ 1 \in DOMAIN queue
         /\ \A i \in DOMAIN queue : queue[i] \in Frames
OBVIOUS

LEMMA CarriesRest ==
  ASSUME NEW queue \in Seq(Frames), queue # <<>>,
         NEW low \in Nat, NEW high \in Nat, Carries(queue, low, high)
  PROVE  \/ /\ Head(queue) \in {ErrorFrame, RunTimeoutFrame}
            /\ Carries(Tail(queue), low, high)
         \/ /\ Head(queue) = low + 1
            /\ low < high
            /\ Carries(Tail(queue), low + 1, high)
<1> DEFINE rest == Tail(queue)
           serve == {ErrorFrame, RunTimeoutFrame}
<1>1. {queue[i] : i \in DOMAIN queue} = {rest[i] : i \in DOMAIN rest} \cup {Head(queue)}
  <2>1. ASSUME NEW i \in DOMAIN queue
        PROVE  queue[i] \in {rest[j] : j \in DOMAIN rest} \cup {Head(queue)}
    BY Shortened
  <2>2. ASSUME NEW j \in DOMAIN rest
        PROVE  rest[j] \in {queue[i] : i \in DOMAIN queue}
    BY Shortened
  <2> QED
    BY <2>1, <2>2, Shortened
<1>2. ASSUME NEW i \in DOMAIN rest, NEW j \in DOMAIN rest, i < j, rest[i] > 0, rest[j] > 0
      PROVE  rest[i] < rest[j]
  BY <1>2, Shortened DEF Carries
<1>3. CASE Head(queue) \in serve
  <2>1. {rest[i] : i \in DOMAIN rest} \ serve = low + 1 .. high
    BY <1>1, <1>3 DEF Carries
  <2> QED
    BY <1>2, <1>3, <2>1 DEF Carries
<1>4. CASE Head(queue) \notin serve
  <2>1. Head(queue) \in low + 1 .. high
    BY <1>1, <1>4 DEF Carries
  <2>2. ASSUME NEW j \in DOMAIN rest, rest[j] \notin serve
        PROVE  Head(queue) < rest[j]
    <3>1. rest[j] > 0
      BY <2>2, Shortened DEF Frames, ErrorFrame, RunTimeoutFrame
    <3> QED
      BY <2>1, <3>1, Shortened DEF Carries
  <2>3. Head(queue) = low + 1
    <3>1. low + 1 \in low + 1 .. high
      BY <2>1
    <3>2. PICK i \in DOMAIN queue : queue[i] = low + 1
      BY <3>1 DEF Carries
    <3>3. i = 1 \/ (i - 1 \in DOMAIN rest /\ rest[i - 1] = low + 1)
      BY <3>2, Shortened
    <3>4. low + 1 \notin serve
      BY DEF ErrorFrame, RunTimeoutFrame
    <3> QED
      BY <2>1, <2>2, <3>2, <3>3, <3>4, Shortened
  <2>4. {rest[i] : i \in DOMAIN rest} \ serve = low + 1 + 1 .. high
    <3>1. ASSUME NEW n \in {rest[i] : i \in DOMAIN rest} \ serve
          PROVE  n \in low + 1 + 1 .. high
      <4>1. n \in low + 1 .. high /\ Head(queue) < n
        BY <1>1, <2>2, <3>1 DEF Carries
      <4> QED
        BY <2>3, <4>1
    <3>2. ASSUME NEW n \in low + 1 + 1 .. high
          PROVE  n \in {rest[i] : i \in DOMAIN rest} \ serve
      <4>1. n \in low + 1 .. high /\ n # Head(queue)
        BY <2>3, <3>2
      <4>2. n \in {queue[i] : i \in DOMAIN queue} \ serve
        BY <4>1 DEF Carries
      <4> QED
        BY <1>1, <4>1, <4>2
    <3> QED
      BY <3>1, <3>2
  <2> QED
    BY <1>2, <2>1, <2>3, <2>4 DEF Carries
<1> QED
  BY <1>3, <1>4

-------------------------------------------------------------------------------
(* The stream of a run.                                                      *)

\* Nothing of a run exists before spawn_run starts it.
NotStarted(r) ==
  handler[r] \notin {"spawned", "streaming"} =>
     /\ task[r] = "none" /\ run_fn[r] = "none"
     /\ relay[r] = "none" /\ client[r] = "none"
     /\ emitted[r] = 0
     /\ inner[r] = <<>> /\ outer[r] = <<>> /\ received[r] = <<>>

Started(r) ==
  handler[r] \in {"spawned", "streaming"} =>
     /\ task[r] # "none" /\ run_fn[r] # "none"
     /\ relay[r] # "none" /\ client[r] # "none"

\* The events a run has emitted are, in order, those received, those in the
\* outer channel and those in the inner one.
InFlight(r) ==
  \E a, b \in 0 .. emitted[r] :
     /\ a <= b
     /\ Carries(received[r], 0, a)
     /\ client[r] # "gone" => /\ Carries(outer[r], a, b)
                              /\ Carries(inner[r], b, emitted[r])

\* The relay closes when there will be nothing more to relay, and a response is
\* complete when nothing is left to read.
ClosedInOrder(r) ==
  /\ (relay[r] = "closed" /\ client[r] # "gone") =>
        inner[r] = <<>> /\ run_fn[r] # "running" /\ task[r] = "over"
  /\ client[r] = "done" => relay[r] = "closed" /\ outer[r] = <<>>

StreamOK(r) == NotStarted(r) /\ Started(r) /\ InFlight(r) /\ ClosedInOrder(r)

StreamInv == \A r \in Runs : StreamOK(r)

LEMMA SameStream ==
  ASSUME NEW q \in Runs, StreamOK(q),
         handler'[q] = handler[q] \/ {handler[q], handler'[q]} \subseteq {"none", "validated", "refused"}
                                  \/ {handler[q], handler'[q]} \subseteq {"spawned", "streaming"},
         task'[q] = task[q] \/ (task[q] \notin {"none", "over"} /\ task'[q] # "none"),
         run_fn'[q] = run_fn[q] \/ (run_fn[q] = "running" /\ run_fn'[q] \notin {"none", "running"}),
         emitted'[q] = emitted[q], inner'[q] = inner[q], outer'[q] = outer[q],
         relay'[q] = relay[q], client'[q] = client[q], received'[q] = received[q]
  PROVE  StreamOK(q)'
BY DEF StreamOK, NotStarted, Started, InFlight, ClosedInOrder

\* A step of one run leaves what belongs to another alone.
LEMMA OthersUntouched ==
  ASSUME TypeOK, NEW r \in Runs, Step(r), NEW q \in Runs \ {r}
  PROVE  /\ handler'[q] = handler[q] /\ task'[q] = task[q] /\ run_fn'[q] = run_fn[q]
         /\ session'[q] = session[q] /\ emitted'[q] = emitted[q]
         /\ inner'[q] = inner[q] /\ outer'[q] = outer[q] /\ relay'[q] = relay[q]
         /\ client'[q] = client[q] /\ received'[q] = received[q]
<1>1. CASE \/ \E s \in Sessions : PostNew(r, s) \/ PostResume(r, s)
           \/ RefuseRun(r) \/ StoreAbortHandle(r) \/ SpawnRun(r)
  BY <1>1 DEF PostNew, PostResume, RefuseRun, StoreAbortHandle, SpawnRun, pipe, reader, TypeOK
<1>2. CASE Emit(r) \/ Return(r) \/ Relay(r) \/ RelayEnds(r)
  BY <1>2 DEF Emit, Return, Relay, RelayEnds, pipe, reader, TypeOK
<1>3. CASE Receive(r) \/ EndStream(r) \/ ClientLeaves(r)
  BY <1>3 DEF Receive, EndStream, ClientLeaves, pipe, reader, TypeOK
<1>4. CASE \/ TimeOut(r) \/ SendTimeoutFrame(r) \/ TakeResult(r)
           \/ TakeError(r) \/ SendErrorFrame(r)
  BY <1>4 DEF TimeOut, SendTimeoutFrame, TakeResult, TakeError, SendErrorFrame,
              Advance, Send, pipe, reader, TypeOK
<1>5. CASE CloseTimedOut(r) \/ Abandon(r) \/ Settle(r)
  BY <1>5 DEF CloseTimedOut, Abandon, Settle, Advance, pipe, reader, TypeOK
<1> QED
  BY <1>1, <1>2, <1>3, <1>4, <1>5 DEF Step, Progress

LEMMA OtherStreams ==
  ASSUME TypeOK, NEW r \in Runs, Step(r), NEW q \in Runs \ {r}, StreamOK(q)
  PROVE  StreamOK(q)'
BY OthersUntouched, SameStream

\* The task's own frames go between the events.
LEMMA SendKeepsStream ==
  ASSUME TypeOK, NEW r \in Runs, StreamOK(r), NEW f \in {ErrorFrame, RunTimeoutFrame},
         task[r] \notin {"none", "over"}, task'[r] # "none", Send(r, f),
         UNCHANGED <<handler, run_fn, emitted, inner, relay, reader>>
  PROVE  StreamOK(r)'
<1>1. outer[r] \in Seq(Frames)
  BY DEF TypeOK
<1>2. client[r] # "gone" => outer'[r] = Append(outer[r], f)
  BY DEF Send, TypeOK
<1>3. InFlight(r)'
  <2>1. PICK a \in 0 .. emitted[r], b \in 0 .. emitted[r] :
           /\ a <= b
           /\ Carries(received[r], 0, a)
           /\ client[r] # "gone" => /\ Carries(outer[r], a, b)
                                    /\ Carries(inner[r], b, emitted[r])
    BY DEF StreamOK, InFlight
  <2>2. a \in Nat /\ b \in Nat
    OBVIOUS
  <2>3. client[r] # "gone" => Carries(outer'[r], a, b)
    BY <1>1, <1>2, <2>1, <2>2, CarriesServeFrame
  <2> QED
    BY <2>1, <2>3 DEF InFlight, reader
<1>4. relay[r] # "closed" \/ client[r] = "gone"
  BY DEF StreamOK, ClosedInOrder
<1> QED
  BY <1>2, <1>3, <1>4 DEF StreamOK, NotStarted, Started, ClosedInOrder, reader

LEMMA EmitKeepsStream ==
  ASSUME TypeOK, NEW r \in Runs, StreamOK(r), Emit(r)
  PROVE  StreamOK(r)'
<1>1. /\ emitted'[r] = emitted[r] + 1 /\ emitted[r] \in 0 .. MaxEvents
      /\ emitted[r] + 1 \in Frames /\ emitted[r] \in Nat
      /\ inner[r] \in Seq(Frames)
  BY FramesOfEvents, BoundsAssumption DEF Emit, TypeOK
<1>2. client[r] # "gone" => relay[r] = "open"
  BY DEF Emit, StreamOK, NotStarted, Started, ClosedInOrder, TypeOK
<1>3. inner'[r] = IF relay[r] = "open" THEN Append(inner[r], emitted[r] + 1) ELSE inner[r]
  BY DEF Emit, TypeOK
<1>4. PICK a \in 0 .. emitted[r], b \in 0 .. emitted[r] :
         /\ a <= b
         /\ Carries(received[r], 0, a)
         /\ client[r] # "gone" => /\ Carries(outer[r], a, b)
                                  /\ Carries(inner[r], b, emitted[r])
  BY DEF StreamOK, InFlight
<1>5. client[r] # "gone" => Carries(inner'[r], b, emitted[r] + 1)
  BY <1>1, <1>2, <1>3, <1>4, CarriesNextEvent
<1>6. InFlight(r)'
  <2>1. a \in 0 .. emitted[r] + 1 /\ b \in 0 .. emitted[r] + 1
    BY <1>1
  <2> QED
    BY <1>1, <1>4, <1>5, <2>1 DEF Emit, InFlight, reader
<1> QED
  BY <1>1, <1>2, <1>6 DEF Emit, StreamOK, NotStarted, Started, ClosedInOrder, reader

LEMMA RelayKeepsStream ==
  ASSUME TypeOK, NEW r \in Runs, StreamOK(r), Relay(r)
  PROVE  StreamOK(r)'
<1>1. inner[r] \in Seq(Frames) /\ inner[r] # <<>> /\ outer[r] \in Seq(Frames) /\ emitted[r] \in Nat
  BY BoundsAssumption DEF Relay, TypeOK
<1>2. PICK a \in 0 .. emitted[r], b \in 0 .. emitted[r] :
         /\ a <= b
         /\ Carries(received[r], 0, a)
         /\ client[r] # "gone" => /\ Carries(outer[r], a, b)
                                  /\ Carries(inner[r], b, emitted[r])
  BY DEF StreamOK, InFlight
<1>3. CASE client[r] = "gone"
  BY <1>2, <1>3 DEF Relay, StreamOK, NotStarted, Started, InFlight, ClosedInOrder, reader, TypeOK
<1>4. CASE client[r] # "gone"
  <2>1. /\ outer'[r] = Append(outer[r], Head(inner[r]))
        /\ inner'[r] = Tail(inner[r])
        /\ relay'[r] = "open" /\ relay[r] = "open"
        /\ emitted'[r] = emitted[r] /\ received'[r] = received[r] /\ client'[r] = client[r]
    BY <1>4 DEF Relay, TypeOK, reader
  <2>2. Head(inner[r]) \in Frames
    BY <1>1, FrameSequences
  <2>3. CASE Head(inner[r]) \in {ErrorFrame, RunTimeoutFrame} /\ Carries(Tail(inner[r]), b, emitted[r])
    <3>1. Carries(outer'[r], a, b)
      BY <1>1, <1>2, <1>4, <2>1, <2>3, CarriesServeFrame
    <3> QED
      BY <1>2, <1>4, <2>1, <2>3, <3>1
      DEF Relay, StreamOK, NotStarted, Started, InFlight, ClosedInOrder, reader
  <2>4. CASE Head(inner[r]) = b + 1 /\ b < emitted[r] /\ Carries(Tail(inner[r]), b + 1, emitted[r])
    <3>1. Carries(outer'[r], a, b + 1)
      BY <1>1, <1>2, <1>4, <2>1, <2>2, <2>4, CarriesNextEvent
    <3>2. b + 1 \in 0 .. emitted[r] /\ a <= b + 1
      BY <1>1, <1>2, <2>4
    <3>3. InFlight(r)'
      BY <1>2, <2>1, <2>4, <3>1, <3>2 DEF InFlight
    <3> QED
      BY <1>4, <2>1, <3>3 DEF Relay, StreamOK, NotStarted, Started, ClosedInOrder, reader
  <2> QED
    BY <1>1, <1>2, <1>4, <2>3, <2>4, CarriesRest
<1> QED
  BY <1>3, <1>4

LEMMA ReceiveKeepsStream ==
  ASSUME TypeOK, NEW r \in Runs, StreamOK(r), Receive(r)
  PROVE  StreamOK(r)'
<1>1. /\ outer[r] \in Seq(Frames) /\ outer[r] # <<>> /\ received[r] \in Seq(Frames)
      /\ emitted[r] \in Nat /\ client[r] = "reading" /\ handler[r] = "streaming"
  BY BoundsAssumption DEF Receive, TypeOK
<1>2. PICK a \in 0 .. emitted[r], b \in 0 .. emitted[r] :
         /\ a <= b
         /\ Carries(received[r], 0, a)
         /\ Carries(outer[r], a, b)
         /\ Carries(inner[r], b, emitted[r])
  BY <1>1 DEF StreamOK, InFlight
<1> a \in Nat /\ b \in Nat /\ 0 \in Nat /\ 0 <= a /\ a <= b /\ b <= emitted[r]
  BY <1>1, <1>2
<1>3. /\ received'[r] = Append(received[r], Head(outer[r]))
      /\ outer'[r] = Tail(outer[r])
      /\ UNCHANGED <<handler, task, run_fn, emitted, inner, relay, client>>
  BY DEF Receive, TypeOK
<1>4. Head(outer[r]) \in Frames
  BY <1>1, FrameSequences
<1>5. InFlight(r)'
  <2>1. CASE Head(outer[r]) \in {ErrorFrame, RunTimeoutFrame} /\ Carries(Tail(outer[r]), a, b)
    <3>1. Carries(received'[r], 0, a)
      BY <1>1, <1>2, <1>3, <2>1, CarriesServeFrame
    <3> QED
      BY <1>2, <1>3, <2>1, <3>1 DEF InFlight
  <2>2. CASE Head(outer[r]) = a + 1 /\ a < b /\ Carries(Tail(outer[r]), a + 1, b)
    <3>1. Carries(received'[r], 0, a + 1)
      BY <1>1, <1>2, <1>3, <1>4, <2>2, CarriesNextEvent
    <3>2. a + 1 \in 0 .. emitted[r] /\ a + 1 <= b
      BY <1>1, <1>2, <2>2
    <3> QED
      BY <1>2, <1>3, <2>2, <3>1, <3>2 DEF InFlight
  <2> QED
    BY <1>1, <1>2, <2>1, <2>2, CarriesRest
<1> QED
  BY <1>1, <1>3, <1>5 DEF StreamOK, NotStarted, Started, ClosedInOrder

LEMMA StepKeepsStream ==
  ASSUME TypeOK, HandlesOwned, NEW r \in Runs, StreamOK(r), Step(r)
  PROVE  StreamOK(r)'
<1>1. CASE \/ \E s \in Sessions : PostNew(r, s) \/ PostResume(r, s)
           \/ RefuseRun(r) \/ StoreAbortHandle(r)
  <2>1. /\ UNCHANGED <<task, run_fn, pipe, reader>>
        /\ \/ {handler[r], handler'[r]} \subseteq {"none", "validated", "refused"}
           \/ {handler[r], handler'[r]} \subseteq {"spawned", "streaming"}
    BY <1>1 DEF PostNew, PostResume, RefuseRun, StoreAbortHandle, TypeOK
  <2> QED
    BY <2>1, SameStream DEF pipe, reader
<1>2. CASE SpawnRun(r)
  <2>1. /\ handler'[r] = "spawned" /\ task'[r] = "select" /\ run_fn'[r] = "running"
        /\ relay'[r] = "open" /\ client'[r] = "reading"
        /\ UNCHANGED <<emitted, inner, outer, received>>
    BY <1>2 DEF SpawnRun, TypeOK
  <2>2. emitted[r] = 0 /\ inner[r] = <<>> /\ outer[r] = <<>> /\ received[r] = <<>>
    BY <1>2 DEF SpawnRun, StreamOK, NotStarted
  <2>3. InFlight(r)'
    BY <2>1, <2>2, CarriesNothing DEF InFlight
  <2> QED
    BY <2>1, <2>3 DEF StreamOK, NotStarted, Started, ClosedInOrder
<1>3. CASE Emit(r)
  BY <1>3, EmitKeepsStream
<1>4. CASE Return(r)
  <2>1. run_fn[r] = "running" /\ run_fn'[r] \notin {"none", "running"}
    BY <1>4, OutcomesAssumption DEF Return, TypeOK, AllOutcomes
  <2> QED
    BY <1>4, <2>1, SameStream DEF Return, pipe, reader
<1>5. CASE Relay(r)
  BY <1>5, RelayKeepsStream
<1>6. CASE RelayEnds(r)
  BY <1>6 DEF RelayEnds, Drained, StreamOK, NotStarted, Started, InFlight, ClosedInOrder, reader, TypeOK
<1>7. CASE SendTimeoutFrame(r) \/ SendErrorFrame(r)
  <2>1. task[r] \in {"send_timeout", "send_error"} /\ task'[r] # "none"
    BY <1>7 DEF SendTimeoutFrame, SendErrorFrame, Advance, TypeOK
  <2>2. \E f \in {ErrorFrame, RunTimeoutFrame} : Send(r, f)
    BY <1>7 DEF SendTimeoutFrame, SendErrorFrame
  <2>3. UNCHANGED <<handler, run_fn, emitted, inner, relay, reader>>
    BY <1>7 DEF SendTimeoutFrame, SendErrorFrame
  <2> QED
    BY <2>1, <2>2, <2>3, SendKeepsStream
<1>8. CASE \/ TimeOut(r) \/ TakeResult(r) \/ TakeError(r)
           \/ CloseTimedOut(r) \/ Abandon(r) \/ Settle(r)
  <2>1. task[r] \notin {"none", "over"} /\ task'[r] # "none"
    BY <1>8 DEF TimeOut, TakeResult, TakeError, CloseTimedOut, Abandon, Settle, Advance, TypeOK
  <2>2. UNCHANGED <<handler, run_fn, pipe, reader>>
    BY <1>8 DEF TimeOut, TakeResult, TakeError, CloseTimedOut, Abandon, Settle
  <2> QED
    BY <2>1, <2>2, SameStream DEF pipe, reader
<1>9. CASE Receive(r)
  BY <1>9, ReceiveKeepsStream
<1>10. CASE EndStream(r)
  BY <1>10 DEF EndStream, StreamOK, NotStarted, Started, InFlight, ClosedInOrder, pipe, TypeOK
<1>11. CASE ClientLeaves(r)
  BY <1>11 DEF ClientLeaves, StreamOK, NotStarted, Started, InFlight, ClosedInOrder, TypeOK
<1> QED
  BY <1>1, <1>2, <1>3, <1>4, <1>5, <1>6, <1>7, <1>8, <1>9, <1>10, <1>11 DEF Step, Progress

LEMMA InitStream == Init => StreamInv
<1> SUFFICES ASSUME Init, NEW r \in Runs PROVE StreamOK(r)
  BY DEF StreamInv
<1>1. InFlight(r)
  BY CarriesNothing DEF Init, InitAfter, InFlight
<1> QED
  BY <1>1 DEF Init, InitAfter, StreamOK, NotStarted, Started, ClosedInOrder

LEMMA NextStream == IInv /\ StreamInv /\ [Next]_vars => StreamInv'
<1> SUFFICES ASSUME IInv, StreamInv, [Next]_vars, NEW q \in Runs PROVE StreamOK(q)'
  BY DEF StreamInv
<1>0. StreamOK(q) /\ TypeOK /\ HandlesOwned
  BY DEF StreamInv, IInv, OwnInv
<1>1. CASE \E r \in Runs : Step(r)
  BY <1>0, <1>1, StepKeepsStream, OtherStreams
<1>2. CASE \E s \in Sessions : DeleteRun(s)
  BY <1>0, <1>2, SameStream DEF DeleteRun, pipe, reader
<1>3. CASE \E k \in stopping : Stop(k)
  <2>1. /\ UNCHANGED <<handler, run_fn, pipe, reader>>
        /\ task'[q] = task[q] \/ (task[q] \notin {"none", "over"} /\ task'[q] # "none")
    BY <1>0, <1>3 DEF Stop, TypeOK
  <2> QED
    BY <1>0, <2>1, SameStream DEF pipe, reader
<1>4. CASE UNCHANGED vars
  BY <1>0, <1>4, SameStream DEF vars, pipe, reader
<1> QED
  BY <1>1, <1>2, <1>3, <1>4 DEF Next

\* The two channels and the relay: what a client reads of its agent's events is
\* a prefix of what was emitted, in order, and everything once the response is
\* complete, for any number of events and any channel capacity.
THEOREM StreamsAreFaithful == Spec => []StreamFaithful
<1>1. Spec => []StreamInv
  BY Invariant, InitStream, NextStream, PTL DEF Spec
<1>2. IInv /\ StreamInv => StreamFaithful
  <2> SUFFICES ASSUME IInv, StreamInv, NEW r \in Runs
               PROVE  \E n \in 0 .. emitted[r] : /\ Carries(received[r], 0, n)
                                                 /\ client[r] = "done" => n = emitted[r]
    BY DEF StreamFaithful
  <2>1. PICK a \in 0 .. emitted[r], b \in 0 .. emitted[r] :
           /\ a <= b
           /\ Carries(received[r], 0, a)
           /\ client[r] # "gone" => /\ Carries(outer[r], a, b)
                                    /\ Carries(inner[r], b, emitted[r])
    BY DEF StreamInv, StreamOK, InFlight
  <2>2. emitted[r] \in Nat /\ a \in Nat /\ b \in Nat /\ b <= emitted[r]
    BY BoundsAssumption DEF IInv, TypeOK
  <2>3. ASSUME client[r] = "done" PROVE a = emitted[r]
    <3>1. inner[r] = <<>> /\ outer[r] = <<>>
      BY <2>3 DEF StreamInv, StreamOK, ClosedInOrder
    <3>2. Carries(<<>>, a, b) /\ Carries(<<>>, b, emitted[r])
      BY <2>1, <2>3, <3>1
    <3> QED
      BY <2>1, <2>2, <3>2, NothingCarried
  <2> QED
    BY <2>1, <2>3
<1> QED
  BY <1>1, <1>2, Invariant, PTL

-------------------------------------------------------------------------------
(* The exit code a response reports.                                         *)

\* The code the record of an ended run holds: none after a RunError.
CodeOf(outcome) == IF outcome = "error" THEN None ELSE ExitCode(outcome)

Alone(r) == \A q \in Runs \ {r} : session[q] # session[r]

\* The run has returned and its task has told the client all it has to tell.
Told(r) == task[r] = "settle" \/ status[session[r]] = "idle"

\* What the record of a session says of its only run so far.
RecordOK(r) ==
  LET s == session[r]
  IN  /\ status[s] = "idle" => task[r] = "over"
      /\ Told(r) => run_fn[r] \in {"success", "failure", "silent_failure", "error"}
      /\ task[r] = "send_error" => run_fn[r] \in {"failure", "error"}
      /\ task[r] = "select" => status[s] = "absent" \/ last_exit_code[s] = None
      /\ (task[r] = "send_error" \/ Told(r)) =>
            status[s] = "absent" \/ last_exit_code[s] = CodeOf(run_fn[r])

OnlyEvents(queue) == \A i \in DOMAIN queue : queue[i] > 0

HoldsError(queue) == \E i \in DOMAIN queue : queue[i] = ErrorFrame

\* What the stream says of it: no serve frame before the run's result is taken
\* nor after a success, and an error frame after a RunError.
FramesOK(r) ==
  /\ OnlyEvents(inner[r])
  /\ (task[r] = "select" \/ (Told(r) /\ run_fn[r] = "success")) =>
        OnlyEvents(outer[r]) /\ OnlyEvents(received[r])
  /\ (Told(r) /\ run_fn[r] = "error" /\ client[r] # "gone") =>
        HoldsError(outer[r]) \/ HoldsError(received[r])

ExitOK(r) ==
  (handler[r] \in {"spawned", "streaming"} /\ Alone(r)) => RecordOK(r) /\ FramesOK(r)

NotPosted == \A r \in Runs : handler[r] = "none" => session[r] = None

ExitInv == NotPosted /\ \A r \in Runs : ExitOK(r)

\* Nobody leaves a session: a run that is alone on it has always been.
LEMMA AlwaysAlone ==
  ASSUME TypeOK, HandlesOwned, NotPosted, [Next]_vars,
         NEW r \in Runs, handler[r] # "none"
  PROVE  /\ session'[r] = session[r] /\ session[r] \in Sessions
         /\ Alone(r)' => Alone(r)
<1>1. \A q \in Runs : session'[q] = session[q] \/ (handler[q] = "none" /\ session[q] = None)
  <2>1. CASE \E q \in Runs : Step(q)
    <3>1. PICK q \in Runs : Step(q)
      BY <2>1
    <3>2. CASE \E s \in Sessions : PostNew(q, s) \/ PostResume(q, s)
      BY <3>2 DEF PostNew, PostResume, TypeOK, NotPosted
    <3>3. CASE ~ \E s \in Sessions : PostNew(q, s) \/ PostResume(q, s)
      BY <3>1, <3>3 DEF Step, Progress, RefuseRun, SpawnRun, StoreAbortHandle, Emit, Return,
         Relay, RelayEnds, TimeOut, SendTimeoutFrame, CloseTimedOut, Abandon, TakeResult,
         TakeError, SendErrorFrame, Settle, Receive, EndStream, ClientLeaves
    <3> QED
      BY <3>2, <3>3
  <2>2. CASE (\E s \in Sessions : DeleteRun(s)) \/ (\E k \in stopping : Stop(k)) \/ UNCHANGED vars
    BY <2>2 DEF DeleteRun, Stop, vars
  <2> QED
    BY <2>1, <2>2 DEF Next
<1>2. session[r] \in Sessions
  BY DEF HandlesOwned
<1> QED
  BY <1>1, <1>2, NoneAssumption DEF Alone

\* To end the run of one session may only prune the record of another.
LEMMA ConcludeElsewhere ==
  ASSUME TypeOK, NEW s, NEW new \in {"idle", "closed"}, NEW exit, Conclude(s, new, exit),
         NEW t \in Sessions, t # s
  PROVE  \/ status'[t] = "absent"
         \/ status'[t] = status[t] /\ last_exit_code'[t] = last_exit_code[t]
BY DEF Conclude, TypeOK

LEMMA OthersRecord ==
  ASSUME TypeOK, NEW r \in Runs, Step(r), NEW t \in Sessions, session[r] # t
  PROVE  \/ status'[t] = "absent"
         \/ status'[t] = status[t] /\ last_exit_code'[t] = last_exit_code[t]
<1>1. CASE CloseTimedOut(r) \/ Abandon(r)
  BY <1>1, ConcludeElsewhere DEF CloseTimedOut, Abandon
<1>2. CASE Settle(r)
  BY <1>2, ConcludeElsewhere DEF Settle
<1>3. CASE SpawnRun(r) \/ TakeResult(r)
  BY <1>3 DEF SpawnRun, TakeResult, TypeOK
<1>4. CASE ~(CloseTimedOut(r) \/ Abandon(r) \/ Settle(r) \/ SpawnRun(r) \/ TakeResult(r))
  BY <1>4 DEF Step, Progress, PostNew, PostResume, RefuseRun, StoreAbortHandle, Emit, Return,
     Relay, RelayEnds, TimeOut, SendTimeoutFrame, TakeError, SendErrorFrame, Receive, EndStream,
     ClientLeaves, registry
<1> QED
  BY <1>1, <1>2, <1>3, <1>4

\* Steps that neither conclude the run nor touch its frames.
LEMMA SameExit ==
  ASSUME NEW q \in Runs, RecordOK(q), FramesOK(q),
         session'[q] = session[q], run_fn'[q] = run_fn[q],
         task'[q] = task[q] \/ (task[q] \in {"select", "send_timeout", "send_error"} /\ task'[q] = "over"),
         \/ status'[session[q]] = "absent"
         \/ /\ \/ status'[session[q]] = status[session[q]]
               \/ status'[session[q]] = "closed" /\ status[session[q]] # "absent"
            /\ last_exit_code'[session[q]] = last_exit_code[session[q]],
         inner'[q] = inner[q], outer'[q] = outer[q],
         client'[q] = client[q], received'[q] = received[q]
  PROVE  RecordOK(q)' /\ FramesOK(q)'
<1>1. RecordOK(q)'
  BY DEF RecordOK, Told, CodeOf, ExitCode
<1>2. Told(q)' => Told(q)
  BY DEF Told, RecordOK
<1> QED
  BY <1>1, <1>2 DEF FramesOK, OnlyEvents, HoldsError

\* The task's own sends: an error frame after a failed run, a timeout frame
\* before the record is closed.
LEMMA SendKeepsExit ==
  ASSUME TypeOK, NEW r \in Runs, RecordOK(r), FramesOK(r),
         SendTimeoutFrame(r) \/ SendErrorFrame(r)
  PROVE  RecordOK(r)' /\ FramesOK(r)'
<1>1. CASE SendTimeoutFrame(r)
  <2>1. /\ task[r] = "send_timeout" /\ task'[r] = "close_timed_out"
        /\ UNCHANGED <<registry, session, run_fn, inner>>
    BY <1>1 DEF SendTimeoutFrame, Advance, TypeOK
  <2> QED
    BY <2>1 DEF RecordOK, FramesOK, Told, OnlyEvents, registry
<1>2. CASE SendErrorFrame(r)
  <2>1. /\ task[r] = "send_error" /\ task'[r] = "settle"
        /\ UNCHANGED <<registry, session, run_fn, inner, reader>>
    BY <1>2 DEF SendErrorFrame, Advance, TypeOK
  <2>2. outer[r] \in Seq(Frames)
    BY DEF TypeOK
  <2>3. client[r] # "gone" => outer'[r] = Append(outer[r], ErrorFrame)
    BY <1>2 DEF SendErrorFrame, Send, TypeOK
  <2>4. client[r] # "gone" => HoldsError(outer[r])'
    BY <2>2, <2>3, ServeFrames, Appended DEF HoldsError
  <2>5. RecordOK(r)'
    BY <2>1 DEF RecordOK, Told, CodeOf, ExitCode, registry
  <2> QED
    BY <2>1, <2>4, <2>5 DEF RecordOK, FramesOK, Told, OnlyEvents, registry, reader
<1> QED
  BY <1>1, <1>2

\* The agent's events on their way.
LEMMA EventsKeepExit ==
  ASSUME TypeOK, NEW r \in Runs, RecordOK(r), FramesOK(r),
         Emit(r) \/ Relay(r) \/ Receive(r)
  PROVE  RecordOK(r)' /\ FramesOK(r)'
<1>0. /\ inner[r] \in Seq(Frames) /\ outer[r] \in Seq(Frames) /\ received[r] \in Seq(Frames)
      /\ emitted[r] \in 0 .. MaxEvents
  BY DEF TypeOK
<1>1. UNCHANGED <<registry, session, task, run_fn, client>>
  BY DEF Emit, Relay, Receive, reader
<1>2. RecordOK(r)'
  BY <1>1 DEF RecordOK, Told, CodeOf, ExitCode, registry
<1>3. CASE Emit(r)
  <2>1. /\ UNCHANGED <<outer, received>> /\ emitted[r] + 1 \in Frames /\ emitted[r] + 1 > 0
        /\ inner'[r] \in {inner[r], Append(inner[r], emitted[r] + 1)}
    BY <1>0, <1>3, FramesOfEvents, BoundsAssumption DEF Emit, TypeOK, reader
  <2>2. OnlyEvents(Append(inner[r], emitted[r] + 1))
    BY <1>0, <2>1, Appended DEF OnlyEvents, FramesOK
  <2>3. OnlyEvents(inner[r])'
    BY <2>1, <2>2 DEF OnlyEvents, FramesOK
  <2> QED
    BY <1>1, <1>2, <2>1, <2>3 DEF FramesOK, Told, OnlyEvents, HoldsError, registry
<1>4. CASE Relay(r)
  <2>1. inner[r] # <<>> /\ UNCHANGED received
    BY <1>4 DEF Relay, reader
  <2>2. CASE client[r] = "gone"
    <3>1. inner'[r] = <<>> /\ outer'[r] = outer[r]
      BY <1>4, <2>2 DEF Relay, TypeOK
    <3> QED
      BY <1>1, <1>2, <2>1, <2>2, <3>1 DEF FramesOK, Told, OnlyEvents, registry
  <2>3. CASE client[r] # "gone"
    <3>1. inner'[r] = Tail(inner[r]) /\ outer'[r] = Append(outer[r], Head(inner[r]))
      BY <1>4, <2>3 DEF Relay, TypeOK
    <3>2. Head(inner[r]) \in Frames /\ Head(inner[r]) > 0
      BY <1>0, <2>1, Shortened DEF FramesOK, OnlyEvents
    <3>3. OnlyEvents(inner[r])'
      BY <1>0, <2>1, <3>1, Shortened DEF FramesOK, OnlyEvents
    <3>4. OnlyEvents(outer[r]) => OnlyEvents(outer[r])'
      BY <1>0, <3>1, <3>2, Appended DEF OnlyEvents
    <3>5. HoldsError(outer[r]) => HoldsError(outer[r])'
      BY <1>0, <3>1, <3>2, Appended DEF HoldsError
    <3> QED
      BY <1>1, <1>2, <2>1, <3>3, <3>4, <3>5 DEF FramesOK, Told, OnlyEvents, HoldsError, registry
  <2> QED
    BY <2>2, <2>3
<1>5. CASE Receive(r)
  <2>1. /\ outer[r] # <<>> /\ UNCHANGED inner
        /\ outer'[r] = Tail(outer[r]) /\ received'[r] = Append(received[r], Head(outer[r]))
    BY <1>5 DEF Receive, TypeOK
  <2>2. Head(outer[r]) \in Frames
    BY <1>0, <2>1, FrameSequences
  <2>3. OnlyEvents(outer[r]) /\ OnlyEvents(received[r]) =>
           OnlyEvents(outer[r])' /\ OnlyEvents(received[r])'
    BY <1>0, <2>1, <2>2, Shortened, Appended DEF OnlyEvents
  <2>4. HoldsError(received[r]) => HoldsError(received[r])'
    BY <1>0, <2>1, <2>2, Appended DEF HoldsError
  <2>5. HoldsError(outer[r]) => HoldsError(outer[r])' \/ HoldsError(received[r])'
    <3> SUFFICES ASSUME NEW i \in DOMAIN outer[r], outer[r][i] = ErrorFrame
                 PROVE  HoldsError(outer[r])' \/ HoldsError(received[r])'
      BY DEF HoldsError
    <3>1. CASE i = 1
      <4>1. Head(outer[r]) = ErrorFrame
        BY <1>0, <2>1, <3>1, Shortened
      <4> QED
        BY <1>0, <2>1, <2>2, <4>1, Appended DEF HoldsError
    <3>2. CASE i # 1
      <4>1. i - 1 \in DOMAIN Tail(outer[r]) /\ Tail(outer[r])[i - 1] = ErrorFrame
        BY <1>0, <2>1, <3>2, Shortened
      <4> QED
        BY <2>1, <4>1 DEF HoldsError
    <3> QED
      BY <3>1, <3>2
  <2> QED
    BY <1>1, <1>2, <2>1, <2>3, <2>4, <2>5 DEF FramesOK, Told, OnlyEvents, registry
<1> QED
  BY <1>3, <1>4, <1>5

\* The record's own status after the end of its run.
LEMMA ConcludeHere ==
  ASSUME TypeOK, NEW s \in Sessions, NEW new \in {"idle", "closed"}, NEW exit,
         Conclude(s, new, exit)
  PROVE  \/ status'[s] = "absent"
         \/ status'[s] = "idle" /\ new = "idle" /\ status[s] # "absent" /\ last_exit_code'[s] = exit
BY DEF Conclude, TypeOK

LEMMA StepKeepsExit ==
  ASSUME TypeOK, HandlesOwned, NEW r \in Runs, StreamOK(r), Step(r),
         handler'[r] \in {"spawned", "streaming"},
         handler[r] \in {"spawned", "streaming"} => RecordOK(r) /\ FramesOK(r)
  PROVE  RecordOK(r)' /\ FramesOK(r)'
<1>1. CASE SpawnRun(r)
  <2>1. /\ session'[r] = session[r] /\ session[r] \in Sessions
        /\ task'[r] = "select" /\ run_fn'[r] = "running"
        /\ status'[session[r]] = "running" /\ last_exit_code'[session[r]] = None
        /\ UNCHANGED <<inner, outer, received>>
    BY <1>1 DEF SpawnRun, HandlesOwned, TypeOK
  <2>2. inner[r] = <<>> /\ outer[r] = <<>> /\ received[r] = <<>>
    BY <1>1 DEF SpawnRun, StreamOK, NotStarted
  <2> QED
    BY <2>1, <2>2 DEF RecordOK, FramesOK, Told, OnlyEvents
<1>2. CASE ~SpawnRun(r)
  <2>1. /\ handler[r] \in {"spawned", "streaming"} /\ ~RefuseRun(r)
        /\ \A s \in Sessions : ~PostNew(r, s) /\ ~PostResume(r, s)
    BY <1>2 DEF Step, Progress, PostNew, PostResume, RefuseRun, StoreAbortHandle, Emit, Return,
       Relay, RelayEnds, TimeOut, SendTimeoutFrame, CloseTimedOut, Abandon, TakeResult, TakeError,
       SendErrorFrame, Settle, Receive, EndStream, ClientLeaves, TypeOK
  <2>2. RecordOK(r) /\ FramesOK(r) /\ session[r] \in Sessions
    BY <2>1 DEF HandlesOwned
  <2>3. CASE StoreAbortHandle(r) \/ RelayEnds(r) \/ EndStream(r)
    <3>1. /\ UNCHANGED <<status, last_exit_code, session, task, run_fn, inner, outer, received>>
          /\ client'[r] = "gone" <=> client[r] = "gone"
      BY <2>3 DEF StoreAbortHandle, RelayEnds, EndStream, registry, pipe, reader, TypeOK
    <3> QED
      BY <2>2, <3>1 DEF RecordOK, FramesOK, Told, CodeOf, ExitCode, OnlyEvents, HoldsError
  <2>4. CASE Emit(r) \/ Relay(r) \/ Receive(r)
    BY <2>2, <2>4, EventsKeepExit
  <2>5. CASE SendTimeoutFrame(r) \/ SendErrorFrame(r)
    BY <2>2, <2>5, SendKeepsExit
  <2>6. CASE Return(r)
    <3>1. /\ UNCHANGED <<registry, session, task, inner, outer, received, client>>
          /\ run_fn[r] = "running"
      BY <2>6 DEF Return, pipe, reader
    <3> QED
      BY <2>2, <3>1 DEF RecordOK, FramesOK, Told, OnlyEvents, registry
  <2>7. CASE TimeOut(r)
    <3>1. /\ UNCHANGED <<registry, session, run_fn, inner>>
          /\ task[r] = "select" /\ task'[r] = "send_timeout"
      BY <2>7 DEF TimeOut, Advance, pipe, TypeOK
    <3> QED
      BY <2>2, <3>1 DEF RecordOK, FramesOK, Told, OnlyEvents, registry
  <2>8. CASE CloseTimedOut(r) \/ Abandon(r)
    <3>1. /\ UNCHANGED <<session, run_fn, inner>> /\ task'[r] = "over"
          /\ status'[session[r]] = "absent"
      BY <2>2, <2>8, ConcludeHere DEF CloseTimedOut, Abandon, Advance, pipe, TypeOK
    <3> QED
      BY <2>2, <3>1 DEF RecordOK, FramesOK, Told, OnlyEvents
  <2>9. CASE TakeResult(r)
    <3>1. /\ UNCHANGED <<status, session, run_fn, inner, outer, received>>
          /\ task[r] = "select"
          /\ run_fn[r] \in {"success", "failure", "silent_failure"}
          /\ task'[r] = IF run_fn[r] = "failure" THEN "send_error" ELSE "settle"
          /\ status[session[r]] # "absent" =>
                last_exit_code'[session[r]] = ExitCode(run_fn[r])
      BY <2>2, <2>9 DEF TakeResult, Advance, pipe, reader, TypeOK
    <3> QED
      BY <2>2, <3>1 DEF RecordOK, FramesOK, Told, CodeOf, ExitCode, OnlyEvents
  <2>10. CASE TakeError(r)
    <3>1. /\ UNCHANGED <<registry, session, run_fn, inner, outer, received>>
          /\ task[r] = "select" /\ run_fn[r] = "error" /\ task'[r] = "send_error"
      BY <2>10 DEF TakeError, Advance, pipe, reader, TypeOK
    <3> QED
      BY <2>2, <3>1 DEF RecordOK, FramesOK, Told, CodeOf, OnlyEvents, registry
  <2>11. CASE Settle(r)
    <3>1. /\ UNCHANGED <<session, run_fn, inner, outer, received, client>>
          /\ task[r] = "settle" /\ task'[r] = "over"
          /\ \/ status'[session[r]] = "absent"
             \/ /\ status'[session[r]] = "idle" /\ status[session[r]] # "absent"
                /\ last_exit_code'[session[r]] = last_exit_code[session[r]]
      BY <2>2, <2>11, ConcludeHere DEF Settle, Advance, pipe, reader, TypeOK
    <3> QED
      BY <2>2, <3>1 DEF RecordOK, FramesOK, Told, CodeOf, ExitCode, OnlyEvents, HoldsError
  <2>12. CASE ClientLeaves(r)
    <3>1. /\ UNCHANGED <<registry, session, task, run_fn, inner, received>>
          /\ outer'[r] = <<>> /\ client'[r] = "gone"
      BY <2>12 DEF ClientLeaves, TypeOK
    <3> QED
      BY <2>2, <3>1 DEF RecordOK, FramesOK, Told, CodeOf, ExitCode, OnlyEvents, registry
  <2> QED
    BY <1>2, <2>1, <2>3, <2>4, <2>5, <2>6, <2>7, <2>8, <2>9, <2>10, <2>11, <2>12 DEF Step, Progress
<1> QED
  BY <1>1, <1>2

\* Only a request that has been posted takes part in anything.
LEMMA StepPosted ==
  ASSUME TypeOK, HandlesOwned, NEW r \in Runs, NotStarted(r), Step(r)
  PROVE  handler'[r] # "none"
<1>1. CASE \/ \E s \in Sessions : PostNew(r, s) \/ PostResume(r, s)
           \/ RefuseRun(r) \/ StoreAbortHandle(r) \/ SpawnRun(r)
  BY <1>1 DEF PostNew, PostResume, RefuseRun, StoreAbortHandle, SpawnRun, TypeOK
<1>2. CASE Emit(r) \/ Return(r) \/ Relay(r) \/ RelayEnds(r)
  BY <1>2 DEF Emit, Return, Relay, RelayEnds, NotStarted
<1>3. CASE Receive(r) \/ EndStream(r) \/ ClientLeaves(r)
  BY <1>3 DEF Receive, EndStream, ClientLeaves
<1>4. CASE \/ TimeOut(r) \/ SendTimeoutFrame(r) \/ TakeResult(r) \/ TakeError(r)
           \/ SendErrorFrame(r) \/ CloseTimedOut(r) \/ Abandon(r) \/ Settle(r)
  BY <1>4 DEF TimeOut, SendTimeoutFrame, TakeResult, TakeError, SendErrorFrame, CloseTimedOut,
     Abandon, Settle, Advance, NotStarted
<1> QED
  BY <1>1, <1>2, <1>3, <1>4 DEF Step, Progress

LEMMA InitExit == Init => ExitInv
BY DEF Init, InitAfter, ExitInv, NotPosted, ExitOK

LEMMA NextExit == IInv /\ StreamInv /\ ExitInv /\ [Next]_vars => ExitInv'
<1> SUFFICES ASSUME IInv, StreamInv, ExitInv, [Next]_vars PROVE ExitInv'
  OBVIOUS
<1>0. TypeOK /\ HandlesOwned /\ NotPosted
  BY DEF IInv, OwnInv, ExitInv
<1>1. NotPosted'
  <2> SUFFICES ASSUME NEW q \in Runs, handler'[q] = "none" PROVE session'[q] = None
    BY DEF NotPosted
  <2>1. CASE \E r \in Runs : Step(r)
    <3>1. PICK r \in Runs : Step(r)
      BY <2>1
    <3>2. r # q
      BY <1>0, <3>1, StepPosted DEF StreamInv, StreamOK
    <3> QED
      BY <1>0, <3>1, <3>2, OthersUntouched DEF NotPosted
  <2>2. CASE (\E s \in Sessions : DeleteRun(s)) \/ (\E k \in stopping : Stop(k)) \/ UNCHANGED vars
    BY <1>0, <2>2 DEF DeleteRun, Stop, vars, NotPosted
  <2> QED
    BY <2>1, <2>2 DEF Next
<1>2. ASSUME NEW q \in Runs, handler'[q] \in {"spawned", "streaming"}, Alone(q)'
      PROVE  RecordOK(q)' /\ FramesOK(q)'
  <2>1. CASE \E r \in Runs : Step(r)
    <3>1. PICK r \in Runs : Step(r)
      BY <2>1
    <3>2. CASE r = q
      <4>1. handler[q] # "none"
        BY <1>0, <1>2, <3>1, <3>2 DEF Step, Progress, PostNew, PostResume, RefuseRun, SpawnRun,
           StoreAbortHandle, Emit, Return, Relay, RelayEnds, TimeOut, SendTimeoutFrame,
           CloseTimedOut, Abandon, TakeResult, TakeError, SendErrorFrame, Settle, Receive,
           EndStream, ClientLeaves, TypeOK
      <4>2. Alone(q)
        BY <1>0, <1>2, <4>1, AlwaysAlone
      <4> QED
        BY <1>0, <1>2, <3>1, <3>2, <4>2, StepKeepsExit DEF StreamInv, ExitInv, ExitOK
    <3>3. CASE r # q
      <4>1. handler[q] = handler'[q]
        BY <1>0, <3>1, <3>3, OthersUntouched
      <4>2. Alone(q) /\ session[q] \in Sessions
        BY <1>0, <1>2, <4>1, AlwaysAlone
      <4>3. RecordOK(q) /\ FramesOK(q)
        BY <1>2, <4>1, <4>2 DEF ExitInv, ExitOK
      <4>4. \/ status'[session[q]] = "absent"
            \/ /\ status'[session[q]] = status[session[q]]
               /\ last_exit_code'[session[q]] = last_exit_code[session[q]]
        BY <1>0, <3>1, <3>3, <4>2, OthersRecord DEF Alone
      <4> QED
        BY <1>0, <3>1, <3>3, <4>3, <4>4, OthersUntouched, SameExit
    <3> QED
      BY <3>2, <3>3
  <2>2. CASE (\E s \in Sessions : DeleteRun(s)) \/ (\E k \in stopping : Stop(k)) \/ UNCHANGED vars
    <3>1. /\ UNCHANGED <<session, handler, run_fn, inner, outer, client, received, last_exit_code>>
          /\ \/ task'[q] = task[q]
             \/ task[q] \in {"select", "send_timeout", "send_error"} /\ task'[q] = "over"
      BY <1>0, <2>2 DEF DeleteRun, Stop, vars, registry, pipe, reader, TypeOK
    <3>2. Alone(q) /\ session[q] \in Sessions
      BY <1>0, <1>2, <3>1, AlwaysAlone
    <3>3. \/ status'[session[q]] = status[session[q]]
          \/ status'[session[q]] = "closed" /\ status[session[q]] # "absent"
      BY <1>0, <2>2, <3>2 DEF DeleteRun, Stop, vars, registry, TypeOK
    <3>4. RecordOK(q) /\ FramesOK(q)
      BY <1>2, <3>1, <3>2 DEF ExitInv, ExitOK
    <3> QED
      BY <3>1, <3>3, <3>4, SameExit
  <2> QED
    BY <2>1, <2>2 DEF Next
<1> QED
  BY <1>1, <1>2 DEF ExitInv, ExitOK

\* A response that completes before its session is given another turn reports
\* success only if the agent run succeeded, and failure only if it failed or said
\* QuotaExceeded, whatever the other sessions, their deletions and their prunings
\* do meanwhile.
THEOREM ResponsesReportOwnExit == Spec => ReportsOwnExit
<1>1. ASSUME IInv, StreamInv, ExitInv, [Next]_vars, NEW r \in Runs,
             client[r] = "reading", client'[r] = "done", status[session[r]] = "idle",
             \A q \in Runs \ {r} : session[q] # session[r]
      PROVE  /\ reported'[r] = 0 => run_fn[r] = "success"
             /\ reported'[r] # 0 => run_fn[r] # "success" \/ quota[r] # 0
  <2>1. TypeOK
    BY <1>1 DEF IInv
  <2>2. EndStream(r)
    <3>1. \E q \in Runs : Step(q)
      BY <1>1 DEF Next, DeleteRun, Stop, vars, reader
    <3>2. Step(r)
      BY <1>1, <2>1, <3>1, OthersUntouched
    <3> QED
      BY <1>1, <2>1, <3>2 DEF Step, Progress, PostNew, PostResume, RefuseRun, SpawnRun,
         StoreAbortHandle, Emit, Return, Relay, RelayEnds, TimeOut, SendTimeoutFrame,
         CloseTimedOut, Abandon, TakeResult, TakeError, SendErrorFrame, Settle, Receive,
         ClientLeaves, reader, TypeOK
  <2> DEFINE exit == last_exit_code[session[r]]
  <2>3. /\ RecordOK(r) /\ FramesOK(r) /\ outer[r] = <<>>
        /\ reported'[r] \in {DoneCode(r, exit), BodyCode(r, exit)}
    BY <1>1, <2>1, <2>2 DEF EndStream, ExitInv, ExitOK, Alone, TypeOK
  <2>4. /\ exit = CodeOf(run_fn[r])
        /\ run_fn[r] \in {"success", "failure", "silent_failure", "error"}
    BY <1>1, <2>3 DEF RecordOK, Told
  <2>5. received[r] \in Seq(Frames)
    BY <2>1 DEF TypeOK
  <2>6. CASE run_fn[r] = "success" /\ quota[r] = 0
    <3>1. OnlyEvents(received[r])
      BY <1>1, <2>3, <2>6 DEF FramesOK, Told
    <3>2. ~SawError(r)
      <4> SUFFICES ASSUME NEW i \in 1 .. Len(received[r]), received[r][i] <= 0 PROVE FALSE
        BY <2>5, <2>6 DEF SawError, Frames
      <4>1. i \in DOMAIN received[r] /\ received[r][i] \in Frames
        BY <2>5
      <4> QED
        BY <3>1, <4>1 DEF OnlyEvents, Frames
    <3> QED
      BY <2>3, <2>4, <2>6, <3>2, NoneAssumption DEF CodeOf, ExitCode, DoneCode, BodyCode
  <2>7. CASE run_fn[r] \in {"failure", "silent_failure"}
    BY <2>3, <2>4, <2>7, NoneAssumption DEF CodeOf, ExitCode, DoneCode, BodyCode
  <2>8. CASE run_fn[r] = "error"
    <3>1. HoldsError(received[r])
      BY <1>1, <2>3, <2>8 DEF FramesOK, Told, HoldsError
    <3>2. SawError(r)
      BY <2>5, <3>1 DEF HoldsError, SawError, ErrorFrame
    <3> QED
      BY <2>3, <2>4, <2>8, <3>2 DEF CodeOf, DoneCode, BodyCode
  <2> QED
    BY <1>1, <2>4, <2>6, <2>7, <2>8
<1>2. Spec => [](IInv /\ StreamInv /\ ExitInv)
  BY Invariant, InitStream, NextStream, InitExit, NextExit, PTL DEF Spec
<1>3. IInv /\ StreamInv /\ ExitInv /\ [Next]_vars =>
        [\A r \in Runs :
           (/\ client[r] = "reading" /\ client'[r] = "done"
            /\ status[session[r]] = "idle"
            /\ \A q \in Runs \ {r} : session[q] # session[r])
           => /\ reported'[r] = 0 => run_fn[r] = "success"
              /\ reported'[r] # 0 => run_fn[r] # "success" \/ quota[r] # 0]_vars
  BY <1>1
<1> QED
  BY <1>2, <1>3, PTL DEF Spec, ReportsOwnExit
===============================================================================
