------------------------------- MODULE RunCancel -------------------------------
(***************************************************************************)
(* Cancelling one subprocess run of aikit-sdk: run_agent_events_cancellable *)
(* (runner/mod.rs) on its own thread, RunCancelHandle with its child slot,  *)
(* the timeout watchdog and an external caller, and kill_process_group over *)
(* the agent CLI's process group (transport/subprocess.rs).                 *)
(*                                                                          *)
(* The group is the agent CLI (the direct child) and at most one tool it    *)
(* started, which inherits its output pipes.  The two reader threads are    *)
(* abstracted to the state of the pipes: they have reached end of file when *)
(* no process holds a write end.                                            *)
(***************************************************************************)
EXTENDS Integers, FiniteSets

CONSTANT External \* callers of cancel() besides the watchdog

ASSUME ExternalAssumption == External \cap {"watchdog", "main", "free"} = {}

\* Threads that call RunCancelHandle::cancel, and all that kill the group.
Callers == {"watchdog"} \cup External
Killers == Callers \cup {"main"}
Free    == "free"

\* How the two processes behave: whether each survives SIGTERM, whether the
\* agent CLI may close its output and live on, whether it may start a tool after
\* its SIGTERM; and whether RunOptions.timeout is set.
Natures == [child_ignores : BOOLEAN, tool_ignores : BOOLEAN, detaches : BOOLEAN,
            starts_late : BOOLEAN, timeout : BOOLEAN]

VARIABLES
  \* RunCancelHandle
  triggered,   \* the AtomicBool
  slot,        \* the child slot holds the run's child
  slot_lock,   \* who holds the slot's mutex across a kill
  \* the threads
  main,        \* the run's own thread
  settled,     \* the drain loop ended on a terminal event
  timed_out,   \* what is_cancelled() said when the readers had been joined
  call,        \* each caller's progress through cancel()
  killing,     \* each thread's progress through kill_process_group
  watchdog,    \* "off", "armed", "dismissed" or "fired"
  \* the operating system's side
  child_lock,  \* who holds the child's mutex across a wait
  child,       \* the agent CLI; "exited" until somebody reaps it
  tool,        \* the tool it started
  output,      \* the agent CLI still holds its output pipes
  termed,      \* processes with a SIGTERM to act on
  nature,      \* how the two processes behave
  cut_short    \* ghost: a cancel has signalled the group before its output ended

handle  == <<triggered, slot, slot_lock>>
outcome == <<settled, timed_out, cut_short>>
threads == <<main, outcome, call, killing, watchdog>>
group   == <<child, tool, output, termed, nature>>
cancelVars == <<handle, threads, child_lock, group>>

MainStates == {"connect", "bind", "bind_check", "bind_kill", "arm", "drain",
               "drained", "settle_kill", "join", "check", "wait", "waiting",
               "unbind", "panic_kill", "returned"}

CancelInit ==
  /\ triggered = FALSE
  /\ slot = FALSE
  /\ slot_lock = Free
  /\ main = "connect"
  /\ settled = FALSE
  /\ timed_out = FALSE
  /\ cut_short = FALSE
  /\ call = [t \in Callers |-> "idle"]
  /\ killing = [t \in Killers |-> "no"]
  /\ watchdog = "off"
  /\ child_lock = Free
  /\ child = "none"
  /\ tool = "none"
  /\ output = FALSE
  /\ termed = {}
  /\ nature \in Natures

\* No process holds a write end of stdout or stderr: the readers are at their
\* end, and so is the channel they feed.
OutputClosed == ~output /\ tool # "running"

-------------------------------------------------------------------------------
(* kill_process_group, as run by any thread.                                 *)

\* A kill on behalf of cancel(), by its caller or by bind, while there was still
\* output to come.
CutsShort(t) ==
  cut_short \/ ((t # "main" \/ main = "bind_kill") /\ ~OutputClosed)

\* The members of the group that are there to be signalled.
Signalled == (IF child = "running" THEN {"child"} ELSE {})
               \cup (IF tool = "running" THEN {"tool"} ELSE {})

\* The pid is read under the child's mutex; then SIGTERM to the group.
SendTerm(t) ==
  /\ killing[t] = "term"
  /\ child_lock = Free
  /\ killing' = [killing EXCEPT ![t] = "poll"]
  /\ termed' = termed \cup Signalled
  /\ cut_short' = CutsShort(t)
  /\ UNCHANGED <<handle, main, settled, timed_out, call, watchdog, child_lock,
                 child, tool, output, nature>>

\* try_wait: the direct child has exited, it is reaped and the call returns.
PollReaps(t) ==
  /\ killing[t] = "poll"
  /\ child_lock = Free
  /\ child \in {"exited", "reaped"}
  /\ child' = "reaped"
  /\ killing' = [killing EXCEPT ![t] = "no"]
  /\ UNCHANGED <<handle, main, outcome, call, watchdog, child_lock, tool, output,
                 termed, nature>>

\* The three seconds of grace are over: SIGKILL to the group.
WaitsForExit(t) == FALSE \* mutated form
GraceOver(t) == killing[t] = "poll"

SendKill(t) ==
  /\ GraceOver(t)
  /\ killing' = [killing EXCEPT ![t] = "reap"]
  /\ child' = IF child = "running" THEN "exited" ELSE child
  /\ output' = FALSE
  /\ tool' = IF tool = "running" THEN "gone" ELSE tool
  /\ termed' = {}
  /\ cut_short' = CutsShort(t)
  /\ UNCHANGED <<handle, main, settled, timed_out, call, watchdog, child_lock,
                 nature>>

\* wait() under the child's mutex; the child is dead by now.
Reap(t) ==
  /\ killing[t] = "reap"
  /\ child_lock = Free
  /\ child' = "reaped"
  /\ killing' = [killing EXCEPT ![t] = "no"]
  /\ UNCHANGED <<handle, main, outcome, call, watchdog, child_lock, tool, output,
                 termed, nature>>

KillGroup(t) == SendTerm(t) \/ PollReaps(t) \/ SendKill(t) \/ Reap(t)

-------------------------------------------------------------------------------
(* RunCancelHandle::cancel, by the watchdog and by an external caller.       *)

\* compare_exchange: only the first caller goes on.
Trigger(t) ==
  /\ call[t] = "idle"
  /\ t = "watchdog" => watchdog = "fired"
  /\ triggered' = TRUE
  /\ call' = [call EXCEPT ![t] = IF triggered THEN "done" ELSE "slot"]
  /\ UNCHANGED <<slot, slot_lock, main, outcome, killing, watchdog, child_lock,
                 group>>

\* The slot's mutex is taken, and kept while the group is being killed.
LockSlot(t) ==
  /\ call[t] = "slot"
  /\ slot_lock = Free
  /\ IF slot
       THEN /\ slot_lock' = t
            /\ killing' = [killing EXCEPT ![t] = "term"]
            /\ call' = [call EXCEPT ![t] = "kill"]
       ELSE /\ call' = [call EXCEPT ![t] = "done"]
            /\ UNCHANGED <<slot_lock, killing>>
  /\ UNCHANGED <<triggered, slot, main, outcome, watchdog, child_lock, group>>

FinishCancel(t) ==
  /\ call[t] = "kill"
  /\ killing[t] = "no"
  /\ slot_lock' = Free
  /\ call' = [call EXCEPT ![t] = "done"]
  /\ UNCHANGED <<triggered, slot, main, outcome, killing, watchdog, child_lock,
                 group>>

\* recv_timeout elapses before the drain loop has dismissed the watchdog.
WatchdogFires ==
  /\ watchdog = "armed"
  /\ watchdog' = "fired"
  /\ UNCHANGED <<handle, main, outcome, call, killing, child_lock, group>>

-------------------------------------------------------------------------------
(* The run's own thread.                                                     *)

Goto(from, to) == main = from /\ main' = to

\* subprocess::connect: the child is spawned as the leader of its group with
\* the readers and the stdin writer started.  A failed spawn returns at once.
Connect ==
  /\ \/ /\ Goto("connect", "bind")
        /\ child' = "running"
        /\ output' = TRUE
     \/ /\ Goto("connect", "returned")
        /\ UNCHANGED <<child, output>>
  /\ UNCHANGED <<handle, outcome, call, killing, watchdog, child_lock, tool,
                 termed, nature>>

\* bind: store the child, then look whether a cancel came first.
BindSlot ==
  /\ Goto("bind", "bind_check")
  /\ slot_lock = Free
  /\ slot' = TRUE
  /\ UNCHANGED <<triggered, slot_lock, outcome, call, killing, watchdog,
                 child_lock, group>>

BindBlindly == FALSE \* mutated form
CancelledBeforeBind == triggered

BindCheck ==
  /\ IF CancelledBeforeBind
       THEN /\ Goto("bind_check", "bind_kill")
            /\ killing' = [killing EXCEPT !["main"] = "term"]
       ELSE /\ Goto("bind_check", "arm")
            /\ UNCHANGED killing
  /\ UNCHANGED <<handle, outcome, call, watchdog, child_lock, group>>

Bound ==
  /\ Goto("bind_kill", "arm")
  /\ killing["main"] = "no"
  /\ UNCHANGED <<handle, outcome, call, killing, watchdog, child_lock, group>>

ArmWatchdog ==
  /\ Goto("arm", "drain")
  /\ watchdog' = IF nature.timeout THEN "armed" ELSE "off"
  /\ UNCHANGED <<handle, outcome, call, killing, child_lock, group>>

\* The drain loop ends when the readers are done, or on a terminal event of a
\* backend that stays alive (Pi RPC).  The watchdog is dismissed and stdin let
\* go; a settled backend is killed.
EndDrain ==
  /\ \/ OutputClosed /\ settled' = FALSE
     \/ settled' = TRUE
  /\ Goto("drain", "drained")
  /\ UNCHANGED <<handle, timed_out, cut_short, call, killing, watchdog, child_lock, group>>

DismissWatchdog ==
  /\ watchdog' = IF watchdog = "armed" THEN "dismissed" ELSE watchdog
  /\ IF settled THEN /\ Goto("drained", "settle_kill")
                     /\ killing' = [killing EXCEPT !["main"] = "term"]
                ELSE /\ Goto("drained", "join")
                     /\ UNCHANGED killing
  /\ UNCHANGED <<handle, outcome, call, child_lock, group>>

SettledKilled ==
  /\ Goto("settle_kill", "join")
  /\ killing["main"] = "no"
  /\ UNCHANGED <<handle, outcome, call, killing, watchdog, child_lock, group>>

\* The reader threads are joined, and is_cancelled() decides what the run will
\* return.
JoinReaders ==
  /\ Goto("join", "check")
  /\ OutputClosed
  /\ UNCHANGED <<handle, outcome, call, killing, watchdog, child_lock, group>>

OnlyByWatchdog == watchdog = "fired" \* mutated form
IsCancelled == triggered

CheckCancelled ==
  /\ Goto("check", "wait")
  /\ timed_out' = IsCancelled
  /\ UNCHANGED <<handle, settled, cut_short, call, killing, watchdog, child_lock,
                 group>>

\* wait() holds the child's mutex until the child exits.
LockChild ==
  /\ Goto("wait", "waiting")
  /\ child_lock = Free
  /\ child_lock' = "main"
  /\ UNCHANGED <<handle, outcome, call, killing, watchdog, group>>

Wait ==
  /\ Goto("waiting", "unbind")
  /\ child \in {"exited", "reaped"}
  /\ child' = "reaped"
  /\ child_lock' = Free
  /\ UNCHANGED <<handle, outcome, call, killing, watchdog, tool, output, termed,
                 nature>>

\* unbind waits for a cancel that is killing the group.  A panicked callback or
\* a reader error of a run that was not cancelled kills the group once more.
UnbindWithoutLock == TRUE \* mutated form
NoKillInProgress == slot_lock = Free

Unbind ==
  /\ NoKillInProgress
  /\ slot' = FALSE
  /\ \/ /\ Goto("unbind", "returned")
        /\ UNCHANGED killing
     \/ /\ Goto("unbind", "panic_kill")
        /\ ~timed_out
        /\ killing' = [killing EXCEPT !["main"] = "term"]
  /\ UNCHANGED <<triggered, slot_lock, outcome, call, watchdog, child_lock,
                 group>>

PanicKilled ==
  /\ Goto("panic_kill", "returned")
  /\ killing["main"] = "no"
  /\ UNCHANGED <<handle, outcome, call, killing, watchdog, child_lock, group>>

-------------------------------------------------------------------------------
(* The process group.                                                        *)

ToolStarts ==
  /\ child = "running"
  /\ output
  /\ tool = "none"
  /\ "child" \in termed => nature.starts_late
  /\ tool' = "running"
  /\ UNCHANGED <<handle, threads, child_lock, child, output, termed, nature>>

ToolExits ==
  /\ tool = "running"
  /\ tool' = "gone"
  /\ termed' = termed \ {"tool"}
  /\ UNCHANGED <<handle, threads, child_lock, child, output, nature>>

ChildExits ==
  /\ child = "running"
  /\ child' = "exited"
  /\ output' = FALSE
  /\ termed' = termed \ {"child"}
  /\ UNCHANGED <<handle, threads, child_lock, tool, nature>>

ChildClosesOutput ==
  /\ child = "running"
  /\ nature.detaches
  /\ output
  /\ output' = FALSE
  /\ UNCHANGED <<handle, threads, child_lock, child, tool, termed, nature>>

-------------------------------------------------------------------------------

Main == \/ Connect \/ BindSlot \/ BindCheck \/ Bound \/ ArmWatchdog
        \/ EndDrain \/ DismissWatchdog \/ SettledKilled \/ JoinReaders
        \/ CheckCancelled \/ LockChild \/ Wait \/ Unbind \/ PanicKilled \/ KillGroup("main")

\* A call of cancel() once it has begun.
Cancel(t) == LockSlot(t) \/ KillGroup(t) \/ FinishCancel(t)

OS == ToolStarts \/ ToolExits \/ ChildExits \/ ChildClosesOutput

CancelNext ==
  Main \/ (\E t \in Callers : Trigger(t) \/ Cancel(t)) \/ WatchdogFires \/ OS

CancelSpec == CancelInit /\ [][CancelNext]_cancelVars

\* Threads are scheduled, an armed watchdog fires, and a process that does not
\* ignore SIGTERM acts on it.  Nothing makes an agent end by itself, settle, or
\* makes an external caller cancel.
CancelFairness ==
  /\ WF_cancelVars(Main /\ main # "drain")
  /\ WF_cancelVars(main = "drain" /\ OutputClosed /\ EndDrain)
  /\ \A t \in Callers : WF_cancelVars(Cancel(t))
  /\ WF_cancelVars(Trigger("watchdog"))
  /\ WF_cancelVars(WatchdogFires)
  /\ WF_cancelVars(~nature.child_ignores /\ "child" \in termed /\ ChildExits)
  /\ WF_cancelVars(~nature.tool_ignores /\ "tool" \in termed /\ ToolExits)

CancelFairSpec == CancelSpec /\ CancelFairness

-------------------------------------------------------------------------------
(* Properties.                                                               *)

CancelTypeOK ==
  /\ triggered \in BOOLEAN
  /\ slot \in BOOLEAN
  /\ slot_lock \in Callers \cup {Free}
  /\ main \in MainStates
  /\ settled \in BOOLEAN
  /\ timed_out \in BOOLEAN
  /\ cut_short \in BOOLEAN
  /\ call \in [Callers -> {"idle", "slot", "kill", "done"}]
  /\ killing \in [Killers -> {"no", "term", "poll", "reap"}]
  /\ watchdog \in {"off", "armed", "dismissed", "fired"}
  /\ child_lock \in {"main", Free}
  /\ child \in {"none", "running", "exited", "reaped"}
  /\ tool \in {"none", "running", "gone"}
  /\ output \in BOOLEAN
  /\ termed \in SUBSET {"child", "tool"}
  /\ nature \in Natures

\* RunCancelHandle: "a pending cancellation is applied as soon as the run binds
\* its child".  Whatever the order of cancel() and bind(), once the run is bound
\* a cancelled child that still runs has been sent SIGTERM or some thread is
\* on its way to do so.
CancelNeverLost ==
  (triggered /\ child = "running" /\ main \notin {"bind", "bind_check"}) =>
     \/ "child" \in termed
     \/ \E t \in Killers : killing[t] = "term"
     \/ slot /\ \E t \in Callers : call[t] = "slot"

\* unbind: once the run has returned, the handle no longer refers to a child
\* (whose pid may be reused), so neither a late cancel() nor dropping the handle
\* signals it, and the child has been reaped.
ReturnedRunIsReleased ==
  main = "returned" =>
     /\ ~slot
     /\ child \in {"none", "reaped"}
     /\ \A t \in Callers : killing[t] = "no"

\* "a run terminated via this handle surfaces as RunError::TimedOut": when a
\* cancel signalled the group before its output had ended, the run does not
\* report the truncated output as a success (or as a failed reader).
KilledRunReportsTimedOut ==
  main \in {"wait", "waiting", "unbind", "panic_kill", "returned"} /\ cut_short
     => timed_out

\* ADR 0014: once cancelled, a run returns although its agent CLI ignores
\* SIGTERM, as long as the tool it started acts on SIGTERM, no tool is started
\* after it and the CLI keeps its output open while it lives.
CancelledGroupReturns ==
  (/\ triggered
   /\ ~nature.tool_ignores /\ ~nature.starts_late /\ ~nature.detaches)
     ~> (main \in {"connect", "returned"})

\* kill_process_group: it "guarantees the child's stdout/stderr pipes reach EOF,
\* so the reader threads always finish and a run never hangs".
CancelledRunReturns == triggered ~> (main \in {"connect", "returned"})
===============================================================================
