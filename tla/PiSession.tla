------------------------------ MODULE PiSession ------------------------------
(***************************************************************************)
(* A live Pi session (aikit-sdk/src/runner/pi_session.rs): `pi --mode rpc`  *)
(* behind two bounded pipes; a bridge thread that writes commands to Pi and *)
(* handles what arrives on one unbounded channel, from the thread that      *)
(* reads Pi's stdout and from the control handle; and the handle's callers, *)
(* of whom those of get_context_usage wait for Pi's reply.  Pi answers      *)
(* commands in their order, and may exit or hang at any time.               *)
(***************************************************************************)
EXTENDS Integers, Sequences

CONSTANTS Calls,        \* calls of get_context_usage
          NoCall,       \* what other commands and frames carry for a call
          PipeCapacity, \* commands or frames that a pipe holds
          MaxCommands,  \* bound: other commands of the handle
          MaxFrames     \* bound: frames Pi writes of its own accord

ASSUME NoCallAssumption == NoCall \notin Calls
ASSUME PiBoundsAssumption ==
  PipeCapacity \in Nat \ {0} /\ MaxCommands \in Nat /\ MaxFrames \in Nat

VARIABLES
  bridge,    \* where the bridge thread is
  writing,   \* the command it is writing to Pi, if any
  waiters,   \* pending_stats: callers in the order of their requests
  inbox,     \* the bridge's channel
  ready,     \* what it said to the opener
  opener,    \* the caller of open_pi_session, then the owner of the handle
  listening, \* whether anyone still has the event receiver
  calls,     \* how far each call of get_context_usage is
  answer,    \* ghost: whose request the reply that a call got was for
  commands,  \* other commands sent so far
  pi,        \* the process: runs, hangs or is gone
  stdin, stdout, \* its pipes
  frames,    \* frames it wrote of its own accord
  reader     \* the thread that reads its stdout; "held" while a process that
             \* outlived Pi keeps the other end open

piVars == <<bridge, writing, waiters, inbox, ready, opener, listening, calls, answer,
            commands, pi, stdin, stdout, frames, reader>>

Msg(kind, call) == [kind |-> kind, call |-> call]
Plain(kind) == Msg(kind, NoCall)

PiInit ==
  /\ bridge \in {"starting", "starting large"} /\ writing = <<>> /\ waiters = <<>> /\ inbox = <<>>
  /\ ready = "none" /\ opener = "blocked" /\ listening = TRUE
  /\ calls = [c \in Calls |-> "none"] /\ answer = [c \in Calls |-> NoCall]
  /\ commands = 0
  /\ pi = "runs" /\ stdin = <<>> /\ stdout = <<>> /\ frames = 0
  /\ reader = "reads"

-------------------------------------------------------------------------------
(* Pi.                                                                       *)

\* The answer to the next command: the first prompt is acknowledged or rejected.
PiAnswers ==
  /\ pi = "runs"
  /\ stdin # <<>> /\ Len(stdout) < PipeCapacity
  /\ stdin' = Tail(stdin)
  /\ \E m \in IF Head(stdin).kind = "prompt" THEN {Plain("accepted"), Plain("rejected")}
              ELSE {Head(stdin)} :
        stdout' = Append(stdout, m)
  /\ UNCHANGED <<bridge, writing, waiters, inbox, ready, opener, listening, calls,
                 answer, commands, pi, frames, reader>>

PiEmits ==
  /\ pi = "runs"
  /\ frames < MaxFrames /\ Len(stdout) < PipeCapacity
  /\ frames' = frames + 1
  /\ stdout' = Append(stdout, Plain("event"))
  /\ UNCHANGED <<bridge, writing, waiters, inbox, ready, opener, listening, calls,
                 answer, commands, pi, stdin, reader>>

PiHangs ==
  /\ pi = "runs"
  /\ pi' = "hangs"
  /\ UNCHANGED <<bridge, writing, waiters, inbox, ready, opener, listening, calls,
                 answer, commands, stdin, stdout, frames, reader>>

PiExits ==
  /\ pi # "gone"
  /\ pi' = "gone" /\ stdin' = <<>>
  /\ UNCHANGED <<bridge, writing, waiters, inbox, ready, opener, listening, calls,
                 answer, commands, stdout, frames, reader>>

-------------------------------------------------------------------------------
(* The channel and the thread that reads stdout.                             *)

\* drive owns the receiving end: once it has returned, sends fail.
Receiving == bridge \in {"starting", "starting large", "readiness", "main"}
Post(msgs) == inbox' = IF Receiving THEN inbox \o msgs ELSE inbox

ReadFrame ==
  /\ reader # "done" /\ stdout # <<>>
  /\ stdout' = Tail(stdout)
  /\ Post(<<Head(stdout)>>)
  /\ UNCHANGED <<bridge, writing, waiters, ready, opener, listening, calls, answer,
                 commands, pi, stdin, frames, reader>>

ReadEof ==
  /\ reader = "reads" /\ stdout = <<>> /\ pi = "gone"
  /\ reader' = "done"
  /\ Post(<<Plain("eof")>>)
  /\ UNCHANGED <<bridge, writing, waiters, ready, opener, listening, calls, answer,
                 commands, pi, stdin, stdout, frames>>

\* A subprocess of Pi's that left its group, or that kill_process_group gave up
\* on, keeps the pipe open, for a while or for good.
PipeHeld ==
  /\ pi = "gone"
  /\ \/ reader = "reads" /\ reader' = "held"
     \/ reader = "held" /\ reader' = "reads"
  /\ UNCHANGED <<bridge, writing, waiters, inbox, ready, opener, listening, calls, answer,
                 commands, pi, stdin, stdout, frames>>

-------------------------------------------------------------------------------
(* The bridge.                                                               *)

\* run_session: the first prompt, before anything is received and before the
\* readiness deadline is set.  A prompt larger than the pipe ("starting large")
\* blocks until Pi reads it.
WriteFirstPrompt ==
  /\ bridge = "starting" \/ (bridge = "starting large" /\ pi # "hangs")
  /\ IF pi = "gone"
       THEN bridge' = "teardown" /\ ready' = "err" /\ UNCHANGED stdin
       ELSE bridge' = "readiness" /\ stdin' = <<Plain("prompt")>> /\ UNCHANGED ready
  /\ UNCHANGED <<writing, waiters, inbox, opener, listening, calls, answer, commands,
                 pi, stdout, frames, reader>>

\* drive returns: the receiver goes, with all that it holds, and pending_stats.
Leave ==
  /\ bridge' = "teardown" /\ inbox' = <<>> /\ waiters' = <<>>
  /\ calls' = [c \in Calls |-> IF calls[c] = "waiting" THEN "closed" ELSE calls[c]]

\* No handle exists yet, so no command can be in the channel.
Readiness ==
  /\ bridge = "readiness" /\ inbox # <<>>
  /\ CASE Head(inbox).kind = "accepted" ->
            /\ bridge' = "main" /\ ready' = "ok" /\ inbox' = Tail(inbox)
            /\ UNCHANGED <<waiters, calls>>
       [] Head(inbox).kind \in {"rejected", "eof"} -> Leave /\ ready' = "err"
       [] OTHER -> inbox' = Tail(inbox) /\ UNCHANGED <<bridge, ready, waiters, calls>>
  /\ UNCHANGED <<writing, opener, listening, answer, commands, pi, stdin, stdout,
                 frames, reader>>

ReadinessTimesOut ==
  /\ bridge = "readiness"
  /\ Leave /\ ready' = "err"
  /\ UNCHANGED <<writing, opener, listening, answer, commands, pi, stdin, stdout,
                 frames, reader>>

\* route_stats_response: the reply goes to the caller that asked first, whether
\* or not it still waits.
FirstWaiting == \* mutated form
  LET W == SelectSeq(waiters, LAMBDA c : calls[c] = "waiting")
  IN IF W = <<>> THEN Head(waiters) ELSE Head(W)
Front == Head(waiters)

Reply(call) ==
  IF waiters = <<>> THEN UNCHANGED <<waiters, calls, answer>>
  ELSE /\ waiters' = Tail(waiters)
       /\ IF calls[Front] = "waiting"
            THEN /\ calls' = [calls EXCEPT ![Front] = "answered"]
                 /\ answer' = [answer EXCEPT ![Front] = call]
            ELSE UNCHANGED <<calls, answer>>

\* The main phase: a frame of Pi's.  An event that nobody listens to ends it.
HandleFrame ==
  /\ bridge = "main" /\ writing = <<>> /\ inbox # <<>>
  /\ LET m == Head(inbox) IN
     /\ m.kind \in {"stats", "done", "accepted", "rejected", "event"}
     /\ IF m.kind = "event" /\ ~listening THEN Leave /\ UNCHANGED answer
        ELSE /\ inbox' = Tail(inbox) /\ UNCHANGED bridge
             /\ IF m.kind = "stats" THEN Reply(m.call)
                ELSE UNCHANGED <<waiters, calls, answer>>
  /\ UNCHANGED <<writing, ready, opener, listening, commands, pi, stdin, stdout,
                 frames, reader>>

\* A command is written to Pi; a call of get_context_usage waits for the reply.
HandleCommand ==
  /\ bridge = "main" /\ writing = <<>> /\ inbox # <<>>
  /\ LET m == Head(inbox) IN
     /\ m.kind \in {"send", "ask"}
     /\ writing' = <<IF m.kind = "ask" THEN Msg("stats", m.call) ELSE Plain("done")>>
     /\ waiters' = IF m.kind = "ask" THEN Append(waiters, m.call) ELSE waiters
  /\ inbox' = Tail(inbox)
  /\ UNCHANGED <<bridge, ready, opener, listening, calls, answer, commands, pi, stdin,
                 stdout, frames, reader>>

\* write_cmd blocks while the pipe is full, and fails in silence without Pi.
WriteCommand ==
  /\ writing # <<>>
  /\ pi = "gone" \/ Len(stdin) < PipeCapacity
  /\ stdin' = IF pi = "gone" THEN stdin ELSE stdin \o writing
  /\ writing' = <<>>
  /\ UNCHANGED <<bridge, waiters, inbox, ready, opener, listening, calls, answer,
                 commands, pi, stdout, frames, reader>>

HandleEnd ==
  /\ bridge = "main" /\ writing = <<>> /\ inbox # <<>>
  /\ Head(inbox).kind \in {"eof", "disconnect"}
  /\ Leave
  /\ UNCHANGED <<writing, ready, opener, listening, answer, commands, pi, stdin, stdout,
                 frames, reader>>

\* teardown: close stdin, kill Pi's process group, join the readers.
Teardown ==
  /\ bridge = "teardown"
  /\ bridge' = "joining" /\ pi' = "gone" /\ stdin' = <<>>
  /\ UNCHANGED <<writing, waiters, inbox, ready, opener, listening, calls, answer,
                 commands, stdout, frames, reader>>
JoinReaders ==
  /\ bridge = "joining" /\ reader = "done"
  /\ bridge' = "ended"
  /\ UNCHANGED <<writing, waiters, inbox, ready, opener, listening, calls, answer,
                 commands, pi, stdin, stdout, frames, reader>>

-------------------------------------------------------------------------------
(* The opener and the handle's users.                                        *)

\* After an error open_pi_session joins the bridge first.
OpenReturns ==
  /\ opener = "blocked"
  /\ \/ ready = "ok" /\ opener' = "open"
     \/ ready = "err" /\ bridge = "ended" /\ opener' = "failed"
  /\ UNCHANGED <<bridge, writing, waiters, inbox, ready, listening, calls, answer,
                 commands, pi, stdin, stdout, frames, reader>>

\* send_turn, interrupt, steer, follow_up, set_model.
Send ==
  /\ opener = "open" /\ commands < MaxCommands
  /\ commands' = commands + 1
  /\ Post(<<Plain("send")>>)
  /\ UNCHANGED <<bridge, writing, waiters, ready, opener, listening, calls, answer, pi,
                 stdin, stdout, frames, reader>>

Ask(c) ==
  /\ opener = "open" /\ calls[c] = "none"
  /\ calls' = [calls EXCEPT ![c] = IF Receiving THEN "waiting" ELSE "closed"]
  /\ Post(<<Msg("ask", c)>>)
  /\ UNCHANGED <<bridge, writing, waiters, ready, opener, listening, answer, commands,
                 pi, stdin, stdout, frames, reader>>

\* recv_timeout: the bridge is not told.
AskTimesOut(c) ==
  /\ calls[c] = "waiting"
  /\ calls' = [calls EXCEPT ![c] = "timed out"]
  /\ UNCHANGED <<bridge, writing, waiters, inbox, ready, opener, listening, answer,
                 commands, pi, stdin, stdout, frames, reader>>

\* An explicit disconnect, or the handle is dropped: its last user is done.
NothingOnDrop == <<>> \* mutated form
OnDrop == <<Plain("disconnect")>>
DropHandle ==
  /\ opener = "open"
  /\ \A c \in Calls : calls[c] # "waiting"
  /\ opener' = "dropped"
  /\ Post(OnDrop)
  /\ UNCHANGED <<bridge, writing, waiters, ready, listening, calls, answer, commands, pi,
                 stdin, stdout, frames, reader>>

DropEvents ==
  /\ opener \in {"open", "dropped"} /\ listening
  /\ listening' = FALSE
  /\ UNCHANGED <<bridge, writing, waiters, inbox, ready, opener, calls, answer, commands,
                 pi, stdin, stdout, frames, reader>>

-------------------------------------------------------------------------------
BridgeStep ==
  \/ WriteFirstPrompt \/ Readiness \/ ReadinessTimesOut \/ HandleFrame \/ HandleCommand \/ WriteCommand
  \/ HandleEnd \/ Teardown \/ JoinReaders
ReaderStep == ReadFrame \/ ReadEof
PiStep == PiAnswers \/ PiEmits \/ PiHangs \/ PiExits \/ PipeHeld
UserStep == Send \/ (\E c \in Calls : Ask(c) \/ AskTimesOut(c)) \/ DropHandle \/ DropEvents

PiNext ==
  BridgeStep \/ ReaderStep \/ PiStep \/ OpenReturns \/ UserStep

\* The threads run, the readiness deadline passes, and a Pi that does not hang
\* answers.  Users need not do anything, nor the deadline of their calls pass.
PiFairness ==
  /\ WF_piVars(BridgeStep) /\ WF_piVars(ReaderStep)
  /\ WF_piVars(OpenReturns) /\ WF_piVars(PiAnswers)
PiSpec == PiInit /\ [][PiNext]_piVars /\ PiFairness

-------------------------------------------------------------------------------
(* Properties.                                                               *)

Messages(kinds) == [kind : kinds, call : Calls \cup {NoCall}]
Replies == {"accepted", "rejected", "event", "stats", "done"}

PiTypeOK ==
  /\ bridge \in {"starting", "starting large", "readiness", "main", "teardown",
                 "joining", "ended"}
  /\ writing \in Seq(Messages({"stats", "done"})) /\ Len(writing) <= 1
  /\ waiters \in Seq(Calls)
  /\ inbox \in Seq(Messages(Replies \cup {"eof", "send", "ask", "disconnect"}))
  /\ ready \in {"none", "ok", "err"}
  /\ opener \in {"blocked", "open", "failed", "dropped"}
  /\ listening \in BOOLEAN
  /\ calls \in [Calls -> {"none", "waiting", "answered", "timed out", "closed"}]
  /\ answer \in [Calls -> Calls \cup {NoCall}]
  /\ commands \in 0 .. MaxCommands
  /\ pi \in {"runs", "hangs", "gone"}
  /\ stdin \in Seq(Messages({"prompt", "stats", "done"})) /\ Len(stdin) <= PipeCapacity
  /\ stdout \in Seq(Messages(Replies)) /\ Len(stdout) <= PipeCapacity
  /\ frames \in 0 .. MaxFrames
  /\ reader \in {"reads", "held", "done"}

\* What a call of get_context_usage returns is Pi's reply to that call's own
\* request, however many callers gave up before it (drive's comment on
\* pending_stats, pi_session.rs:413-416).
StatsAnswersOwn == \A c \in Calls : calls[c] = "answered" => answer[c] = c

\* Unless the bridge is stuck in a write to a Pi that hangs, or joining a reader
\* whose pipe is held open, open_pi_session returns, and the bridge ends once the
\* handle is dropped or Pi is gone; and a call returns before its deadline, unless
\* Pi hangs.
Stuck == \/ pi = "hangs" /\ (writing # <<>> \/ bridge = "starting large")
         \/ reader = "held"
PiSessionEnds ==
  /\ (opener = "blocked") ~> (opener # "blocked" \/ Stuck)
  /\ \A c \in Calls :
        (calls[c] = "waiting") ~> (calls[c] # "waiting" \/ pi = "hangs" \/ Stuck)
  /\ (opener = "dropped") ~> (bridge = "ended" \/ Stuck)
  /\ (pi = "gone") ~> (bridge = "ended" \/ Stuck)
===============================================================================
