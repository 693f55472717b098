------------------------------- MODULE AgentRun -------------------------------
(***************************************************************************)
(* Runs of the built-in agent: its loop of LLM calls and tools              *)
(* (aikit-agent/src/loop_runner.rs), the sub-agents its spawn_subagent tool *)
(* starts (subagents.rs), and the session files and index that keep what a  *)
(* run said (aikit-sdk/src/aikit_agent_adapter.rs, session_store.rs), which *)
(* all processes of one user share and any of which may be killed.          *)
(***************************************************************************)
EXTENDS Conversation, FiniteSets

CONSTANTS Runs,          \* one run each, of any process
          Stored,        \* sessions on disk from earlier runs
          Cwds,          \* working directories: the keys of the index
          NoSession,     \* a directory without an entry in the index
          MaxCalls,      \* bound: calls in one LLM response
          Forms,         \* bound: the arguments an LLM gives to a call
          MaxIterations, \* of the configuration
          MaxDepth,      \* max_subagent_depth of the configuration
          SubIterations  \* bound: what a model asks for as max_iterations

ASSUME SessionsAssumption == NoSession \notin Runs \cup Stored /\ Runs \cap Stored = {}
ASSUME BoundsAssumption ==
  /\ MaxCalls \in Nat /\ MaxIterations \in Nat /\ MaxDepth \in Nat
  /\ SubIterations \subseteq Nat /\ Forms \subseteq Arguments

\* The id of a new session is a fresh UUID: the run that made it stands for it.
Ids == Runs \cup Stored

VARIABLES
  runs,    \* each run's place and locals
  files,   \* the sessions directory
  unsaved  \* ghost: sessions a save of which failed

agentVars == <<runs, files, unsaved>>

-------------------------------------------------------------------------------
(* The sessions directory.                                                   *)

Names == {"session", "sessionTmp", "index", "indexTmp"} \X (Ids \cup {NoSession})
SessionName(id) == <<"session", id>>
TmpName(id) == <<"sessionTmp", id>>
IndexName == <<"index", NoSession>>
IndexTmpName(id) == <<"indexTmp", id>>

\* What does not parse counts as nothing: blank.
EmptyIndex == [c \in Cwds |-> NoSession]
Blank(name) == IF name[1] \in {"session", "sessionTmp"} THEN <<>> ELSE EmptyIndex
Absent(name) == [exists |-> FALSE, data |-> Blank(name)]
Holds(data) == [exists |-> TRUE, data |-> data]

\* A stored session that ended with a call and its results.
StoredTurns(id) ==
  <<UserTurn(<<id, 0>>), AssistantTurn(<<id, 1>>, {ToolCall(<<id, 1, 1>>, "plain")}),
    ToolTurn({<<id, 1, 1>>}), AssistantTurn(<<id, 2>>, {})>>

-------------------------------------------------------------------------------
(* A run.  frames: the agent loops it is in, the sub-agents' above their      *)
(* parents'.  sid: its session.  turns: what it saves.  map: the index as     *)
(* update_index read it.  fd: the name that its open temporary file has now,  *)
(* if it has one.                                                             *)

Outside(pc, sid) == [pc |-> pc, cwd |-> NoSession, sid |-> sid, frames |-> <<>>,
                     turns |-> <<>>, map |-> EmptyIndex, fd |-> {}]
NotStarted == Outside("idle", NoSession)

\* A loop.  conv: the conversation in the context packet; prior: that of the
\* resumed session; said: ghost, the turns this loop added; calls: those of the
\* latest response, and ran, how many of them have run; stop: it had none, and the
\* finish reason "stop".  left: the depth of sub-agents it may still start.
Loop(prior, prompt, max, left) ==
  [at |-> IF max = 0 THEN "done" ELSE "budget",
   conv |-> Append(prior, UserTurn(prompt)), prior |-> prior,
   said |-> <<UserTurn(prompt)>>, built |-> Rebuilt(prompt),
   step |-> 0, max |-> max, left |-> left, calls |-> <<>>, ran |-> 0, stop |-> FALSE]

Top(r) == runs[r].frames[Len(runs[r].frames)]
InLoop(r, at) == runs[r].pc = "loop" /\ Top(r).at = at
SetTop(r, frame) == runs' = [runs EXCEPT ![r].frames[Len(runs[r].frames)] = frame]

AgentInit ==
  /\ runs = [r \in Runs |-> NotStarted]
  /\ files = [n \in Names |-> IF n[1] = "session" /\ n[2] \in Stored
                                THEN Holds(StoredTurns(n[2])) ELSE Absent(n)]
  /\ unsaved = {}

\* However it ends, nothing is left of it but the files.
Over(r) == Outside("over", runs[r].sid)

Begin(r, c, id, prior) ==
  runs' = [runs EXCEPT ![r] =
             [@ EXCEPT !.pc = "loop", !.cwd = c, !.sid = id,
                       !.frames = <<Loop(prior, <<r, 0>>, MaxIterations, MaxDepth)>>]]

StartNew(r) ==
  /\ runs[r].pc = "idle"
  /\ \E c \in Cwds : Begin(r, c, r, <<>>)
  /\ UNCHANGED <<files, unsaved>>

\* SessionStore::load fails when the file is absent or does not parse.
Resume(r) ==
  /\ runs[r].pc = "idle"
  /\ \E c \in Cwds, id \in Ids :
        LET file == files[SessionName(id)] IN
        IF file.data # <<>> THEN Begin(r, c, id, file.data)
        ELSE runs' = [runs EXCEPT ![r] = Over(r)]
  /\ UNCHANGED <<files, unsaved>>

-------------------------------------------------------------------------------
(* run_loop.                                                                 *)

WithinBudget(r) ==
  /\ InLoop(r, "budget")
  /\ SetTop(r, [Top(r) EXCEPT !.at = "ask"])
  /\ UNCHANGED <<files, unsaved>>

\* The context exceeds its budget.
Compress(r) ==
  /\ InLoop(r, "budget")
  /\ \E from \in PreserveFrom(Top(r).conv) :
        SetTop(r, [Top(r) EXCEPT !.at = "ask", !.conv = Compressed(@, from)])
  /\ UNCHANGED <<files, unsaved>>

AddTurn(frame, turn) ==
  [frame EXCEPT !.conv = Append(@, turn), !.said = Append(@, turn)]

CallTags(r, forms, step) ==
  [k \in DOMAIN forms |-> ToolCall(<<r, step + 1, k>>, forms[k])]
TagSet(calls) == {calls[k] : k \in DOMAIN calls}

\* The LLM answers with some calls and a finish reason that is "stop" or not;
\* TextFinal precedes the assistant's turn.
Respond(r) ==
  /\ InLoop(r, "ask")
  /\ \E n \in 0 .. MaxCalls, stop \in BOOLEAN : \E forms \in [1 .. n -> Forms] :
        LET frame == Top(r)
            text  == <<r, frame.step + 1>>
            calls == CallTags(r, forms, frame.step)
        IN SetTop(r, [AddTurn(frame, AssistantTurn(text, TagSet(calls)))
                        EXCEPT !.at = "tools", !.calls = calls, !.ran = 0,
                               !.stop = stop /\ n = 0, !.built = OnTextFinal(@, text)])
  /\ UNCHANGED <<files, unsaved>>

\* complete or stream returns an error, or the stream reports one.
LlmFails(r) ==
  /\ InLoop(r, "ask")
  /\ SetTop(r, [Top(r) EXCEPT !.at = "error"])
  /\ UNCHANGED <<files, unsaved>>

NextCall(frame) == frame.calls[frame.ran + 1]
ToolDone(frame) ==
  [frame EXCEPT !.at = "tools", !.ran = @ + 1,
                !.built = OnToolResult(@, NextCall(frame))]
ToolBegins(frame) == [frame EXCEPT !.built = OnToolUse(@, NextCall(frame))]

\* Any tool but spawn_subagent, or one that refuses or is unknown.
RunTool(r) ==
  /\ InLoop(r, "tools")
  /\ Top(r).ran < Len(Top(r).calls)
  /\ SetTop(r, ToolDone(ToolBegins(Top(r))))
  /\ UNCHANGED <<files, unsaved>>

\* The sub-agent's configuration: saturating_sub for its depth.
SubDepth(left) == IF left = 0 THEN 0 ELSE left - 1

\* build_tools: spawn_subagent is among the tools only when a depth is left.
HasSpawnTool(frame) == frame.left > 0

\* spawn_subagent refuses arguments without a prompt: Null has none.
Refused(call) == Parsed(call.arguments) = "null"

\* The sub-agent's loop runs inside the parent's tool call.
SpawnSubagent(r) ==
  /\ InLoop(r, "tools")
  /\ Top(r).ran < Len(Top(r).calls)
  /\ HasSpawnTool(Top(r)) /\ ~Refused(NextCall(Top(r)))
  /\ \E max \in SubIterations \cup {MaxIterations} :
        LET n == Len(runs[r].frames)
            parent == [ToolBegins(Top(r)) EXCEPT !.at = "waiting"]
            child == Loop(<<>>, <<r, 0>>, max, SubDepth(Top(r).left))
        IN runs' = [runs EXCEPT ![r].frames =
                      Append([@ EXCEPT ![n] = parent], child)]
  /\ UNCHANGED <<files, unsaved>>

\* After the last call: the results' turn, StepFinish, and whether to go on.
StepEnds(r) ==
  /\ InLoop(r, "tools")
  /\ Top(r).ran = Len(Top(r).calls)
  /\ LET frame == Top(r)
         answered == IF frame.calls = <<>> THEN frame
                     ELSE AddTurn(frame, ToolTurn(IdsOf(TagSet(frame.calls))))
         last == frame.step + 1 >= frame.max
         next == CASE frame.stop \/ (last /\ frame.calls = <<>>) -> "done"
                   [] last /\ frame.calls # <<>> -> "error"
                   [] OTHER -> "budget"
     IN SetTop(r, [answered EXCEPT !.at = next, !.step = @ + 1, !.calls = <<>>,
                                   !.ran = 0, !.stop = FALSE,
                                   !.built = OnStepFinish(@)])
  /\ UNCHANGED <<files, unsaved>>

\* A sub-agent's end, good or bad, is the result of its parent's call.
SubagentEnds(r) ==
  /\ InLoop(r, "done") \/ InLoop(r, "error")
  /\ Len(runs[r].frames) > 1
  /\ LET fs == runs[r].frames
         n  == Len(fs) - 1
     IN runs' = [runs EXCEPT ![r].frames = [SubSeq(fs, 1, n) EXCEPT ![n] = ToolDone(fs[n])]]
  /\ UNCHANGED <<files, unsaved>>

\* Only a run that returned Ok is stored: the turns its session had, and its own.
RunEnds(r) ==
  /\ InLoop(r, "done") \/ InLoop(r, "error")
  /\ Len(runs[r].frames) = 1
  /\ runs' = [runs EXCEPT ![r] =
       IF Top(r).at = "error" THEN Over(r)
       ELSE [@ EXCEPT !.pc = "saveOpen", !.frames = <<>>,
                      !.turns = Top(r).prior \o EventsToTurns(Top(r).built)]]
  /\ UNCHANGED <<files, unsaved>>

-------------------------------------------------------------------------------
(* SessionStore::save and update_index: write a temporary file, rename it.   *)

Saving(r) == runs[r].pc \in {"saveOpen", "saveWrite", "saveRename"}
Indexing(r) == runs[r].pc \in {"indexOpen", "indexWrite", "indexRename"}

Final(r) == IF Saving(r) THEN SessionName(runs[r].sid) ELSE IndexName
WriteInPlace(r) == Final(r) \* mutated form
Temporary(r) ==
  IF Saving(r) THEN TmpName(runs[r].sid) ELSE IndexTmpName(runs[r].sid)

\* The session; or the index with the run's entry.
Content(r) ==
  IF Saving(r) THEN runs[r].turns
  ELSE [runs[r].map EXCEPT ![runs[r].cwd] = runs[r].sid]

\* save is followed by update_index; the errors of both are ignored.
AfterStore(r) ==
  IF Saving(r) THEN [runs[r] EXCEPT !.pc = "indexRead", !.turns = <<>>, !.fd = {}]
  ELSE Over(r)
GiveUp(r) ==
  /\ runs' = [runs EXCEPT ![r] = AfterStore(r)]
  /\ unsaved' = IF Saving(r) THEN unsaved \cup {runs[r].sid} ELSE unsaved

\* fs::write creates or truncates the file.
OpenTmp(r) ==
  /\ runs[r].pc \in {"saveOpen", "indexOpen"}
  /\ \/ /\ files' = [files EXCEPT ![Temporary(r)] = Holds(Blank(Temporary(r)))]
        /\ runs' = [runs EXCEPT ![r] =
                      [@ EXCEPT !.pc = IF Saving(r) THEN "saveWrite" ELSE "indexWrite",
                                !.fd = {Temporary(r)}]]
        /\ UNCHANGED unsaved
     \/ GiveUp(r) /\ UNCHANGED files

\* The open file may be another's by now, or have been replaced.  Over what
\* another run wrote, a content of another length leaves a mixture that does not
\* parse.
WriteTmp(r) ==
  /\ runs[r].pc \in {"saveWrite", "indexWrite"}
  /\ \/ /\ \E mixed \in BOOLEAN :
              /\ mixed => \E n \in runs[r].fd : files[n].data \notin {Blank(n), Content(r)}
              /\ files' = [n \in Names |->
                             IF n \notin runs[r].fd THEN files[n]
                             ELSE Holds(IF mixed THEN Blank(n) ELSE Content(r))]
        /\ runs' = [runs EXCEPT ![r] =
                      [@ EXCEPT !.pc = IF Saving(r) THEN "saveRename" ELSE "indexRename",
                                !.fd = {}]]
        /\ UNCHANGED unsaved
     \/ GiveUp(r) /\ UNCHANGED files

\* The files that are open follow the rename; one that it replaces has no name.
Moved(fd, from, to) == IF from \in fd THEN {to} ELSE fd \ {to}
RenameTmp(r) ==
  /\ runs[r].pc \in {"saveRename", "indexRename"}
  /\ IF files[Temporary(r)].exists
       THEN /\ files' = [files EXCEPT ![Final(r)] = files[Temporary(r)],
                                      ![Temporary(r)] = Absent(Temporary(r))]
            /\ runs' = [q \in Runs |->
                          IF q = r THEN AfterStore(r)
                          ELSE [runs[q] EXCEPT !.fd = Moved(@, Temporary(r), Final(r))]]
            /\ UNCHANGED unsaved
       ELSE GiveUp(r) /\ UNCHANGED files

\* update_index reads the map; what does not parse counts as an empty one.
ReadIndex(r) ==
  /\ runs[r].pc = "indexRead"
  /\ runs' = [runs EXCEPT ![r] = [@ EXCEPT !.pc = "indexOpen", !.map = files[IndexName].data]]
  /\ UNCHANGED <<files, unsaved>>

\* The process of a run is killed, at any time.
Kill(r) ==
  /\ runs[r].pc \notin {"idle", "over"}
  /\ runs' = [runs EXCEPT ![r] = Over(r)]
  /\ UNCHANGED <<files, unsaved>>

StoreStep(r) == OpenTmp(r) \/ WriteTmp(r) \/ RenameTmp(r) \/ ReadIndex(r)
LoopStep(r) ==
  \/ WithinBudget(r) \/ Compress(r) \/ Respond(r) \/ LlmFails(r)
  \/ RunTool(r) \/ SpawnSubagent(r) \/ StepEnds(r) \/ SubagentEnds(r) \/ RunEnds(r)

AgentStep(r) == StartNew(r) \/ Resume(r) \/ LoopStep(r) \/ StoreStep(r) \/ Kill(r)
AgentNext == \E r \in Runs : AgentStep(r)
AgentSpec == AgentInit /\ [][AgentNext]_agentVars

-------------------------------------------------------------------------------
(* Properties.                                                               *)

CallIds == Ids \X Nat \X Nat
Texts == (Ids \cup {"none", "summary"}) \X Nat
ToolCalls == [id : CallIds, arguments : Arguments]
Turns == [role : {"user", "assistant", "tool"}, text : Texts,
          calls : SUBSET ToolCalls, results : SUBSET CallIds]
Building == [turns : Seq(Turns), open : Seq(Turns), calls : SUBSET ToolCalls,
             results : SUBSET CallIds]
Frames == [at : {"budget", "ask", "tools", "waiting", "done", "error"},
           conv : Seq(Turns), prior : Seq(Turns), said : Seq(Turns), built : Building,
           step : Nat, max : Nat, left : 0 .. MaxDepth, calls : Seq(ToolCalls),
           ran : Nat, stop : BOOLEAN]
Maps == [Cwds -> Ids \cup {NoSession}]
RunStates ==
  [pc : {"idle", "loop", "saveOpen", "saveWrite", "saveRename", "indexRead",
         "indexOpen", "indexWrite", "indexRename", "over"},
   cwd : Cwds \cup {NoSession}, sid : Ids \cup {NoSession}, frames : Seq(Frames),
   turns : Seq(Turns), map : Maps, fd : SUBSET Names]

\* Types, and: no agent is deeper below the run's own than max_subagent_depth.
AgentTypeOK ==
  /\ runs \in [Runs -> RunStates]
  /\ \A r \in Runs : Len(runs[r].frames) <= MaxDepth + 1
  /\ DOMAIN files = Names
  /\ \A id \in Ids \cup {NoSession} :
       /\ files[SessionName(id)] \in [exists : BOOLEAN, data : Seq(Turns)]
       /\ files[TmpName(id)] \in [exists : BOOLEAN, data : Seq(Turns)]
       /\ files[<<"index", id>>] \in [exists : BOOLEAN, data : Maps]
       /\ files[IndexTmpName(id)] \in [exists : BOOLEAN, data : Maps]
  /\ unsaved \subseteq Ids

\* Every request of run_loop, of a resumed session, after compressions (of the
\* whole history, as often as the budget asks), after sub-agents: a results turn
\* directly follows the turn that made those calls, every call is answered, and
\* the latest prompt and the latest results are there word for word
\* (compression.rs:12-18).
RequestsWellFormed ==
  \A r \in Runs : InLoop(r, "ask") =>
     /\ WellFormed(Top(r).conv)
     /\ \A role \in {"user", "tool"} :
          Latest(Top(r).conv, role) = Latest(Top(r).prior \o Top(r).said, role)

\* internal_events_to_turns: what it rebuilds from the events of a run that
\* succeeded are the turns run_loop added, compressed or not: the same turns in the
\* same order, with the same texts, calls and results.  Only the arguments of a
\* call have been parsed and written again, so that those which are no JSON are
\* null in the stored turn and as the LLM wrote them in run_loop's own.
StoredTurn(turn) == [turn EXCEPT !.calls = {StoredCall(call) : call \in @}]
SavedTurnsFaithful ==
  \A r \in Runs : InLoop(r, "done") =>
     LET said == Top(r).said
     IN EventsToTurns(Top(r).built) = [i \in DOMAIN said |-> StoredTurn(said[i])]

\* Whatever is killed or fails at any step, the index names only sessions that
\* are on disk (unless a save of them failed), and whole unless two runs wrote
\* to the same session (save's comment, session_store.rs:105-107).
Shared(id) == \E q, r \in Runs : q # r /\ runs[q].sid = id /\ runs[r].sid = id
IndexNamesSaved ==
  \A c \in Cwds, id \in Ids :
     files[IndexName].data[c] = id /\ id \notin unsaved =>
       /\ files[SessionName(id)].exists
       /\ files[SessionName(id)].data # <<>> \/ Shared(id)
===============================================================================
