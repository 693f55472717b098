------------------------------ MODULE Transcript ------------------------------
(***************************************************************************)
(* The transcript parsers of aikit-session-capture: what one call of        *)
(* claudecode::transcript::parse or codex::transcript::parse makes of the   *)
(* lines after a saved offset.                                              *)
(*                                                                          *)
(* A line is a record of its kind, the id it carries (of a call, a message, *)
(* a turn or the record itself; the hash of an agent's message), the id of  *)
(* the tool_use in its content, an output and a token count.  An event is   *)
(* the key of its database row, the line it was made of, and the output and *)
(* count the row gets.  A key is a prefix, an id and a number: 0 when the   *)
(* id names the event, else the line's number, which both parsers count     *)
(* from where the call began and not from the start of the file.            *)
(*                                                                          *)
(* Everything the parsers remember between lines (the pending map, the      *)
(* session context, token baselines) lives in one call: none of it survives *)
(* to the call that resumes.                                                *)
(***************************************************************************)
EXTENDS Integers, Sequences, FiniteSets, FiniteSetsExt

NoId == "no id"
NoOutput == "none"

Event(key, line, output) == [key |-> key, line |-> line, output |-> output, count |-> 0]
TokenEvent(key, line, count) ==
  [key |-> key, line |-> line, output |-> NoOutput, count |-> count]

\* The lines of a kind among lines a+1 to b.
LinesOf(s, a, b, kinds) == {i \in a + 1 .. b : s[i].kind \in kinds}

\* derive_token_source_file: a token row is keyed by the transcript when the
\* same batch holds a tool event of its session, else by the session.
TokenSource(has_tool_event) ==
  IF has_tool_event THEN "file tokens" ELSE "session tokens"

-------------------------------------------------------------------------------
(* claudecode/transcript.rs                                                  *)

\* The content of a record is looked at when the record has no usage, or has
\* one and no message id.  With a message id the loop continues with the next
\* record, whether the id is new or repeated.
UsesTool(line) ==
  \/ line.kind = "tool_use"
  \/ line.kind = "unnamed usage" /\ line.block # NoId

UseId(line) == IF line.kind = "tool_use" THEN line.id ELSE line.block

\* The pending map pairs the latest tool_use of an id with every tool_result
\* that follows it in this call, so the last result wins.
ClaudeResults(s, i, b) ==
  {j \in LinesOf(s, i, b, {"tool_result"}) :
     /\ s[j].id = UseId(s[i])
     /\ \A k \in i + 1 .. j : UsesTool(s[k]) => UseId(s[k]) # UseId(s[i])}

LatestOutput(s, i, b) == \* mutated form
  LET results == LinesOf(s, i, b, {"tool_result"})
  IN  IF results = {} THEN NoOutput ELSE s[Max(results)].output

ClaudeOutput(s, i, b) ==
  IF ClaudeResults(s, i, b) = {} THEN NoOutput ELSE s[Max(ClaudeResults(s, i, b))].output

\* An assistant's text and an api_error are named by the record's uuid.
ClaudeKey(line, n) ==
  IF line.id = NoId THEN <<line.kind, NoId, n>> ELSE <<"tool", line.id, 0>>

\* A tool_use becomes an event, filled in by its result.  Sidechain records,
\* placeholders, malformed lines and prompts become nothing.
ClaudeToolEvents(s, a, b) ==
       {Event(<<"tool", UseId(s[i]), 0>>, i, ClaudeOutput(s, i, b)) :
           i \in {k \in a + 1 .. b : UsesTool(s[k])}}
  \cup {Event(ClaudeKey(s[i], i - a), i, s[i].output) :
           i \in LinesOf(s, a, b, {"text", "api_error"})}

\* Records of one API call share its message id and the largest usage wins; a
\* record without one is named by its uuid, or by its number.
ClaudeCount(s, a, b, i) ==
  IF s[i].kind = "unnamed usage" THEN s[i].count
  ELSE Max({s[j].count : j \in {k \in LinesOf(s, a, b, {"usage"}) : s[k].id = s[i].id}})

ClaudeTokenEvents(s, a, b) ==
  LET source == TokenSource(ClaudeToolEvents(s, a, b) # {})
  IN  {TokenEvent(<<source, s[i].id, IF s[i].id = NoId THEN i - a ELSE 0>>, i,
                  ClaudeCount(s, a, b, i)) :
         i \in LinesOf(s, a, b, {"usage", "unnamed usage"})}

ClaudeEvents(s, a, b) == ClaudeToolEvents(s, a, b) \cup ClaudeTokenEvents(s, a, b)

-------------------------------------------------------------------------------
(* codex/transcript.rs                                                       *)

\* "function_call" is the response_item, "tool_call" the older envelope of a
\* call, "prompt" that of a user's message; "function_call_output" stands for the
\* output of a call of any envelope, and "turn_context" for every one that brings
\* context.
CallKinds == {"function_call", "custom_tool_call", "tool_call"}
OutputKinds == {"function_call_output", "exec_command_end"}
EndKinds == {"exec_command_end", "web_search_end"}
ResultKinds == OutputKinds \cup EndKinds
MessageKinds == {"agent_message", "user_message", "prompt", "error", "web_search_call"}

\* The call of this chunk that line j finds pending: the latest with its id,
\* unless a result has taken it since.
PendingCall(s, a, j) ==
  {i \in LinesOf(s, a, j - 1, CallKinds) :
     /\ s[j].id # NoId /\ s[i].id = s[j].id
     /\ \A k \in LinesOf(s, i, j - 1, CallKinds \cup ResultKinds) : s[k].id # s[i].id}

\* The end of a web search gives the call a target and no output.
CodexOutput(s, a, i, b) ==
  LET results == {j \in LinesOf(s, i, b, OutputKinds) : i \in PendingCall(s, a, j)}
  IN  IF results = {} THEN NoOutput ELSE s[CHOOSE j \in results : TRUE].output

\* The sticky session and turn: empty until a record of this chunk brings them.
SessionKnown(s, a, i) == LinesOf(s, a, i, {"turn_context"}) # {}

Turn(s, a, i) ==
  LET named == {j \in LinesOf(s, a, i, {"turn_context", "task_started"}) : s[j].id # NoId}
  IN  IF named = {} THEN NoId ELSE s[Max(named)].id

\* A line's events are calls, messages, and the ends of commands and searches
\* that find no call pending.
EventLines(s, a, b) ==
  {i \in LinesOf(s, a, b, CallKinds \cup MessageKinds \cup EndKinds) :
     s[i].kind \in EndKinds => PendingCall(s, a, i) = {}}

CodexKey(s, a, i) ==
  LET kind == s[i].kind
      numbered == <<IF kind = "prompt" THEN "user_message" ELSE kind, NoId, i - a>>
  IN  CASE kind \in {"function_call", "custom_tool_call"} \cup EndKinds -> <<kind, s[i].id, 0>>
        [] kind = "tool_call" /\ s[i].id # NoId -> <<kind, s[i].id, 0>>
        [] kind = "user_message" /\ Turn(s, a, i) # NoId -> <<kind, Turn(s, a, i), 0>>
        [] kind = "agent_message" -> <<kind, s[i].id, i - a>>
        [] OTHER -> numbered

CodexEventOutput(s, a, i, b) ==
  IF s[i].kind \in CallKinds THEN CodexOutput(s, a, i, b)
  ELSE IF s[i].kind \in {"exec_command_end", "error"} THEN s[i].output
  ELSE NoOutput

CodexToolEvents(s, a, b) ==
  {Event(CodexKey(s, a, i), i, CodexEventOutput(s, a, i, b)) : i \in EventLines(s, a, b)}

\* A tool event stamped with the session's id is in the chunk.
ToolEventOfSession(s, a, b) == \E i \in EventLines(s, a, b) : SessionKnown(s, a, i)

\* handle_token_count: the session's counts are cumulative and a row gets the
\* increase over the previous count of this call.  The first one of a resumed
\* call has no baseline and gets 0; a repeated count is dropped.  A record
\* before any context record gets a session of its own.
Repeated(s, a, i) ==
  /\ SessionKnown(s, a, i)
  /\ \E j \in LinesOf(s, a, i - 1, {"token_count"}) :
        SessionKnown(s, a, j) /\ s[j].count = s[i].count

Baseline(s, a, i) ==
  LET earlier == {j \in LinesOf(s, a, i - 1, {"token_count"}) : SessionKnown(s, a, j)}
  IN  IF SessionKnown(s, a, i) /\ earlier # {} THEN s[Max(earlier)].count
      ELSE IF a = 0 THEN 0 ELSE s[i].count

Increase(s, a, i) ==
  IF s[i].count >= Baseline(s, a, i) THEN s[i].count - Baseline(s, a, i)
  ELSE s[i].count

CodexTokenEvents(s, a, b) ==
  {TokenEvent(<<TokenSource(SessionKnown(s, a, i) /\ ToolEventOfSession(s, a, b)),
                IF SessionKnown(s, a, i) THEN "session" ELSE NoId, i - a>>,
              i, Increase(s, a, i)) :
     i \in {k \in LinesOf(s, a, b, {"token_count"}) : ~Repeated(s, a, k)}}

CodexEvents(s, a, b) == CodexToolEvents(s, a, b) \cup CodexTokenEvents(s, a, b)

-------------------------------------------------------------------------------
\* Adapter::parse_session_file for a session file of either tool.
Parse(tool, s, a, b) ==
  IF tool = "claude" THEN ClaudeEvents(s, a, b) ELSE CodexEvents(s, a, b)

\* The lines of each tool's transcripts; "other" lines become nothing.
KindsOf(tool) ==
  IF tool = "claude"
    THEN {"tool_use", "tool_result", "text", "api_error", "usage", "unnamed usage", "other"}
    ELSE {"turn_context", "task_started", "token_count", "other"}
           \cup CallKinds \cup ResultKinds \cup MessageKinds

\* A line whose tool_use, call, text, error or usage carries an id of its own,
\* which names its row wherever the chunk begins.
NamesItsEvent(line) ==
  \/ UsesTool(line)
  \/ line.kind \in {"text", "api_error", "usage"} \cup CallKinds /\ line.id # NoId

\* What a stored row must hold to be the row of such a line.
RowKeyOf(line, key) ==
  CASE line.kind = "usage" -> key[1] \in {"file tokens", "session tokens"} /\ key[2] = line.id
    [] line.kind \in CallKinds -> key = <<line.kind, line.id, 0>>
    [] line.kind \in {"text", "api_error"} -> key = <<"tool", line.id, 0>>
    [] OTHER -> key = <<"tool", UseId(line), 0>>
===============================================================================
