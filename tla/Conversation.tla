----------------------------- MODULE Conversation -----------------------------
(***************************************************************************)
(* The conversation of the built-in agent: its turns, what compression      *)
(* (aikit-agent/src/compression.rs) leaves of it when it exceeds the token  *)
(* budget, and the turns that aikit_agent_adapter.rs rebuilds from the      *)
(* event stream of a run to store them.  Texts and the ids of calls are     *)
(* tags that say which run produced them at which step.                     *)
(***************************************************************************)
EXTENDS Integers, Sequences

\* A turn: who speaks, what, the calls it makes and the calls it answers.
Turn(role, text, calls, results) ==
  [role |-> role, text |-> text, calls |-> calls, results |-> results]
NoText == <<"none", 0>>

\* A call has an id, which its result names, and arguments: JSON as serde_json would
\* write it, JSON written otherwise, the word null, or no JSON at all.
Arguments == {"plain", "spaced", "null", "malformed"}
ToolCall(id, arguments) == [id |-> id, arguments |-> arguments]
IdsOf(calls) == {call.id : call \in calls}
UserTurn(text)             == Turn("user", text, {}, {})
AssistantTurn(text, calls) == Turn("assistant", text, calls, {})
ToolTurn(results)          == Turn("tool", NoText, {}, results)

-------------------------------------------------------------------------------
(* compression.rs                                                            *)

\* rposition: the last member of a set of indices, if any.
LastOf(indices) == {i \in indices : \A j \in indices : j <= i}

Spoken(c, role) == {i \in DOMAIN c : c[i].role = role}
Calling(c) == {i \in Spoken(c, "assistant") : c[i].calls # {}}

\* The tool boundary: the assistant turn that made the latest calls.
ToolTurnItself(c) == LastOf(Spoken(c, "tool")) \* mutated form
ToolBoundary(c) ==
  LastOf({i \in Calling(c) : \E t \in LastOf(Spoken(c, "tool")) : i < t})

\* Where the part begins that is kept word for word.
Preserved(c) == LastOf(Spoken(c, "user")) \cup ToolBoundary(c)
PreserveFrom(c) ==
  IF Preserved(c) = {} THEN {Len(c) + 1}
  ELSE {i \in Preserved(c) : \A j \in Preserved(c) : i <= j}

\* What precedes it is summarized into one assistant turn.  When nothing
\* precedes it, compress gives up.
Summary == AssistantTurn(<<"summary", 0>>, {})
Compressed(c, from) == IF from = 1 THEN c ELSE <<Summary>> \o SubSeq(c, from, Len(c))

-------------------------------------------------------------------------------
(* aikit_agent_adapter.rs: internal_events_to_turns reads the events in order *)
(* once the run has ended.  Its locals after a prefix of the events are kept  *)
(* as the events come: the turns so far, the assistant's turn that is open    *)
(* (none or one), and the calls and results that no turn carries yet.         *)

Built(turns, open, calls, results) ==
  [turns |-> turns, open |-> open, calls |-> calls, results |-> results]
\* The event of a call has its parsed arguments, Null when they do not parse, and
\* what is stored is their text as serde_json writes it.
Parsed(arguments) ==
  CASE arguments = "malformed" -> "null"
    [] arguments = "spaced" -> "plain"
    [] OTHER -> arguments
StoredCall(call) == ToolCall(call.id, Parsed(call.arguments))

Rebuilt(prompt) == Built(<<UserTurn(prompt)>>, <<>>, {}, {})

\* A tool turn takes over the pending results; it follows the open turn.
FlushResults(b) ==
  IF b.results = {} THEN b
  ELSE Built(b.turns \o b.open \o <<ToolTurn(b.results)>>, <<>>, b.calls, {})
CloseTurn(b) == Built(b.turns \o b.open, <<>>, b.calls, b.results)

OnTextFinal(b, text) ==
  LET f == FlushResults(b)
  IN Built(f.turns, <<AssistantTurn(text, {})>>, {}, f.results)
OnToolUse(b, call) ==
  Built(b.turns, b.open, b.calls \cup {StoredCall(call)}, b.results)
OnToolResult(b, call) == Built(b.turns, b.open, b.calls, b.results \cup {call.id})

WithCalls(b) ==
  IF b.calls = {} \/ b.open = <<>> THEN b
  ELSE Built(b.turns, <<AssistantTurn(b.open[1].text, b.calls)>>, {}, b.results)

ForgetCalls(b) == CloseTurn(FlushResults(b)) \* mutated form
OnStepFinish(b) ==
  IF b.calls = {} THEN CloseTurn(b) ELSE CloseTurn(FlushResults(WithCalls(b)))

EventsToTurns(b) == CloseTurn(b).turns

-------------------------------------------------------------------------------
(* What an LLM endpoint, and a reader, expect of a conversation.             *)

\* Results directly follow the turn that made those calls.
ToolTurnsFollowCalls(c) ==
  \A i \in Spoken(c, "tool") :
     /\ c[i].results # {}
     /\ i > 1 /\ c[i - 1].role = "assistant"
     /\ IdsOf(c[i - 1].calls) = c[i].results

\* Every call made has its results.
CallsAreAnswered(c) ==
  \A i \in DOMAIN c : c[i].calls # {} => i < Len(c) /\ c[i + 1].role = "tool"

WellFormed(c) == ToolTurnsFollowCalls(c) /\ CallsAreAnswered(c)

\* What was said last in a role.
Latest(c, role) == {c[i] : i \in LastOf(Spoken(c, role))}
===============================================================================
