---------------------------- MODULE MCSessionFiles ----------------------------
(* Two transcripts followed either by a server that captures them or by two   *)
(* sync processes.  The two consumers share nothing but the transcripts they  *)
(* read, so a behaviour has one of them.                                      *)
EXTENDS Capture, SessionSync

CONSTANTS f1, f2, j1, p1, p2,
          Served, Synced \* the scripts each consumer follows

VARIABLE host

mcVars == <<captureVars, uploadVars, host>>

Line(kind, id, block, output, count) ==
  [kind |-> kind, id |-> id, block |-> block, output |-> output, count |-> count]
Plain(kind, id) == Line(kind, id, NoId, NoOutput, 0)
Result(kind, id, output) == Line(kind, id, NoId, output, 0)
Usage(id, block, count) ==
  Line(IF id = NoId THEN "unnamed usage" ELSE "usage", id, block, NoOutput, count)
Script(tool, lines, step) == [tool |-> tool, lines |-> lines, step |-> step]

\* What the agents write: a call; two calls and one result; a message that
\* reports its usage twice, the second time with a tool_use; one that has no id
\* and a tool_use whose result follows; a Codex command and its token count; a
\* web search that takes the place of a call's output; two errors.
CodexCall == <<Plain("function_call", "c")>>
ClaudeCalls == <<Plain("tool_use", "t"), Plain("tool_use", "u"),
                 Result("tool_result", "u", "failed")>>
ClaudeUsage == <<Usage("m", NoId, 1), Usage("m", "t", 2)>>
ClaudeUnnamed == <<Usage(NoId, "t", 1), Result("tool_result", "t", "done")>>
CodexCommand == <<Plain("function_call", "c"), Result("exec_command_end", "c", "done"),
                  Line("token_count", NoId, NoId, NoOutput, 3)>>
CodexSearch == <<Plain("tool_call", "c"), Plain("web_search_end", "c"),
                 Result("function_call_output", "c", "done")>>
CodexErrors == <<Result("error", NoId, "first"), Result("error", NoId, "second")>>

Pair(a, b) == [f \in Files |-> IF f = f1 THEN a ELSE b]

\* One transcript, written piece by piece or line by line, or two transcripts.
Pieces(tool, lines) == Pair(Script(tool, lines, 1), Script(tool, <<>>, 1))
Whole(tool, lines) == Pair(Script(tool, lines, 2), Script(tool, <<>>, 1))
Two == Pair(Script("codex", CodexCall, 2), Script("codex", CodexCall, 2))

\* Only sizes matter to the sync processes.
SyncScripts == {Pieces("codex", CodexCall), Two}
ServeScripts == {Pieces("codex", CodexCall), Two, Whole("claude", ClaudeCalls),
                 Whole("claude", ClaudeUsage), Whole("claude", ClaudeUnnamed),
                 Whole("codex", CodexCommand), Whole("codex", CodexSearch),
                 Whole("codex", CodexErrors)}

\* The scripts of the run that looks at errors alone.
NoScripts == {}
ErrorScripts == {Whole("codex", CodexErrors)}

MCScripts == Synced \cup Served

MCInit ==
  /\ FilesInit
  /\ \/ host = "serve" /\ script \in Served
     \/ host = "sync" /\ script \in Synced
  /\ ServerInit
  /\ UploadInit

MCNext ==
  \/ host = "serve" /\ CaptureNext /\ UNCHANGED <<uploadVars, host>>
  \/ host = "sync" /\ SyncNext /\ UNCHANGED <<serverVars, host>>

MCSpec ==
  /\ MCInit /\ [][MCNext]_mcVars
  /\ host = "serve" => CaptureFairness
  /\ host = "sync" => SyncFairness

\* A transcript that no longer changes is captured by the server, unless its last
\* change was missed (watch.rs:77, capture.rs:500).
ServedChangesArrive == host = "serve" => WatcherCatchesUp

\* It is uploaded by the sync process that watches, unless its last change was
\* missed (engine.rs:183).
SyncedChangesArrive == host = "sync" => WatchUploads
===============================================================================
