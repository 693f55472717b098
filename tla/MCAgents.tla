------------------------------- MODULE MCAgents -------------------------------
(* Runs of the built-in agent, a live Pi session and a live Codex session.    *)
(* They share nothing, so in a behaviour one of them happens and the others   *)
(* are over before it begins.                                                 *)
EXTENDS AgentRun, PiSession, CodexSession

CONSTANTS r1, r2, s1, c1, k1, k2

mcVars == <<agentVars, piVars, codexVars>>

RunsOver ==
  /\ runs = [r \in Runs |-> Outside("over", NoSession)]
  /\ files = [n \in Names |-> Absent(n)]
  /\ unsaved = {}

PiOver ==
  /\ bridge = "ended" /\ writing = <<>> /\ waiters = <<>> /\ inbox = <<>>
  /\ ready = "err" /\ opener = "failed" /\ listening = TRUE
  /\ calls = [c \in Calls |-> "none"] /\ answer = [c \in Calls |-> NoCall]
  /\ commands = 0
  /\ pi = "gone" /\ stdin = <<>> /\ stdout = <<>> /\ frames = 0
  /\ reader = "done"

CodexOver ==
  /\ task = [pc |-> "ended", method |-> "initialize", id |-> 0, turn |-> 0]
  /\ nextId = 1 /\ pendingIds = {} /\ result = <<>>
  /\ channel = <<>> /\ control = <<>> /\ controls = 0
  /\ codexReady = "err" /\ codexOpener = "failed" /\ consumer = TRUE
  /\ server = "gone" /\ serverIn = <<>> /\ serverOut = <<>>
  /\ notices = 0 /\ asked = {} /\ latestTurn = 0
  /\ routing = FALSE /\ lost = FALSE

MCInit ==
  \/ AgentInit /\ PiOver /\ CodexOver
  \/ RunsOver /\ PiInit /\ CodexOver
  \/ RunsOver /\ PiOver /\ CodexInit

\* A loop reads and changes nothing but its own run, so that what other runs do
\* while one is in its loop may as well come before or after.  The runs are alike,
\* so that r1 may as well be the first to start.
MCAgentNext ==
  \E r \in Runs :
     /\ AgentStep(r)
     /\ \A q \in Runs \ {r} : runs[q].pc # "loop"
     /\ r # r1 => runs[r1].pc # "idle"

MCNext ==
  \/ MCAgentNext /\ UNCHANGED <<piVars, codexVars>>
  \/ PiNext /\ UNCHANGED <<agentVars, codexVars>>
  \/ CodexNext /\ UNCHANGED <<agentVars, piVars>>

MCSpec == MCInit /\ [][MCNext]_mcVars /\ PiFairness /\ CodexFairness

===============================================================================
