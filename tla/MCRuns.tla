--------------------------------- MODULE MCRuns --------------------------------
(* What happens inside one turn of the server: its stream, from the agent's   *)
(* events to the response; or its cancellation, down to the agent's process   *)
(* group, by the watchdog, by one other caller (the server's own timeout, a   *)
(* DELETE, a client that left), by both or by neither; or two live sessions   *)
(* that compete for one slot or share two.  Or a training run: its schedule   *)
(* with crashes and resumes; or what its steps do to the text of the skill;   *)
(* or the trials that its gate has run.  These are different views, so a      *)
(* behaviour has one of them.                                                 *)
EXTENDS RunSession, RunCancel, LiveSession, MCTraining, MCEdits, MCEvals

CONSTANTS s1, s2, r1, r2, server

OneSession == {s1}

VARIABLE host

serverVars == <<vars, cancelVars, liveVars>>
learnVars == <<trainingVars, editVars, evalVars>>
mcVars == <<serverVars, learnVars, host>>

\* What is not part of a behaviour is over before it begins, or waits for a
\* POST that never comes, so that its fairness asks for nothing.
CancelOver ==
  /\ triggered = FALSE /\ slot = FALSE /\ slot_lock = Free
  /\ main = "returned" /\ settled = FALSE /\ timed_out = FALSE /\ cut_short = FALSE
  /\ call = [t \in Callers |-> "idle"] /\ killing = [t \in Killers |-> "no"]
  /\ watchdog = "off" /\ child_lock = Free /\ child = "none" /\ tool = "none"
  /\ output = FALSE /\ termed = {} /\ nature = CHOOSE n \in Natures : TRUE

LiveOver ==
  /\ max_sessions = 1 /\ open = [r \in Requests |-> "refused"] /\ pending = 0
  /\ record = [r \in Requests |-> "none"] /\ forwarder = [r \in Requests |-> "none"]
  /\ stream = [r \in Requests |-> "gone"] /\ agent = [r \in Requests |-> "none"]
  /\ disconnecting = {} /\ poisoned = FALSE

ServerOver == InitAfter({}) /\ CancelOver /\ LiveOver
LearnOver == TrainingOver /\ EditsOver /\ EvalsOver

MCInit ==
  \/ /\ host = "turn" /\ CancelOver /\ LiveOver /\ LearnOver
     /\ \E earlier \in SUBSET OneSession : InitAfter(earlier)
  \/ host = "cancel" /\ InitAfter({}) /\ CancelInit /\ LiveOver /\ LearnOver
  \/ host = "live" /\ InitAfter({}) /\ CancelOver /\ LiveInit /\ LearnOver
  \/ host = "training" /\ ServerOver /\ TrainingInit /\ EditsOver /\ EvalsOver
  \/ host = "edits" /\ ServerOver /\ TrainingOver /\ EditInit /\ EvalsOver
  \/ host = "evals" /\ ServerOver /\ TrainingOver /\ EditsOver /\ EvalInit

MCNext ==
  \/ host = "turn" /\ Next /\ UNCHANGED <<cancelVars, liveVars, learnVars, host>>
  \/ host = "cancel" /\ CancelNext /\ UNCHANGED <<vars, liveVars, learnVars, host>>
  \/ host = "live" /\ LiveNext /\ UNCHANGED <<vars, cancelVars, learnVars, host>>
  \/ host = "training" /\ TrainingNext /\ UNCHANGED <<serverVars, editVars, evalVars, host>>
  \/ host = "edits" /\ EditNext /\ UNCHANGED <<serverVars, trainingVars, evalVars, host>>
  \/ host = "evals" /\ EvalNext /\ UNCHANGED <<serverVars, trainingVars, editVars, host>>

MCSpec ==
  /\ MCInit /\ [][MCNext]_mcVars
  /\ Fairness /\ CancelFairness /\ LiveFairness
  /\ TrainingFairness
===============================================================================
