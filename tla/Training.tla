------------------------------- MODULE Training -------------------------------
(***************************************************************************)
(* The optimisation loop of aikit-textgrad (training/mod.rs, step.rs,      *)
(* epoch.rs, state.rs): steps that roll out, reflect and gate a candidate, *)
(* the epoch-boundary slow update and meta-skill, the checkpoint written   *)
(* after each of them, crashes at every await point, and resume_training   *)
(* from the run directory.                                                 *)
(*                                                                         *)
(* An artifact text is abstracted to the gate score on record for it, or   *)
(* Unscored when no gate has measured exactly that text.  Scores are what  *)
(* a gate measured: the target agent is not deterministic, so a gate may   *)
(* measure any score for any candidate.                                    *)
(***************************************************************************)
EXTENDS Integers, Sequences, SequencesExt

CONSTANTS NEpochs, StepsPerEpoch, Scores,
          Epsilon,         \* RunConfig.gate_epsilon
          SlowUpdateModes, \* the RunConfig.slow_update_mode values considered
          MaxResumes,      \* bound: calls of resume_training
          Absent           \* a file of the run directory that does not exist

ASSUME ScheduleAssumption == NEpochs \in Nat \ {0} /\ StepsPerEpoch \in Nat
ASSUME EpsilonAssumption == Epsilon \in Nat
ASSUME ScoresInNat == Scores \subseteq Nat
ASSUME ModesAssumption == SlowUpdateModes \subseteq {"ForceAccept", "Gated"}
ASSUME ResumesAssumption == MaxResumes \in Nat

VARIABLES
  slow_update_mode, \* RunConfig, fixed for the run
  pc,               \* where the training process is; "down" when there is none
  state,            \* RuntimeState in memory
  text,             \* artifact.text() in memory
  step,             \* the loop variable: the step about to run
  checkpoint,       \* runtime_state.json, or Absent
  best_file,        \* the text in best_{stem}.md, or Absent
  history,          \* the global_step values recorded in history.json
  resumes,          \* calls of resume_training so far
  completed,        \* ghost: the <<epoch, step>> whose gate is checkpointed
  rejections,       \* ghost: those whose checkpointed gate rejected edits
  consolidated,     \* ghost: epochs whose slow update is checkpointed
  torn_history      \* ghost: a crash truncated history.json

trainingVars == <<slow_update_mode, pc, state, text, step, checkpoint, best_file,
          history, resumes, completed, rejections, consolidated, torn_history>>

disk   == <<checkpoint, best_file, history>>
ghosts == <<completed, rejections, consolidated, torn_history>>

Epochs == 0 .. NEpochs - 1
Steps  == 0 .. StepsPerEpoch - 1

Unscored == -1
Texts    == Scores \cup {Unscored}

PCs == {"down", "hung", "initial_file", "initial_state", "loop", "publish", "record",
        "checkpoint", "meta_skill", "epoch_checkpoint", "final", "done"}

\* The fields of RuntimeState the loop reads back.  current_score is only
\* reported and the strategy text is only prompt material: left out.
RuntimeState ==
  [epoch : Nat, step_in_epoch : Nat, global_step : Nat,
   best_score : Scores \cup {Unscored},
   rejected_edit_buffer : Seq(Epochs \X Steps)]

ASSUME AbsentAssumption == Absent \notin RuntimeState /\ Absent \notin Int

Blank == [epoch |-> 0, step_in_epoch |-> 0, global_step |-> 0,
          best_score |-> Unscored, rejected_edit_buffer |-> <<>>]

TrainingInit ==
  /\ slow_update_mode \in SlowUpdateModes
  /\ pc = "down"
  /\ state = Blank
  /\ text = Unscored
  /\ step = 0
  /\ checkpoint = Absent
  /\ best_file = Absent
  /\ history = {}
  /\ resumes = 0
  /\ completed = {}
  /\ rejections = {}
  /\ consolidated = {}
  /\ torn_history = FALSE

-------------------------------------------------------------------------------
(* run_training: score the initial artifact, then lay out the run directory. *)

\* Used on a directory that holds no checkpoint yet.
ComputeInitialScore ==
  /\ pc = "down"
  /\ checkpoint = Absent
  /\ \E score \in Scores :
        /\ text' = score
        /\ state' = [Blank EXCEPT !.best_score = score]
  /\ step' = 0
  /\ pc' = "initial_file"
  /\ UNCHANGED <<slow_update_mode, disk, resumes, ghosts>>

\* best_{stem}.md, its first version, and an empty history.
WriteInitialFiles ==
  /\ pc = "initial_file"
  /\ best_file' = text
  /\ history' = {}
  /\ pc' = "initial_state"
  /\ UNCHANGED <<slow_update_mode, state, text, step, checkpoint, resumes,
                 ghosts>>

WriteInitialState ==
  /\ pc = "initial_state"
  /\ checkpoint' = state
  /\ pc' = "loop"
  /\ UNCHANGED <<slow_update_mode, state, text, step, best_file, history,
                 resumes, ghosts>>

-------------------------------------------------------------------------------
(* One step: run_step up to its gate, the accepted artifact, the history     *)
(* record, and the checkpoint.                                               *)

\* The inner loop of training_loop runs over step .. steps_per_epoch.
StepsDone == step >= StepsPerEpoch

Accepts(score) == score > state.best_score + Epsilon

\* Rollout, reflect, aggregate, select, update and gate only call agents; the
\* artifact carries the candidate text while it is scored and is restored when
\* the gate rejects.  `edits` tells whether the optimizer proposed any edit.
Gate ==
  /\ pc = "loop"
  /\ ~StepsDone
  /\ \E score \in Scores, edits \in BOOLEAN :
        \/ /\ Accepts(score)
           /\ text' = score
           /\ state' = [state EXCEPT !.step_in_epoch = step,
                                     !.best_score = score]
           /\ pc' = "publish"
        \/ /\ ~Accepts(score)
           /\ state' = [state EXCEPT !.step_in_epoch = step,
                                     !.rejected_edit_buffer =
                          IF edits THEN Append(@, <<state.epoch, step>>) ELSE @]
           /\ pc' = "record"
           /\ UNCHANGED text
  /\ UNCHANGED <<slow_update_mode, step, disk, resumes, ghosts>>

\* save_accepted_artifact: overwrite best_{stem}.md, add a version copy.
SaveAcceptedArtifact ==
  /\ pc = "publish"
  /\ best_file' = text
  /\ pc' = "record"
  /\ UNCHANGED <<slow_update_mode, state, text, step, checkpoint, history,
                 resumes, ghosts>>

\* The step's own files, then append_history.
NumberedLate == history \cup {state.global_step + 1} \* mutated form
Recorded == history \cup {state.global_step}

AppendHistory ==
  /\ pc = "record"
  /\ history' = Recorded
  /\ pc' = "checkpoint"
  /\ UNCHANGED <<slow_update_mode, state, text, step, checkpoint, best_file,
                 resumes, ghosts>>

\* The step being completed rejected edits: its entry is the buffer's last.
RejectedHere ==
  /\ Len(state.rejected_edit_buffer) > 0
  /\ Last(state.rejected_edit_buffer) = <<state.epoch, state.step_in_epoch>>
  /\ checkpoint.rejected_edit_buffer # state.rejected_edit_buffer

\* The atomic checkpoint that ends a step.
WriteRuntimeState ==
  /\ pc = "checkpoint"
  /\ LET here == <<state.epoch, state.step_in_epoch>>
         next == [state EXCEPT !.global_step = @ + 1]
     IN  /\ state' = next
         /\ checkpoint' = next
         /\ completed' = completed \cup {here}
         /\ rejections' = IF RejectedHere THEN rejections \cup {here}
                                          ELSE rejections \ {here}
  /\ step' = step + 1
  /\ pc' = "loop"
  /\ UNCHANGED <<slow_update_mode, text, best_file, history, resumes,
                 consolidated, torn_history>>

-------------------------------------------------------------------------------
(* The epoch boundary.                                                       *)

SlowUpdateTexts ==
  {text} \cup CASE slow_update_mode = "ForceAccept" -> {Unscored}
              [] slow_update_mode = "Gated"       -> {score \in Scores : Accepts(score)}

\* run_slow_update: the buffer is always cleared.  best_score is not raised and
\* best_{stem}.md is not written.
SlowUpdate ==
  /\ pc = "loop"
  /\ StepsDone
  /\ state' = [state EXCEPT !.rejected_edit_buffer = <<>>]
  /\ text' \in SlowUpdateTexts
  /\ pc' = "meta_skill"
  /\ UNCHANGED <<slow_update_mode, step, disk, resumes, ghosts>>

\* run_meta_skill revises the strategy text only.
MetaSkill ==
  /\ pc = "meta_skill"
  /\ pc' = "epoch_checkpoint"
  /\ UNCHANGED <<slow_update_mode, state, text, step, disk, resumes, ghosts>>

\* The checkpoint after the epoch boundary, and the head of the epoch loop.
EpochCheckpoint ==
  /\ pc = "epoch_checkpoint"
  /\ checkpoint' = state
  /\ consolidated' = consolidated \cup {state.epoch}
  /\ step' = 0
  /\ IF state.epoch + 1 < NEpochs
       THEN /\ state' = [state EXCEPT !.epoch = @ + 1]
            /\ pc' = "loop"
       ELSE /\ pc' = "final"
            /\ UNCHANGED state
  /\ UNCHANGED <<slow_update_mode, text, best_file, history, resumes,
                 completed, rejections, torn_history>>

\* compute_final_score, and the TrainingOutcome returned to the caller.
Finish ==
  /\ pc = "final"
  /\ pc' = "done"
  /\ UNCHANGED <<slow_update_mode, state, text, step, disk, resumes, ghosts>>

\* A step, a slow update and a meta-skill call the optimizer through a runner
\* without a time limit, and the merging of a step's patches in groups of one
\* has no end: the process may be held up for ever, until it is killed.
Hang ==
  /\ pc \in {"loop", "meta_skill"}
  /\ pc' = "hung"
  /\ UNCHANGED <<slow_update_mode, state, text, step, disk, resumes, ghosts>>

-------------------------------------------------------------------------------
(* Crashes and resume_training.                                              *)

\* The process dies, or an I/O or evaluation error makes it return early.  The
\* files written with tokio::fs::write are truncated first: one being written
\* may be left torn.  A torn history no longer parses and counts as empty.
Crash ==
  /\ pc \notin {"down", "done"}
  /\ pc' = "down"
  /\ state' = Blank
  /\ text' = Unscored
  /\ step' = 0
  /\ \/ UNCHANGED <<best_file, history, torn_history>>
     \/ /\ pc \in {"initial_file", "publish"}
        /\ best_file' = Unscored
        /\ UNCHANGED <<history, torn_history>>
     \/ /\ pc = "record"
        /\ history' = {}
        /\ torn_history' = TRUE
        /\ UNCHANGED best_file
  /\ UNCHANGED <<slow_update_mode, checkpoint, resumes, completed, rejections,
                 consolidated>>

\* The RuntimeState read back, and the step the loop starts from.
WithoutBuffer == [checkpoint EXCEPT !.rejected_edit_buffer = <<>>] \* mutated form
Restored == checkpoint

SkipsOne == checkpoint.step_in_epoch + 1 \* mutated form
StartStep == checkpoint.step_in_epoch

\* Without a checkpoint resume_training fails and changes nothing.
ResumeTraining ==
  /\ pc \in {"down", "done"}
  /\ checkpoint # Absent
  /\ resumes < MaxResumes
  /\ resumes' = resumes + 1
  /\ state' = Restored
  /\ text' = IF best_file # Absent THEN best_file ELSE Unscored
  /\ step' = StartStep
  /\ pc' = IF checkpoint.epoch < NEpochs THEN "loop" ELSE "final"
  /\ UNCHANGED <<slow_update_mode, disk, ghosts>>

Work == \/ WriteInitialFiles \/ WriteInitialState
        \/ Gate \/ SaveAcceptedArtifact \/ AppendHistory \/ WriteRuntimeState
        \/ SlowUpdate \/ MetaSkill \/ EpochCheckpoint \/ Finish

TrainingNext == ComputeInitialScore \/ Work \/ Hang \/ Crash \/ ResumeTraining

TrainingSpec == TrainingInit /\ [][TrainingNext]_trainingVars

\* A process that does not hang keeps going: the trials it scores with run under
\* a time limit, and the rest is the file system.
TrainingFairness == WF_trainingVars(Work)

-------------------------------------------------------------------------------
(* Properties.                                                               *)

TrainingTypeOK ==
  /\ slow_update_mode \in SlowUpdateModes
  /\ pc \in PCs
  /\ state \in RuntimeState
  /\ text \in Texts
  /\ step \in Nat
  /\ checkpoint \in RuntimeState \cup {Absent}
  /\ best_file \in Texts \cup {Absent}
  /\ history \in SUBSET Nat
  /\ resumes \in 0 .. MaxResumes
  /\ completed \in SUBSET (Epochs \X Steps)
  /\ rejections \in SUBSET (Epochs \X Steps)
  /\ consolidated \in SUBSET Epochs
  /\ torn_history \in BOOLEAN

\* The durable guarantee of a training run (module TrainingRun): across
\* crashes and resumes the schedule is completed in order with no step left
\* out, and the best score on record never falls.
Run == INSTANCE TrainingRun
         WITH begun     <- checkpoint # Absent,
              best      <- IF checkpoint = Absent THEN 0
                                                  ELSE checkpoint.best_score,
              returned  <- pc = "done"

ImplementsTrainingRun == Run!ASpec

\* docs/adr/0003: every rejection checkpointed in an epoch is still in the
\* rejected-edit buffer when the slow update of that epoch consumes it, even
\* after crashes (until that slow update has itself been checkpointed), and
\* the buffer holds nothing of another epoch.
SlowUpdateSeesRejections ==
  (pc = "loop" /\ step >= StepsPerEpoch) =>
     LET buffer == ToSet(state.rejected_edit_buffer)
     IN  /\ \A r \in buffer : r[1] = state.epoch
         /\ state.epoch \notin consolidated =>
              \A r \in rejections : r[1] = state.epoch => r \in buffer

\* Unless a crash truncated history.json, every step the checkpoint counts has
\* its record there (append_history comes before the checkpoint), and
\* best_{stem}.md, when whole, is at least as good as the checkpoint says.
RunDirectoryConsistent ==
  checkpoint # Absent =>
     /\ ~torn_history => \A g \in 0 .. checkpoint.global_step - 1 : g \in history
     /\ best_file # Absent
     /\ best_file # Unscored => best_file >= checkpoint.best_score


\* docs/adr/0003: a crash and a resume cause no score regression, the skill
\* changes only on gate-accept.  From the first checkpoint on, a whole
\* best_{stem}.md is never replaced by an artifact its gate scored lower.
NoScoreRegression ==
  [][(checkpoint # Absent /\ best_file \in Scores /\ best_file' \in Scores) =>
        best_file' >= best_file]_trainingVars
===============================================================================
