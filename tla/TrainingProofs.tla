---------------------------- MODULE TrainingProofs ----------------------------
(***************************************************************************)
(* Proofs about the training loop, the evaluations its gate asks for and    *)
(* the edits it makes: module Training, for any schedule, any scores and    *)
(* any number of crashes and resumes (types, the consistency of the run     *)
(* directory, and that Training implements TrainingRun), and modules Evals  *)
(* and Edits.                                                               *)
(*                                                                         *)
(* The invariant of Training says, for each place the process can be in and *)
(* for the checkpoint it would be resumed from, which step is next          *)
(* (Position), how the scores in memory, in the checkpoint and in           *)
(* best_{stem}.md compare (Scored), that every earlier step is completed    *)
(* (Schedule) and that its history record exists (Logged).                  *)
(***************************************************************************)
EXTENDS Training, Evals, Edits, FiniteSetTheorems, SequenceTheorems,
        WellFoundedInduction, TLAPS

Looping   == {"loop", "publish", "record", "checkpoint", "meta_skill",
              "epoch_checkpoint"}
Boundary  == {"meta_skill", "epoch_checkpoint"}
Beginning == {"initial_file", "initial_state"}

Position ==
  /\ pc \in Looping \cup Beginning => state.epoch < NEpochs
  /\ pc \in {"publish", "record", "checkpoint"} =>
        state.step_in_epoch = step /\ step < StepsPerEpoch
  /\ pc \in Boundary => step >= StepsPerEpoch
  /\ state.step_in_epoch = 0 \/ state.step_in_epoch < StepsPerEpoch
  /\ pc \in Beginning =>
        /\ checkpoint = Absent
        /\ state = [Blank EXCEPT !.best_score = state.best_score]
        /\ step = 0
  /\ pc \notin Beginning \cup {"down"} => checkpoint # Absent
  /\ checkpoint # Absent =>
        /\ checkpoint.epoch < NEpochs
        /\ checkpoint.step_in_epoch = 0 \/ checkpoint.step_in_epoch < StepsPerEpoch

Scored ==
  /\ pc # "down" => state.best_score \in Scores
  /\ checkpoint # Absent => checkpoint.best_score \in Scores
  /\ pc \in Boundary \cup {"loop"} => state.best_score = checkpoint.best_score
  /\ pc \in {"publish", "record", "checkpoint"} =>
        state.best_score >= checkpoint.best_score
  /\ pc \in {"initial_file", "publish"} => text = state.best_score
  /\ pc = "initial_state" => best_file = state.best_score
  /\ pc \in {"record", "checkpoint"} =>
        best_file # Absent /\ (best_file # Unscored => best_file >= state.best_score)

\* Every step before step s of epoch e is completed.
Behind(e, s) ==
  \A f \in Epochs, t \in Steps :
     f < e \/ (f = e /\ t < s) => <<f, t>> \in completed

Schedule ==
  /\ pc \in Looping => Behind(state.epoch, step)
  /\ checkpoint # Absent => Behind(checkpoint.epoch, checkpoint.step_in_epoch)
  /\ pc = "final" => completed = Epochs \X Steps

Logged ==
  /\ pc \in Looping /\ ~torn_history =>
        \A g \in 0 .. state.global_step - 1 : g \in history
  /\ pc = "checkpoint" /\ ~torn_history => state.global_step \in history

IInv ==
  /\ TrainingTypeOK /\ Position /\ Scored /\ Schedule /\ Logged
  /\ RunDirectoryConsistent

-------------------------------------------------------------------------------
(* RuntimeState as a type: its fields, and the updates the actions make.     *)

LEMMA Fields ==
  ASSUME NEW x \in RuntimeState
  PROVE  /\ x.epoch \in Nat /\ x.step_in_epoch \in Nat /\ x.global_step \in Nat
         /\ x.best_score \in Scores \cup {Unscored}
         /\ x.rejected_edit_buffer \in Seq(Epochs \X Steps)
         /\ x # Absent
BY AbsentAssumption DEF RuntimeState

LEMMA Rejection ==
  ASSUME NEW x \in RuntimeState, NEW n \in Steps, x.epoch \in Epochs
  PROVE  Append(x.rejected_edit_buffer, <<x.epoch, n>>) \in Seq(Epochs \X Steps)
<1>1. <<x.epoch, n>> \in Epochs \X Steps
  OBVIOUS
<1> QED
  BY <1>1, Fields

-------------------------------------------------------------------------------
(* Each step keeps the invariant.                                            *)

\* The initial score and the first files.
LEMMA BeginningKeeps ==
  ASSUME IInv, ComputeInitialScore \/ WriteInitialFiles \/ WriteInitialState
  PROVE  IInv'
<1> USE ScheduleAssumption, ScoresInNat, AbsentAssumption
    DEF IInv, TrainingTypeOK, PCs, Position, Scored, Schedule, Logged,
        RunDirectoryConsistent,
        Behind, Looping, Boundary, Beginning, disk, ghosts, Unscored, Texts,
        Epochs, Steps
<1>0. Blank \in RuntimeState
  BY DEF Blank, RuntimeState
<1>1. CASE ComputeInitialScore
  <2>1. TrainingTypeOK'
    BY <1>0, <1>1 DEF ComputeInitialScore, RuntimeState
  <2>2. Position'
    BY <1>0, <1>1 DEF ComputeInitialScore, Blank
  <2> QED
    BY <1>1, <2>1, <2>2 DEF ComputeInitialScore, Blank
<1>2. CASE WriteInitialFiles
  BY <1>2 DEF WriteInitialFiles
<1>3. CASE WriteInitialState
  BY <1>3 DEF WriteInitialState, Blank
<1> QED
  BY <1>1, <1>2, <1>3

\* The gate: the steps behind are those behind step `step`, which it starts.
LEMMA GateKeeps ==
  ASSUME IInv, Gate
  PROVE  IInv'
<1>1. /\ pc = "loop" /\ step \in Nat /\ step < StepsPerEpoch
      /\ state \in RuntimeState /\ state.epoch < NEpochs
  BY ScheduleAssumption DEF Gate, StepsDone, IInv, TrainingTypeOK, Position, Looping
<1>2. state.epoch \in Epochs /\ step \in Steps
  BY <1>1, Fields, ScheduleAssumption DEF Epochs, Steps
<1>3. /\ state' \in RuntimeState
      /\ state'.epoch = state.epoch
      /\ state'.step_in_epoch = step
      /\ state'.global_step = state.global_step
  BY <1>1, <1>2, Rejection DEF Gate, RuntimeState
<1>4. \/ /\ pc' = "publish"
         /\ text' = state'.best_score
         /\ state'.best_score \in Scores
         /\ state'.best_score > state.best_score + Epsilon
      \/ /\ pc' = "record"
         /\ text' = text
         /\ state'.best_score = state.best_score
  BY <1>1 DEF Gate, Accepts, RuntimeState
<1>5. UNCHANGED <<slow_update_mode, step, disk, resumes, ghosts>>
  BY DEF Gate
<1> USE Fields, ScheduleAssumption, ScoresInNat, EpsilonAssumption, <1>1, <1>2,
<1>3, <1>4, <1>5
    DEF IInv, TrainingTypeOK, disk, ghosts
<1>6. TrainingTypeOK'
  BY DEF PCs, Texts
<1>7. Position'
  BY DEF Position, Looping, Boundary, Beginning
<1>8. Scored'
  BY AbsentAssumption, SMTT(60)
     DEF Scored, RunDirectoryConsistent, Position, Unscored, Texts, Boundary,
         Looping, Beginning
<1>9. Schedule' /\ Logged' /\ RunDirectoryConsistent'
  BY DEF Schedule, Behind, Logged, RunDirectoryConsistent, Looping
<1> QED
  BY <1>6, <1>7, <1>8, <1>9

\* The artifact and the history record are written before the checkpoint.
LEMMA WritesKeep ==
  ASSUME IInv, SaveAcceptedArtifact \/ AppendHistory
  PROVE  IInv'
<1> USE ScheduleAssumption, ScoresInNat, AbsentAssumption
    DEF IInv, TrainingTypeOK, PCs, Position, Scored, Schedule, Logged,
        RunDirectoryConsistent,
        Behind, Looping, Boundary, Beginning, disk, ghosts, Unscored, Texts
<1>1. CASE SaveAcceptedArtifact
  BY <1>1 DEF SaveAcceptedArtifact
<1>2. CASE AppendHistory
  BY <1>2 DEF AppendHistory, Recorded, RuntimeState
<1> QED
  BY <1>1, <1>2

\* The checkpoint: what was behind the step, and the step itself.
LEMMA CheckpointKeeps ==
  ASSUME IInv, WriteRuntimeState
  PROVE  IInv'
<1>1. /\ pc = "checkpoint" /\ step \in Nat /\ step < StepsPerEpoch
      /\ state \in RuntimeState /\ state.epoch < NEpochs
      /\ state.step_in_epoch = step
  BY DEF WriteRuntimeState, IInv, TrainingTypeOK, Position, Looping
<1>2. state.epoch \in Epochs /\ step \in Steps
  BY <1>1, Fields, ScheduleAssumption DEF Epochs, Steps
<1>3. /\ state' \in RuntimeState
      /\ checkpoint' = state'
      /\ state'.epoch = state.epoch
      /\ state'.step_in_epoch = step
      /\ state'.global_step = state.global_step + 1
      /\ state'.best_score = state.best_score
  <2>1. state' = [state EXCEPT !.global_step = @ + 1] /\ checkpoint' = state'
    BY DEF WriteRuntimeState
  <2> QED
    BY <1>1, <2>1 DEF RuntimeState
<1>4. /\ pc' = "loop" /\ step' = step + 1
      /\ completed' = completed \cup {<<state.epoch, step>>}
      /\ rejections' \subseteq rejections \cup {<<state.epoch, step>>}
      /\ UNCHANGED <<slow_update_mode, text, best_file, history, resumes,
                     consolidated, torn_history>>
  BY <1>1 DEF WriteRuntimeState
<1> USE Fields, ScheduleAssumption, ScoresInNat, <1>1, <1>2, <1>3, <1>4
    DEF IInv, TrainingTypeOK
<1>5. TrainingTypeOK'
  BY DEF PCs
<1>6. Position'
  BY DEF Position, Looping, Boundary, Beginning
<1>7. Scored' /\ RunDirectoryConsistent'
  BY DEF Scored, RunDirectoryConsistent, Logged, Position, Boundary, Looping,
     Beginning
<1>8. Schedule'
  BY DEF Schedule, Behind, Looping, Epochs, Steps
<1>9. Logged'
  BY DEF Logged, Looping
<1> QED
  BY <1>5, <1>6, <1>7, <1>8, <1>9

\* The slow update clears the buffer and may replace the text in memory.
LEMMA SlowUpdateKeeps ==
  ASSUME IInv, SlowUpdate
  PROVE  IInv'
<1>1. /\ pc = "loop" /\ pc' = "meta_skill" /\ step >= StepsPerEpoch
      /\ state \in RuntimeState
      /\ UNCHANGED <<slow_update_mode, step, disk, resumes, ghosts>>
  BY DEF SlowUpdate, StepsDone, IInv, TrainingTypeOK
<1>2. text' \in Texts
  <2>1. slow_update_mode \in {"ForceAccept", "Gated"}
    BY ModesAssumption DEF IInv, TrainingTypeOK
  <2>2. SlowUpdateTexts \subseteq Texts
    BY <2>1 DEF SlowUpdateTexts, IInv, TrainingTypeOK, Texts
  <2> QED
    BY <2>2 DEF SlowUpdate
<1>3. /\ state' \in RuntimeState
      /\ state'.epoch = state.epoch
      /\ state'.step_in_epoch = state.step_in_epoch
      /\ state'.global_step = state.global_step
      /\ state'.best_score = state.best_score
  <2>1. <<>> \in Seq(Epochs \X Steps)
    OBVIOUS
  <2> QED
    BY <1>1, <2>1 DEF SlowUpdate, RuntimeState
<1> USE Fields, <1>1, <1>2, <1>3 DEF IInv, TrainingTypeOK, disk, ghosts
<1>4. TrainingTypeOK'
  BY DEF PCs
<1>5. Position'
  BY DEF Position, Looping, Boundary, Beginning
<1>6. Scored' /\ Schedule' /\ Logged' /\ RunDirectoryConsistent'
  BY DEF Scored, Schedule, Behind, Logged, RunDirectoryConsistent, Boundary,
     Looping
<1> QED
  BY <1>4, <1>5, <1>6

\* The end of an epoch: all its steps are behind step 0 of the next one.
LEMMA EpochCheckpointKeeps ==
  ASSUME IInv, EpochCheckpoint
  PROVE  IInv'
<1>1. /\ pc = "epoch_checkpoint" /\ step >= StepsPerEpoch /\ step \in Nat
      /\ state \in RuntimeState /\ state.epoch < NEpochs
      /\ checkpoint # Absent /\ checkpoint' = state /\ step' = 0
      /\ consolidated' = consolidated \cup {state.epoch}
      /\ UNCHANGED <<slow_update_mode, text, best_file, history, resumes,
                     completed, rejections, torn_history>>
  BY DEF EpochCheckpoint, IInv, TrainingTypeOK, Position, Looping, Boundary, Beginning
<1>2. state.epoch \in Epochs
  BY <1>1, Fields, ScheduleAssumption DEF Epochs
<1>3. /\ state' \in RuntimeState
      /\ state'.step_in_epoch = state.step_in_epoch
      /\ state'.global_step = state.global_step
      /\ state'.best_score = state.best_score
      /\ \/ state.epoch + 1 < NEpochs /\ pc' = "loop" /\ state'.epoch = state.epoch + 1
         \/ state.epoch + 1 >= NEpochs /\ pc' = "final"
  BY <1>1, ScheduleAssumption DEF EpochCheckpoint, RuntimeState
<1>4. Behind(state.epoch, state.step_in_epoch) /\ Behind(state.epoch + 1, 0)
  BY <1>1, Fields, ScheduleAssumption, SMTT(60)
     DEF IInv, Schedule, Position, Behind, Looping, Epochs, Steps
<1> USE Fields, ScheduleAssumption, <1>1, <1>2, <1>3 DEF IInv, TrainingTypeOK
<1>5. TrainingTypeOK'
  BY DEF PCs
<1>6. Position'
  BY DEF Position, Looping, Boundary, Beginning
<1>7. Scored' /\ Logged' /\ RunDirectoryConsistent'
  BY DEF Scored, Logged, RunDirectoryConsistent, Boundary, Looping
<1>8. Schedule'
  BY <1>4 DEF Schedule, Behind, Looping, Epochs, Steps
<1> QED
  BY <1>5, <1>6, <1>7, <1>8

LEMMA EndKeeps ==
  ASSUME IInv, MetaSkill \/ Finish \/ Hang
  PROVE  IInv'
<1> USE DEF IInv, TrainingTypeOK, PCs, Position, Scored, Schedule, Logged,
            RunDirectoryConsistent, Behind, Looping, Boundary, Beginning, disk,
            ghosts
<1>1. CASE MetaSkill
  BY <1>1 DEF MetaSkill
<1>2. CASE Finish \/ Hang
  BY <1>2 DEF Finish, Hang
<1> QED
  BY <1>1, <1>2

\* A crash leaves the checkpoint alone; a file it tears is one that the
\* invariant says nothing of, or that counts as torn.
LEMMA CrashKeeps ==
  ASSUME IInv, Crash
  PROVE  IInv'
<1>1. /\ Blank \in RuntimeState
      /\ Blank.step_in_epoch = 0
  BY DEF Blank, RuntimeState
<1>2. /\ pc' = "down" /\ state' = Blank /\ text' = Unscored /\ step' = 0
      /\ UNCHANGED <<slow_update_mode, checkpoint, resumes, completed, rejections,
                     consolidated>>
      /\ \/ UNCHANGED <<best_file, history, torn_history>>
         \/ pc \in {"initial_file", "publish"} /\ best_file' = Unscored
            /\ UNCHANGED <<history, torn_history>>
         \/ history' = {} /\ torn_history' = TRUE /\ UNCHANGED best_file
  BY DEF Crash
<1> USE <1>1, <1>2 DEF IInv, TrainingTypeOK
<1>3. TrainingTypeOK'
  <2>1. torn_history' \in BOOLEAN
    BY Zenon
  <2> QED
    BY <2>1 DEF PCs, Texts
<1>4. Position' /\ Scored' /\ Schedule' /\ Logged'
  BY DEF Position, Scored, Schedule, Behind, Logged, Looping, Boundary,
     Beginning
<1>5. RunDirectoryConsistent'
  BY AbsentAssumption DEF RunDirectoryConsistent, Unscored
<1> QED
  BY <1>3, <1>4, <1>5

\* Resuming starts from what the invariant says of the checkpoint.
LEMMA ResumeKeeps ==
  ASSUME IInv, ResumeTraining
  PROVE  IInv'
<1>1. /\ checkpoint \in RuntimeState /\ checkpoint.epoch < NEpochs
      /\ state' = checkpoint /\ step' = checkpoint.step_in_epoch /\ pc' = "loop"
      /\ text' = IF best_file # Absent THEN best_file ELSE Unscored
      /\ resumes' = resumes + 1 /\ resumes < MaxResumes /\ checkpoint # Absent
      /\ UNCHANGED <<slow_update_mode, disk, ghosts>>
  BY DEF ResumeTraining, Restored, StartStep, IInv, TrainingTypeOK, Position
<1> USE Fields, ResumesAssumption, <1>1 DEF IInv, TrainingTypeOK, disk, ghosts
<1>2. TrainingTypeOK'
  BY DEF PCs, Texts
<1>3. Position' /\ Scored' /\ Schedule' /\ Logged' /\ RunDirectoryConsistent'
  BY DEF Position, Scored, Schedule, Behind, Logged, RunDirectoryConsistent,
     Looping,
         Boundary, Beginning
<1> QED
  BY <1>2, <1>3

LEMMA InitInvariant == TrainingInit => IInv
<1> SUFFICES ASSUME TrainingInit PROVE IInv
  OBVIOUS
<1> USE DEF TrainingInit
<1>1. Blank \in RuntimeState
  BY DEF Blank, RuntimeState
<1>2. TrainingTypeOK
  <2>1. torn_history \in BOOLEAN
    BY Zenon
  <2> QED
    BY <1>1, <2>1, ResumesAssumption DEF TrainingTypeOK, PCs, Texts
<1>3. Position
  BY DEF Position, Blank, Looping, Beginning, Boundary
<1>4. Scored /\ Schedule /\ Logged /\ RunDirectoryConsistent
  BY DEF Scored, Schedule, Logged, RunDirectoryConsistent, Looping, Boundary
<1> QED
  BY <1>2, <1>3, <1>4 DEF IInv

LEMMA NextInvariant == IInv /\ [TrainingNext]_trainingVars => IInv'
<1> SUFFICES ASSUME IInv, [TrainingNext]_trainingVars PROVE IInv'
  OBVIOUS
<1>1. CASE ComputeInitialScore \/ Work \/ Hang
  BY <1>1, BeginningKeeps, GateKeeps, WritesKeep, CheckpointKeeps,
     SlowUpdateKeeps,
     EpochCheckpointKeeps, EndKeeps DEF Work
<1>2. CASE Crash \/ ResumeTraining
  BY <1>2, CrashKeeps, ResumeKeeps
<1>3. CASE UNCHANGED trainingVars
  BY <1>3
     DEF trainingVars, disk, ghosts, IInv, TrainingTypeOK, Position, Scored, Schedule, Behind,
              Logged, RunDirectoryConsistent
<1> QED
  BY <1>1, <1>2, <1>3 DEF TrainingNext

LEMMA Invariance == TrainingSpec => []IInv
BY InitInvariant, NextInvariant, PTL DEF TrainingSpec

\* Every variable keeps its type through any number of crashes and resumes.
THEOREM TypeCorrect == TrainingSpec => []TrainingTypeOK
<1>1. IInv => TrainingTypeOK
  BY DEF IInv
<1> QED
  BY <1>1, Invariance, PTL

\* What the checkpoint counts is in history.json unless a crash tore it, and
\* best_{stem}.md is at least as good as the checkpoint says.
THEOREM RunDirectoriesAreConsistent == TrainingSpec => []RunDirectoryConsistent
<1>1. IInv => RunDirectoryConsistent
  BY DEF IInv
<1> QED
  BY <1>1, Invariance, PTL

-------------------------------------------------------------------------------
(* The rejected-edit buffer.                                                 *)

\* A buffer holds rejections of epoch e only; and, unless the slow update of
\* that epoch has been checkpointed, all those that have been checkpointed.
OwnRejections(buffer, e) == \A r \in ToSet(buffer) : r[1] = e
AllRejections(buffer, e) ==
  e \notin consolidated => \A r \in rejections : r[1] = e => r \in ToSet(buffer)

Buffered ==
  /\ pc \in Looping =>
       /\ OwnRejections(state.rejected_edit_buffer, state.epoch)
       /\ checkpoint.epoch <= state.epoch
  /\ pc \in Looping \ Boundary =>
       AllRejections(state.rejected_edit_buffer, state.epoch)
  /\ pc \in Boundary => state.rejected_edit_buffer = <<>>
  /\ checkpoint # Absent =>
       /\ OwnRejections(checkpoint.rejected_edit_buffer, checkpoint.epoch)
       /\ AllRejections(checkpoint.rejected_edit_buffer, checkpoint.epoch)
  \* no rejection is on record for an epoch the checkpoint has not reached
  /\ \A r \in rejections : checkpoint # Absent /\ r[1] <= checkpoint.epoch

LEMMA Appended ==
  ASSUME NEW S, NEW q \in Seq(S), NEW x \in S
  PROVE  ToSet(Append(q, x)) = ToSet(q) \cup {x}
<1> DEFINE longer == Append(q, x)
<1>1. /\ Len(q) \in Nat /\ DOMAIN q = 1 .. Len(q)
      /\ DOMAIN longer = 1 .. Len(q) + 1
      /\ \A i \in 1 .. Len(q) : longer[i] = q[i]
      /\ longer[Len(q) + 1] = x
  OBVIOUS
<1> HIDE DEF longer
<1>2. ToSet(longer) \subseteq ToSet(q) \cup {x}
  <2> SUFFICES ASSUME NEW i \in 1 .. Len(q) + 1
               PROVE  longer[i] \in ToSet(q) \cup {x}
    BY <1>1 DEF ToSet
  <2>1. CASE i \in 1 .. Len(q)
    BY <1>1, <2>1 DEF ToSet
  <2>2. CASE i = Len(q) + 1
    BY <1>1, <2>2
  <2> QED
    BY <1>1, <2>1, <2>2
<1>3. x \in ToSet(longer)
  <2>1. Len(q) + 1 \in DOMAIN longer
    BY <1>1
  <2> QED
    BY <1>1, <2>1 DEF ToSet
<1>4. ToSet(q) \subseteq ToSet(longer)
  <2> SUFFICES ASSUME NEW i \in 1 .. Len(q) PROVE q[i] \in ToSet(longer)
    BY <1>1 DEF ToSet
  <2>1. i \in DOMAIN longer /\ longer[i] = q[i]
    BY <1>1
  <2> QED
    BY <2>1 DEF ToSet
<1> QED
  BY <1>2, <1>3, <1>4 DEF longer

LEMMA Emptied == ToSet(<<>>) = {}
BY DEF ToSet

LEMMA LastOfBuffer ==
  ASSUME NEW S, NEW q \in Seq(S), Len(q) > 0
  PROVE  Last(q) \in ToSet(q)
BY DEF ToSet, Last

LEMMA GateBuffers ==
  ASSUME IInv, Buffered, Gate
  PROVE  Buffered'
<1>1. /\ pc = "loop" /\ pc' \in {"publish", "record"}
      /\ state \in RuntimeState
      /\ UNCHANGED <<disk, ghosts>>
  BY DEF Gate, IInv, TrainingTypeOK
<1>2. state.epoch \in Epochs /\ step \in Steps
  BY Fields, ScheduleAssumption
     DEF Gate, StepsDone, IInv, TrainingTypeOK, Position, Looping, Epochs, Steps
<1>3. /\ state'.epoch = state.epoch
      /\ \/ state'.rejected_edit_buffer = state.rejected_edit_buffer
         \/ state'.rejected_edit_buffer =
              Append(state.rejected_edit_buffer, <<state.epoch, step>>)
  BY <1>1 DEF Gate, RuntimeState
<1>4. /\ <<state.epoch, step>> \in Epochs \X Steps
      /\ state.rejected_edit_buffer \in Seq(Epochs \X Steps)
  BY <1>1, <1>2, Fields
<1>5. ToSet(Append(state.rejected_edit_buffer, <<state.epoch, step>>))
        = ToSet(state.rejected_edit_buffer) \cup {<<state.epoch, step>>}
  BY <1>4, Appended
<1>6. ToSet(state'.rejected_edit_buffer) \in
        {ToSet(state.rejected_edit_buffer),
         ToSet(state.rejected_edit_buffer) \cup {<<state.epoch, step>>}}
  BY <1>3, <1>5
<1> QED
  BY <1>1, <1>3, <1>6
     DEF Buffered, OwnRejections, AllRejections, disk, ghosts, Looping, Boundary

LEMMA CheckpointBuffers ==
  ASSUME IInv, Buffered, WriteRuntimeState
  PROVE  Buffered'
<1> DEFINE here == <<state.epoch, state.step_in_epoch>>
<1>1. /\ pc = "checkpoint" /\ pc' = "loop"
      /\ state \in RuntimeState /\ state.epoch \in Nat
      /\ rejections \in SUBSET (Epochs \X Steps)
      /\ checkpoint # Absent /\ checkpoint \in RuntimeState
      /\ consolidated' = consolidated
  BY Fields DEF WriteRuntimeState, IInv, TrainingTypeOK, Position, Beginning
<1>2. /\ checkpoint' = state' /\ checkpoint' # Absent
      /\ state'.epoch = state.epoch
      /\ state'.rejected_edit_buffer = state.rejected_edit_buffer
  BY <1>1, CheckpointKeeps, Fields
     DEF WriteRuntimeState, RuntimeState, IInv, TrainingTypeOK
<1>3. rejections' \subseteq rejections \cup {here}
      /\ (here \in rejections' => here \in ToSet(state.rejected_edit_buffer))
  <2>1. CASE RejectedHere
    <3>1. here \in ToSet(state.rejected_edit_buffer)
      BY <1>1, <2>1, Fields, LastOfBuffer DEF RejectedHere
    <3> QED
      BY <2>1, <3>1 DEF WriteRuntimeState
  <2>2. CASE ~RejectedHere
    BY <2>2 DEF WriteRuntimeState
  <2> QED
    BY <2>1, <2>2
<1>4. here[1] = state.epoch
  OBVIOUS
<1>5. \A r \in rejections' : r[1] <= state.epoch
  <2>1. \A r \in rejections : r[1] \in Nat /\ r[1] <= state.epoch
    BY <1>1, Fields DEF Buffered, Looping, Epochs
  <2> QED
    BY <1>1, <1>3, <1>4, <2>1
<1> HIDE DEF here
<1>6. \A r \in ToSet(state.rejected_edit_buffer) : r[1] = state.epoch
  BY <1>1 DEF Buffered, OwnRejections, Looping
<1>7. state.epoch \notin consolidated =>
        \A r \in rejections' :
          r[1] = state.epoch => r \in ToSet(state.rejected_edit_buffer)
  <2> SUFFICES ASSUME state.epoch \notin consolidated,
                      NEW r \in rejections', r[1] = state.epoch
               PROVE  r \in ToSet(state.rejected_edit_buffer)
    OBVIOUS
  <2>1. CASE r \in rejections
    BY <1>1, <2>1 DEF Buffered, AllRejections, Looping, Boundary
  <2>2. CASE r = here
    BY <1>3, <2>2
  <2> QED
    BY <1>3, <2>1, <2>2
<1> QED
  BY <1>1, <1>2, <1>5, <1>6, <1>7
     DEF Buffered, OwnRejections, AllRejections, Looping, Boundary

LEMMA EpochBuffers ==
  ASSUME IInv, Buffered, SlowUpdate \/ MetaSkill \/ EpochCheckpoint
  PROVE  Buffered'
<1> USE Fields, Emptied DEF IInv, TrainingTypeOK, Position, Buffered, OwnRejections,
        AllRejections, Looping, Boundary, Beginning, disk, ghosts
<1>1. CASE SlowUpdate
  <2>1. state'.epoch = state.epoch /\ state'.rejected_edit_buffer = <<>>
    BY <1>1 DEF SlowUpdate, RuntimeState
  <2> QED
    BY <1>1, <2>1 DEF SlowUpdate
<1>2. CASE MetaSkill
  BY <1>2 DEF MetaSkill
<1>3. CASE EpochCheckpoint
  <2>1. /\ state'.rejected_edit_buffer = <<>>
        /\ state'.epoch = state.epoch + 1 \/ pc' = "final"
    BY <1>3 DEF EpochCheckpoint, RuntimeState
  <2>2. \A r \in rejections : r[1] \in Nat
    BY DEF Epochs
  <2> QED
    BY <1>3, <2>1, <2>2 DEF EpochCheckpoint
<1> QED
  BY <1>1, <1>2, <1>3

LEMMA RestBuffers ==
  ASSUME IInv, Buffered,
         \/ ComputeInitialScore \/ WriteInitialFiles \/ WriteInitialState
         \/ SaveAcceptedArtifact \/ AppendHistory \/ Finish \/ Hang
         \/ Crash \/ ResumeTraining \/ UNCHANGED trainingVars
  PROVE  Buffered'
<1> USE Fields, Emptied DEF IInv, TrainingTypeOK, Position, Buffered, OwnRejections,
        AllRejections, Looping, Boundary, Beginning, disk, ghosts
<1>1. CASE ComputeInitialScore \/ WriteInitialFiles
  BY <1>1 DEF ComputeInitialScore, WriteInitialFiles
<1>2. CASE WriteInitialState
  BY <1>2 DEF WriteInitialState, Blank, RuntimeState
<1>3. CASE SaveAcceptedArtifact \/ AppendHistory \/ Finish \/ Hang
  BY <1>3 DEF SaveAcceptedArtifact, AppendHistory, Finish, Hang
<1>4. CASE Crash
  BY <1>4 DEF Crash
<1>5. CASE ResumeTraining
  BY <1>5 DEF ResumeTraining, Restored
<1>6. CASE UNCHANGED trainingVars
  BY <1>6 DEF trainingVars
<1> QED
  BY <1>1, <1>2, <1>3, <1>4, <1>5, <1>6

\* Every rejection checkpointed in an epoch is in the buffer its slow update
\* consumes, and nothing of another epoch is, whatever crashed before.
THEOREM SlowUpdatesSeeRejections == TrainingSpec => []SlowUpdateSeesRejections
<1>1. TrainingInit => Buffered
  BY DEF TrainingInit, Buffered, Looping, Boundary
<1>2. IInv /\ Buffered /\ [TrainingNext]_trainingVars => Buffered'
  BY GateBuffers, CheckpointBuffers, EpochBuffers, RestBuffers DEF TrainingNext, Work
<1>3. Buffered => SlowUpdateSeesRejections
  BY DEF Buffered, OwnRejections, AllRejections, SlowUpdateSeesRejections,
     Looping,
         Boundary
<1> QED
  BY <1>1, <1>2, <1>3, Invariance, PTL DEF TrainingSpec

-------------------------------------------------------------------------------
(* Training implements TrainingRun.                                          *)

LEMMA InitRefines == TrainingInit => Run!AInit
BY DEF TrainingInit, Run!AInit

\* Only five actions are seen by the caller; the others are stutters.
LEMMA StepRefines ==
  ASSUME IInv, IInv', [TrainingNext]_trainingVars
  PROVE  [Run!ANext]_(Run!avars)
<1> USE DEF Run!avars, disk, ghosts
<1>1. CASE ComputeInitialScore \/ WriteInitialFiles
  BY <1>1 DEF ComputeInitialScore, WriteInitialFiles
<1>2. CASE WriteInitialState
  <2>1. Run!Begin
    BY <1>2, Fields
       DEF WriteInitialState, Run!Begin, IInv, TrainingTypeOK, Position, Scored,
           Beginning
  <2> QED
    BY <2>1 DEF Run!ANext
<1>3. CASE \/ Gate \/ SaveAcceptedArtifact \/ AppendHistory
           \/ SlowUpdate \/ MetaSkill \/ Crash
  BY <1>3
     DEF Gate, SaveAcceptedArtifact, AppendHistory, SlowUpdate, MetaSkill, Crash
<1>4. CASE WriteRuntimeState
  <2>1. Run!Complete(state.epoch, step)
    BY <1>4, Fields, ScheduleAssumption
       DEF WriteRuntimeState, Run!Complete, Run!Before, Run!Epochs, Run!Steps,
           IInv, TrainingTypeOK,
           Position, Scored, Schedule, Behind, Looping, Beginning, Epochs, Steps
  <2>2. state.epoch \in Run!Epochs /\ step \in Run!Steps
    BY <1>4, Fields, ScheduleAssumption
       DEF WriteRuntimeState, Run!Epochs, Run!Steps, IInv, TrainingTypeOK, Position,
           Looping
  <2> QED
    BY <2>1, <2>2 DEF Run!ANext
<1>5. CASE EpochCheckpoint
  BY <1>5, Fields
     DEF EpochCheckpoint, IInv, TrainingTypeOK, Position, Scored, Boundary, Beginning
<1>6. CASE Finish
  <2>1. Run!Return
    BY <1>6
       DEF Finish, Run!Return, Run!Epochs, Run!Steps, Epochs, Steps, IInv,
           Schedule, Position, Beginning
  <2> QED
    BY <2>1 DEF Run!ANext
<1>7. CASE ResumeTraining
  <2>1. pc' = "loop"
    BY <1>7 DEF ResumeTraining, IInv, Position
  <2>2. Run!Reopen \/ UNCHANGED Run!avars
    BY <1>7, <2>1 DEF ResumeTraining, Run!Reopen
  <2> QED
    BY <2>2 DEF Run!ANext
<1>8. CASE Hang \/ UNCHANGED trainingVars
  BY <1>8 DEF Hang, trainingVars
<1> QED
  BY <1>1, <1>2, <1>3, <1>4, <1>5, <1>6, <1>7, <1>8 DEF TrainingNext, Work

\* However often the process dies and is resumed, the schedule is completed in
\* order, no step is left out, and the best score on record never falls.
THEOREM TrainingImplementsRun == TrainingSpec => ImplementsTrainingRun
<1>1. IInv /\ IInv' /\ [TrainingNext]_trainingVars => [Run!ANext]_(Run!avars)
  BY StepRefines
<1> QED
  BY <1>1, InitRefines, Invariance, PTL
     DEF TrainingSpec, ImplementsTrainingRun, Run!ASpec

-------------------------------------------------------------------------------
(***************************************************************************)
(* Proofs about module Evals, for any numbers of trials, of permits and of  *)
(* cases, any threshold and any suites.  Tasks are joined in any order and  *)
(* a panicked one is entered under a number of somebody else, so the        *)
(* invariant names no order: some one-to-one map tells whose entry each is  *)
(* (Accounts).  What a vote counts are pairs of a trial and a check; with   *)
(* one check of each kind they stand for the trials one to one.             *)
(***************************************************************************)

Ended == Statuses \cup {"panicked"}
Entry == [trial_id : Nat, status : Statuses]

\* w[i] is the trial that entry i reports.
Accounts(w) ==
  /\ \A i, j \in DOMAIN trials : w[i] = w[j] => i = j
  /\ \A t \in joined : \E i \in DOMAIN trials : w[i] = t
  /\ \A i \in DOMAIN trials :
        IF trial[w[i]] = "panicked" THEN trials[i].status = "Error"
        ELSE trials[i] = [trial_id |-> w[i], status |-> trial[w[i]]]

SummaryOf(entries, count, threshold) ==
  LET passes == Cardinality({i \in DOMAIN entries : entries[i].status = "Passed"})
      total  == IF count = 0 THEN 1 ELSE count
  IN  [trials |-> Sorted(entries), pass_count |-> passes,
       status |-> IF passes * 100 >= threshold * total THEN "Passed" ELSE "Failed"]

ArgumentsOK == trial_count \in Nat /\ suite \in Suites

TrialsOK ==
  /\ trial \in [Trials -> {"queued", "running"} \cup Ended]
  /\ joined \subseteq Trials /\ \A t \in joined : trial[t] \in Ended
  /\ trials \in Seq(Entry)
  /\ \E w \in [DOMAIN trials -> joined] : Accounts(w)
  /\ verdict # <<>> => /\ joined = Trials
                       /\ verdict = <<SummaryOf(trials, trial_count, pass_threshold)>>

\* What one trial of a suite s may have reported.
Outcomes(s) ==
  {r \in [DOMAIN s -> [check_name : Range(s), passed : BOOLEAN]] :
     \A k \in DOMAIN s : r[k].check_name = s[k]}

\* v is the majority of the results res, for a suite s of distinct names.
VoteRight(v, res, s, count) ==
  IsInjective(s) =>
     \A c \in 1 .. CaseCount : \A name \in DOMAIN v[c] :
        v[c][name] <=>
          2 * Cardinality({i \in DOMAIN res[c] :
                 \E k \in DOMAIN s : res[c][i][k] = [check_name |-> name,
                                                     passed |-> TRUE]})
            > count

VotesOK ==
  /\ results \in [1 .. CaseCount -> Seq(Outcomes(suite))]
  /\ voted # <<>> => VoteRight(voted, results, suite, trial_count)

EvalIInv == ArgumentsOK /\ TrialsOK /\ VotesOK

-------------------------------------------------------------------------------
\* A one-to-one map onto T counts T.
LEMMA SameCount ==
  ASSUME NEW S, NEW T, IsFiniteSet(S), NEW f \in [S -> T],
         \A a, b \in S : f[a] = f[b] => a = b, \A t \in T : \E a \in S : f[a] = t
  PROVE  IsFiniteSet(T) /\ Cardinality(T) = Cardinality(S)
<1>1. f \in Bijection(S, T)
  BY DEF Bijection, Injection, Surjection, IsInjective
<1>2. ExistsBijection(S, T)
  BY <1>1 DEF ExistsBijection
<1> QED
  BY <1>2, FS_Bijection

\* w numbers the members of J from 1 to n.
Numbers(w, n, J) ==
  /\ w \in [1 .. n -> J]
  /\ \A i, j \in 1 .. n : w[i] = w[j] => i = j
  /\ \A t \in J : \E i \in 1 .. n : w[i] = t

\* The number of entries that a condition singles out is that of their trials.
LEMMA CountEntries ==
  ASSUME NEW n \in Nat, NEW J, NEW w, Numbers(w, n, J),
         NEW S \in SUBSET (1 .. n), NEW T \in SUBSET J, \A i \in 1 .. n : i \in S <=> w[i] \in T
  PROVE  Cardinality(T) = Cardinality(S)
<1> DEFINE f == [i \in S |-> w[i]]
<1>1. IsFiniteSet(S)
  <2>1. IsFiniteSet(1 .. n)
    BY FS_Interval
  <2> QED
    BY <2>1, FS_Subset
<1>2. f \in [S -> T] /\ \A a, b \in S : f[a] = f[b] => a = b
  BY DEF Numbers
<1>3. \A t \in T : \E a \in S : f[a] = t
  <2> SUFFICES ASSUME NEW t \in T PROVE \E a \in S : f[a] = t
    OBVIOUS
  <2>1. PICK i \in 1 .. n : w[i] = t
    BY DEF Numbers
  <2> QED
    BY <2>1
<1> HIDE DEF f
<1> QED
  BY <1>1, <1>2, <1>3, SameCount

LEMMA UpTo ==
  ASSUME NEW n \in Nat
  PROVE  IsFiniteSet(1 .. n) /\ Cardinality(1 .. n) = n
BY FS_Interval

LEMMA EntriesKnown ==
  ASSUME TrialsOK, trial_count \in Nat
  PROVE  /\ Len(trials) \in Nat /\ DOMAIN trials = 1 .. Len(trials)
         /\ \A i \in DOMAIN trials : trials[i] \in Entry
         /\ \E w \in [1 .. Len(trials) -> joined] : Accounts(w)
BY DEF TrialsOK

-------------------------------------------------------------------------------
\* What the verdict says, once every trial has been joined.
LEMMA VerdictCounts ==
  ASSUME TrialsOK, trial_count \in Nat, verdict # <<>>,
         NEW v, v = SummaryOf(trials, trial_count, pass_threshold)
  PROVE  /\ Len(v.trials) = trial_count
         /\ v.pass_count = Cardinality({t \in Trials : trial[t] = "Passed"})
         /\ (\A t \in Trials : trial[t] # "panicked") =>
              \A t \in Trials : v.trials[t] = [trial_id |-> t, status |-> trial[t]]
<1> DEFINE n == Len(trials)
<1>1. n \in Nat /\ DOMAIN trials = 1 .. n /\ joined = Trials /\ Trials = 1 .. trial_count
  BY EntriesKnown DEF TrialsOK, Trials
<1>2. PICK w \in [1 .. n -> Trials] : Accounts(w)
  BY <1>1, EntriesKnown
<1>3. /\ \A i, j \in 1 .. n : w[i] = w[j] => i = j
      /\ \A t \in Trials : \E i \in 1 .. n : w[i] = t
      /\ \A i \in 1 .. n :
            IF trial[w[i]] = "panicked" THEN trials[i].status = "Error"
            ELSE trials[i] = [trial_id |-> w[i], status |-> trial[w[i]]]
  BY <1>1, <1>2 DEF Accounts
<1>4. /\ v.trials = Sorted(trials)
      /\ v.pass_count = Cardinality({i \in DOMAIN trials : trials[i].status = "Passed"})
  BY DEF SummaryOf
<1> HIDE DEF n
<1>5. n \in Nat /\ Numbers(w, n, Trials)
  BY <1>1, <1>3 DEF Numbers
<1> DEFINE Same(S, T) == (\A i \in 1 .. n : i \in S <=> w[i] \in T)
                           => Cardinality(T) = Cardinality(S)
<1>6. \A S \in SUBSET (1 .. n) : \A T \in SUBSET Trials : Same(S, T)
  <2> SUFFICES ASSUME NEW S \in SUBSET (1 .. n), NEW T \in SUBSET Trials,
                      \A i \in 1 .. n : i \in S <=> w[i] \in T
               PROVE  Cardinality(T) = Cardinality(S)
    OBVIOUS
  <2> QED
    BY <1>5, CountEntries
<1>7. n = trial_count
  <2>1. Cardinality(Trials) = Cardinality(1 .. n)
    <3>1. \A i \in 1 .. n : i \in 1 .. n <=> w[i] \in Trials
      OBVIOUS
    <3> QED
      BY <3>1, <1>6
  <2> QED
    BY <1>1, <2>1, UpTo
<1>8. Len(v.trials) = trial_count
  <2>1. DOMAIN Sorted(trials) = 1 .. n
    BY <1>1 DEF Sorted
  <2>2. Sorted(trials) \in [1 .. n -> {Sorted(trials)[i] : i \in 1 .. n}]
    BY <1>1 DEF Sorted
  <2>3. Len(Sorted(trials)) = n
    BY <1>1, <2>1, <2>2
  <2> QED
    BY <1>4, <1>7, <2>3
<1>9. v.pass_count = Cardinality({t \in Trials : trial[t] = "Passed"})
  <2> DEFINE S == {i \in 1 .. n : trials[i].status = "Passed"}
             T == {t \in Trials : trial[t] = "Passed"}
  <2>1. \A i \in 1 .. n : i \in S <=> w[i] \in T
    <3> SUFFICES ASSUME NEW i \in 1 .. n
                 PROVE  trials[i].status = "Passed" <=> trial[w[i]] = "Passed"
      OBVIOUS
    <3>1. CASE trial[w[i]] = "panicked"
      BY <1>3, <3>1
    <3>2. CASE trial[w[i]] # "panicked"
      <4>1. trials[i] = [trial_id |-> w[i], status |-> trial[w[i]]]
        BY <1>3, <3>2
      <4> QED
        BY <4>1
    <3> QED
      BY <3>1, <3>2
  <2>2. S \in SUBSET (1 .. n) /\ T \in SUBSET Trials
    OBVIOUS
  <2>3. v.pass_count = Cardinality(S)
    BY <1>1, <1>4
  <2> HIDE DEF S, T
  <2>4. Cardinality(T) = Cardinality(S)
    BY <2>1, <2>2, <1>6
  <2> QED
    BY <2>3, <2>4 DEF T
<1>10. ASSUME \A t \in Trials : trial[t] # "panicked", NEW t \in Trials
      PROVE  v.trials[t] = [trial_id |-> t, status |-> trial[t]]
  <2>1. \A i \in 1 .. n : trials[i] = [trial_id |-> w[i], status |-> trial[w[i]]]
    BY <1>3, <1>10
  <2>2. \A i \in 1 .. n : Place(trials, i) = w[i]
    <3> SUFFICES ASSUME NEW i \in 1 .. n PROVE Place(trials, i) = w[i]
      OBVIOUS
    <3> DEFINE S == {j \in 1 .. n :
                       \/ trials[j].trial_id < trials[i].trial_id
                       \/ trials[j].trial_id = trials[i].trial_id /\ j <= i}
               T == 1 .. w[i]
    <3>1. w[i] \in Nat /\ T \in SUBSET Trials /\ \A j \in 1 .. n : w[j] \in Nat \ {0}
      BY <1>1
    <3>2. \A j \in 1 .. n : trials[j].trial_id = w[j]
      <4> SUFFICES ASSUME NEW j \in 1 .. n PROVE trials[j].trial_id = w[j]
        OBVIOUS
      <4>1. trials[j] = [trial_id |-> w[j], status |-> trial[w[j]]]
        BY <2>1
      <4> QED
        BY <4>1
    <3>3. \A j \in 1 .. n : j \in S <=> w[j] \in T
      BY <1>1, <1>3, <3>1, <3>2
    <3>4. S \in SUBSET (1 .. n)
      OBVIOUS
    <3>5. Place(trials, i) = Cardinality(S)
      BY <1>1 DEF Place
    <3> HIDE DEF S
    <3>6. Cardinality(T) = Cardinality(S)
      <4> HIDE DEF T
      <4> QED
        BY <3>1, <3>3, <3>4, <1>6
    <3> QED
      BY <3>1, <3>5, <3>6, UpTo
  <2>3. PICK i \in 1 .. n : w[i] = t
    BY <1>3
  <2> DEFINE k == CHOOSE j \in DOMAIN trials : Place(trials, j) = t
  <2>4. k \in 1 .. n /\ Place(trials, k) = t
    BY <1>1, <2>2, <2>3
  <2>5. k = i
    BY <1>3, <2>2, <2>3, <2>4
  <2>6. t \in DOMAIN trials
    BY <1>1, <1>7
  <2>7. Sorted(trials)[t] = trials[k]
    BY <2>6 DEF Sorted
  <2> HIDE DEF k
  <2> QED
    BY <1>4, <2>1, <2>3, <2>5, <2>7
<1> QED
  BY <1>8, <1>9, <1>10

-------------------------------------------------------------------------------
\* The steps of run_case_trials.
LEMMA OneTrialMoves ==
  ASSUME TrialsOK, NEW t \in Trials, NEW s \in {"running"} \cup Ended, trial[t] \notin Ended,
         trial' = [trial EXCEPT ![t] = s], UNCHANGED <<Arguments, joined, trials, verdict>>
  PROVE  TrialsOK'
<1>1. Trials' = Trials /\ t \notin joined /\ joined # Trials /\ verdict = <<>>
  BY DEF Trials, Arguments, TrialsOK
<1>2. trial' \in [Trials -> {"queued", "running"} \cup Ended]
  BY DEF TrialsOK
<1>3. \A u \in joined : trial'[u] = trial[u]
  BY <1>1 DEF TrialsOK
<1>4. PICK w \in [DOMAIN trials -> joined] : Accounts(w)
  BY DEF TrialsOK
<1>5. Accounts(w)'
  <2>1. \A i \in DOMAIN trials : trial'[w[i]] = trial[w[i]]
    BY <1>3, <1>4
  <2> QED
    BY <1>4, <2>1 DEF Accounts
<1>6. \E x \in [DOMAIN trials' -> joined'] : Accounts(x)'
  BY <1>4, <1>5
<1> QED
  BY <1>1, <1>2, <1>3, <1>6 DEF TrialsOK

LEMMA JoinKeeps ==
  ASSUME TrialsOK, ArgumentsOK, NEW t \in Trials, Join(t)
  PROVE  TrialsOK'
<1>0. PICK n \in Nat : n = Len(trials)
  BY EntriesKnown DEF ArgumentsOK
<1> DEFINE e == IF trial[t] = "panicked" THEN [trial_id |-> n + 1, status |-> "Error"]
                ELSE [trial_id |-> t, status |-> trial[t]]
<1>1. /\ trial[t] \in Ended /\ t \notin joined /\ joined' = joined \cup {t}
      /\ trials' = Append(trials, e)
      /\ UNCHANGED <<Arguments, trial, verdict>>
  BY <1>0 DEF Join, Entered, NextId, Ended
<1>2. Trials' = Trials /\ joined # Trials /\ verdict = <<>> /\ verdict' = <<>>
  BY <1>1 DEF Trials, Arguments, TrialsOK
<1>3. n \in Nat /\ DOMAIN trials = 1 .. n /\ trials \in Seq(Entry)
  BY <1>0, EntriesKnown DEF TrialsOK, ArgumentsOK
<1>4. e \in Entry
  <2>1. t \in Nat
    BY DEF Trials, ArgumentsOK
  <2> QED
    BY <1>1, <1>3, <2>1 DEF Entry, Ended, Statuses
<1> HIDE DEF e
<1>5. /\ trials' \in Seq(Entry) /\ DOMAIN trials' = 1 .. n + 1
      /\ trials'[n + 1] = e /\ \A i \in 1 .. n : trials'[i] = trials[i]
  BY <1>0, <1>1, <1>3, <1>4
<1>6. PICK w \in [1 .. n -> joined] : Accounts(w)
  BY <1>3 DEF TrialsOK
<1>7. PICK x \in [1 .. n + 1 -> joined \cup {t}] :
         x[n + 1] = t /\ \A i \in 1 .. n : x[i] = w[i]
  <2> DEFINE z == [i \in 1 .. n + 1 |-> IF i = n + 1 THEN t ELSE w[i]]
  <2>1. /\ z \in [1 .. n + 1 -> joined \cup {t}] /\ z[n + 1] = t
        /\ \A i \in 1 .. n : z[i] = w[i]
    BY <1>3
  <2> HIDE DEF z
  <2> QED
    BY <2>1
<1>8. Accounts(x)'
  <2>1. ASSUME NEW i \in 1 .. n + 1, NEW j \in 1 .. n + 1, x[i] = x[j]
        PROVE  i = j
    <3>1. \A k \in 1 .. n : x[k] \in joined
      BY <1>6, <1>7
    <3>2. \A k \in 1 .. n : \A l \in 1 .. n : x[k] = x[l] => k = l
      <4>1. \A k, l \in 1 .. n : w[k] = w[l] => k = l
        BY <1>3, <1>6 DEF Accounts
      <4> QED
        BY <1>7, <4>1
    <3>3. \A k \in 1 .. n + 1 : k \in 1 .. n \/ k = n + 1
      BY <1>3
    <3> QED
      BY <1>1, <1>7, <2>1, <3>1, <3>2, <3>3
  <2>2. ASSUME NEW u \in joined'
        PROVE  \E i \in 1 .. n + 1 : x[i] = u
    <3>1. CASE u = t
      BY <1>3, <1>7, <3>1
    <3>2. CASE u \in joined
      <4>1. PICK i \in 1 .. n : w[i] = u
        BY <1>3, <1>6, <3>2 DEF Accounts
      <4> QED
        BY <1>3, <1>7, <4>1
    <3> QED
      BY <1>1, <2>2, <3>1, <3>2
  <2>3. ASSUME NEW i \in 1 .. n + 1
        PROVE  IF trial[x[i]] = "panicked" THEN trials'[i].status = "Error"
               ELSE trials'[i] = [trial_id |-> x[i], status |-> trial[x[i]]]
    <3>1. CASE i \in 1 .. n
      BY <1>3, <1>5, <1>6, <1>7, <3>1 DEF Accounts
    <3>2. CASE i = n + 1
      BY <1>5, <1>7, <3>2 DEF e
    <3> QED
      BY <1>3, <3>1, <3>2
  <2> QED
    BY <1>1, <1>5, <2>1, <2>2, <2>3 DEF Accounts
<1>9. \E y \in [DOMAIN trials' -> joined'] : Accounts(y)'
  BY <1>1, <1>5, <1>7, <1>8
<1>10. joined' \subseteq Trials /\ \A u \in joined' : trial'[u] \in Ended
  BY <1>1 DEF TrialsOK
<1>11. trial' \in [Trials -> {"queued", "running"} \cup Ended]
  BY <1>1 DEF TrialsOK
<1> QED
  BY <1>2, <1>5, <1>9, <1>10, <1>11 DEF TrialsOK

LEMMA TrialsStay ==
  ASSUME TrialsOK, UNCHANGED <<Arguments, trialVars>>
  PROVE  TrialsOK'
<1>1. /\ Trials' = Trials /\ trial' = trial /\ joined' = joined /\ trials' = trials
      /\ verdict' = verdict /\ trial_count' = trial_count
      /\ pass_threshold' = pass_threshold
  BY DEF Trials, Arguments, trialVars
<1>2. PICK w \in [DOMAIN trials -> joined] : Accounts(w)
  BY DEF TrialsOK
<1>3. Accounts(w)'
  BY <1>1, <1>2 DEF Accounts
<1> QED
  BY <1>1, <1>2, <1>3 DEF TrialsOK

LEMMA SumUpKeeps ==
  ASSUME TrialsOK, SumUp
  PROVE  TrialsOK'
<1>1. Summary = SummaryOf(trials, trial_count, pass_threshold)
  BY DEF Summary, SummaryOf
<1>2. /\ joined = Trials /\ verdict' = <<SummaryOf(trials, trial_count, pass_threshold)>>
      /\ UNCHANGED <<Arguments, trial, joined, trials>>
  BY <1>1 DEF SumUp
<1>3. /\ Trials' = Trials /\ trial' = trial /\ joined' = joined /\ trials' = trials
      /\ trial_count' = trial_count /\ pass_threshold' = pass_threshold
  BY <1>2 DEF Trials, Arguments
<1>4. PICK w \in [DOMAIN trials -> joined] : Accounts(w)
  BY DEF TrialsOK
<1>5. Accounts(w)'
  BY <1>3, <1>4 DEF Accounts
<1> QED
  BY <1>2, <1>3, <1>4, <1>5 DEF TrialsOK

LEMMA TrialWorkKeeps ==
  ASSUME EvalIInv, TrialWork
  PROVE  EvalIInv'
<1>1. TrialsOK /\ ArgumentsOK /\ VotesOK
  BY DEF EvalIInv
<1>2. UNCHANGED <<Arguments, scoreVars>>
  BY DEF TrialWork, Acquire, EndTrial, Join, SumUp
<1>3. ArgumentsOK' /\ VotesOK'
  BY <1>1, <1>2 DEF ArgumentsOK, VotesOK, Arguments, scoreVars
<1>4. ASSUME NEW t \in Trials, Acquire(t) PROVE TrialsOK'
  <2>1. trial[t] \notin Ended /\ trial' = [trial EXCEPT ![t] = "running"]
    BY <1>4 DEF Acquire, Ended, Statuses
  <2> QED
    BY <1>1, <1>4, <2>1, OneTrialMoves DEF Acquire
<1>5. ASSUME NEW t \in Trials, EndTrial(t) PROVE TrialsOK'
  <2>1. PICK s \in Ended : trial' = [trial EXCEPT ![t] = s]
    BY <1>5 DEF EndTrial, Ended
  <2>2. trial[t] \notin Ended
    BY <1>5 DEF EndTrial, Ended, Statuses
  <2> QED
    BY <1>1, <1>5, <2>1, <2>2, OneTrialMoves DEF EndTrial
<1>6. TrialsOK'
  BY <1>1, <1>4, <1>5, JoinKeeps, SumUpKeeps DEF TrialWork
<1> QED
  BY <1>3, <1>6 DEF EvalIInv

-------------------------------------------------------------------------------
\* The steps of score_cases.  With one check of each kind, the pairs that
\* majority_vote counts for a name are as many as the trials it passed in.
LEMMA PassesAreTrials ==
  ASSUME ArgumentsOK, IsInjective(suite), NEW of_case \in Seq(Outcomes(suite)), NEW name
  PROVE  LET passed == {i \in DOMAIN of_case :
                          \E k \in DOMAIN suite : of_case[i][k] = [check_name |-> name,
                                                                   passed |-> TRUE]}
         IN  Passes(of_case, name) \in Nat /\ Passes(of_case, name) = Cardinality(passed)
<1> DEFINE T == {i \in DOMAIN of_case :
                   \E k \in DOMAIN suite : of_case[i][k] = [check_name |-> name,
                                                            passed |-> TRUE]}
           S == {tk \in (DOMAIN of_case) \X (DOMAIN suite) :
                   /\ of_case[tk[1]][tk[2]].check_name = name
                   /\ of_case[tk[1]][tk[2]].passed}
           f == [tk \in S |-> tk[1]]
<1>1. \A i \in DOMAIN of_case : of_case[i] \in Outcomes(suite)
  OBVIOUS
<1>2. \A i \in DOMAIN of_case : \A k \in DOMAIN suite :
         /\ of_case[i][k] \in [check_name : Range(suite), passed : BOOLEAN]
         /\ of_case[i][k].check_name = suite[k]
  BY <1>1 DEF Outcomes
<1>3. \A i \in DOMAIN of_case : \A k \in DOMAIN suite :
         of_case[i][k] = [check_name |-> name, passed |-> TRUE]
           <=> of_case[i][k].check_name = name /\ of_case[i][k].passed
  <2> SUFFICES ASSUME NEW i \in DOMAIN of_case, NEW k \in DOMAIN suite
               PROVE  of_case[i][k] = [check_name |-> name, passed |-> TRUE]
                        <=> of_case[i][k].check_name = name /\ of_case[i][k].passed
    OBVIOUS
  <2>1. PICK r \in [check_name : Range(suite), passed : BOOLEAN] : r = of_case[i][k]
    BY <1>2
  <2>2. r = [check_name |-> name, passed |-> TRUE] <=> r.check_name = name /\ r.passed
    OBVIOUS
  <2> QED
    BY <2>1, <2>2
<1>4. IsFiniteSet(S)
  <2>1. suite \in Seq(Range(suite))
    BY EvalAssumption DEF ArgumentsOK
  <2>2. IsFiniteSet(DOMAIN of_case) /\ IsFiniteSet(DOMAIN suite)
    <3>1. DOMAIN of_case = 1 .. Len(of_case) /\ Len(of_case) \in Nat
      OBVIOUS
    <3>2. DOMAIN suite = 1 .. Len(suite) /\ Len(suite) \in Nat
      BY <2>1
    <3> QED
      BY <3>1, <3>2, UpTo
  <2>3. IsFiniteSet((DOMAIN of_case) \X (DOMAIN suite))
    BY <2>2, FS_Product
  <2>4. S \in SUBSET ((DOMAIN of_case) \X (DOMAIN suite))
    OBVIOUS
  <2> HIDE DEF S
  <2> QED
    BY <2>3, <2>4, FS_Subset
<1>5. \A tk \in S : tk = <<tk[1], tk[2]>> /\ tk[1] \in T /\ name = suite[tk[2]]
                    /\ tk[2] \in DOMAIN suite
  <2> SUFFICES ASSUME NEW tk \in S
               PROVE  tk = <<tk[1], tk[2]>> /\ tk[1] \in T /\ name = suite[tk[2]]
                      /\ tk[2] \in DOMAIN suite
    OBVIOUS
  <2>1. PICK i \in DOMAIN of_case, k \in DOMAIN suite : tk = <<i, k>>
    OBVIOUS
  <2>2. of_case[i][k].check_name = name /\ of_case[i][k].passed
    BY <2>1
  <2>3. i \in T /\ name = suite[k]
    BY <1>2, <1>3, <2>2
  <2> HIDE DEF T
  <2> QED
    BY <2>1, <2>3
<1>6. f \in [S -> T] /\ \A x \in S : f[x] = x[1]
  <2> HIDE DEF S, T
  <2> QED
    BY <1>5
<1>7. \A x, y \in S : f[x] = f[y] => x = y
  <2> HIDE DEF S, T, f
  <2>1. \A k, l \in DOMAIN suite : suite[k] = suite[l] => k = l
    BY DEF IsInjective
  <2> QED
    BY <1>5, <1>6, <2>1
<1>8. \A i \in T : \E x \in S : f[x] = i
  <2> SUFFICES ASSUME NEW i \in T PROVE \E x \in S : f[x] = i
    OBVIOUS
  <2>1. PICK k \in DOMAIN suite : of_case[i][k] = [check_name |-> name, passed |-> TRUE]
    OBVIOUS
  <2>2. i \in DOMAIN of_case
    OBVIOUS
  <2>3. <<i, k>> \in S
    BY <2>1, <2>2
  <2>4. f[<<i, k>>] = i
    BY <1>6, <2>3
  <2> HIDE DEF f, S
  <2> QED
    BY <2>3, <2>4
<1>9. Passes(of_case, name) = Cardinality(S)
  BY DEF Passes
<1>10. Cardinality(T) = Cardinality(S) /\ Cardinality(S) \in Nat
  <2> HIDE DEF S, T, f
  <2> QED
    BY <1>4, <1>6, <1>7, <1>8, SameCount, FS_CardinalityType
<1> HIDE DEF S
<1> QED
  BY <1>9, <1>10

LEMMA VoteKeeps ==
  ASSUME EvalIInv, Vote
  PROVE  VoteRight(voted', results, suite, trial_count)
<1> SUFFICES ASSUME IsInjective(suite), NEW c \in 1 .. CaseCount, NEW name \in DOMAIN voted'[c]
             PROVE  voted'[c][name] <=>
                      2 * Cardinality({i \in DOMAIN results[c] :
                             \E k \in DOMAIN suite :
                                results[c][i][k] = [check_name |-> name, passed |-> TRUE]})
                        > trial_count
  BY DEF VoteRight
<1>1. ArgumentsOK /\ results[c] \in Seq(Outcomes(suite)) /\ trial_count \in Nat
  BY DEF EvalIInv, VotesOK, ArgumentsOK
<1>2. voted'[c] = MajorityVote(results[c])
  BY DEF Vote
<1>3. voted'[c][name] = Carried(results[c], name)
  BY <1>2 DEF MajorityVote
<1> DEFINE p == Cardinality({i \in DOMAIN results[c] :
                               \E k \in DOMAIN suite :
                                  results[c][i][k] = [check_name |-> name, passed |-> TRUE]})
<1>4. Passes(results[c], name) = p /\ p \in Nat
  BY <1>1, PassesAreTrials
<1> HIDE DEF p
<1>5. p > trial_count \div 2 <=> 2 * p > trial_count
  BY <1>1, <1>4
<1>6. voted'[c][name] <=> 2 * p > trial_count
  BY <1>3, <1>4, <1>5 DEF Carried
<1> QED
  BY <1>6 DEF p

LEMMA ScoreTrialKeeps ==
  ASSUME EvalIInv, ScoreTrial
  PROVE  results' \in [1 .. CaseCount -> Seq(Outcomes(suite))]
<1>1. PICK passed \in [DOMAIN suite -> BOOLEAN] :
         results' = [results EXCEPT ![case_idx] = Append(@,
                       [k \in DOMAIN suite |-> [check_name |-> suite[k],
                                                passed |-> passed[k]]])]
  BY DEF ScoreTrial
<1> DEFINE outcome == [k \in DOMAIN suite |-> [check_name |-> suite[k], passed |-> passed[k]]]
<1>2. outcome \in Outcomes(suite)
  BY DEF Outcomes, Range
<1>3. results \in [1 .. CaseCount -> Seq(Outcomes(suite))]
  BY DEF EvalIInv, VotesOK
<1>4. results' = [results EXCEPT ![case_idx] = Append(results[case_idx], outcome)]
  BY <1>1, <1>3
<1> HIDE DEF outcome
<1>5. case_idx \in 1 .. CaseCount => Append(results[case_idx], outcome) \in Seq(Outcomes(suite))
  BY <1>2, <1>3
<1> QED
  BY <1>3, <1>4, <1>5

LEMMA ScoreWorkKeeps ==
  ASSUME EvalIInv, ScoreWork
  PROVE  EvalIInv'
<1>1. TrialsOK /\ ArgumentsOK /\ VotesOK
  BY DEF EvalIInv
<1>2. UNCHANGED <<Arguments, trialVars>>
  BY DEF ScoreWork, ScoreTrial, NextCase, Vote
<1>3. ArgumentsOK' /\ TrialsOK' /\ suite' = suite /\ trial_count' = trial_count
  BY <1>1, <1>2, TrialsStay DEF ArgumentsOK, Arguments
<1>4. CASE ScoreTrial
  <2>1. voted' = <<>>
    BY <1>4 DEF ScoreTrial
  <2> QED
    BY <1>3, <1>4, <2>1, ScoreTrialKeeps DEF EvalIInv, VotesOK
<1>5. CASE NextCase
  <2>1. voted' = voted /\ results' = results
    BY <1>5 DEF NextCase
  <2> QED
    BY <1>1, <1>3, <2>1 DEF EvalIInv, VotesOK
<1>6. CASE Vote
  <2>1. results' = results
    BY <1>6 DEF Vote
  <2>2. VoteRight(voted', results, suite, trial_count)
    BY <1>6, VoteKeeps
  <2> QED
    BY <1>1, <1>3, <2>1, <2>2 DEF EvalIInv, VotesOK
<1> QED
  BY <1>4, <1>5, <1>6 DEF ScoreWork

-------------------------------------------------------------------------------
LEMMA EvalInitial == EvalInit => EvalIInv
<1> SUFFICES ASSUME EvalInit PROVE EvalIInv
  OBVIOUS
<1>1. ArgumentsOK
  BY EvalAssumption DEF EvalInit, ArgumentsOK
<1>2. /\ trial = [t \in Trials |-> "queued"] /\ joined = {} /\ trials = <<>>
      /\ verdict = <<>> /\ results = [c \in 1 .. CaseCount |-> <<>>] /\ voted = <<>>
  BY DEF EvalInit
<1>3. trials \in Seq(Entry) /\ DOMAIN trials = {}
  BY <1>2
<1>4. \E w \in [DOMAIN trials -> joined] : Accounts(w)
  <2> DEFINE w == [i \in {} |-> 0]
  <2>1. w \in [DOMAIN trials -> joined]
    BY <1>3
  <2>2. Accounts(w)
    BY <1>2, <1>3 DEF Accounts
  <2> QED
    BY <2>1, <2>2
<1>5. TrialsOK
  BY <1>2, <1>3, <1>4 DEF TrialsOK
<1>6. VotesOK
  BY <1>2 DEF VotesOK
<1> QED
  BY <1>1, <1>5, <1>6 DEF EvalIInv

LEMMA EvalInductive == EvalIInv /\ [EvalNext]_evalVars => EvalIInv'
<1> SUFFICES ASSUME EvalIInv, [EvalNext]_evalVars PROVE EvalIInv'
  OBVIOUS
<1>1. CASE TrialWork
  BY <1>1, TrialWorkKeeps
<1>2. CASE ScoreWork
  BY <1>2, ScoreWorkKeeps
<1>3. CASE UNCHANGED evalVars
  <2>1. UNCHANGED <<Arguments, trialVars, scoreVars>>
    BY <1>3 DEF evalVars
  <2>2. TrialsOK'
    BY <2>1, TrialsStay DEF EvalIInv
  <2>3. ArgumentsOK' /\ VotesOK'
    BY <2>1 DEF EvalIInv, ArgumentsOK, VotesOK, Arguments, scoreVars
  <2> QED
    BY <2>2, <2>3 DEF EvalIInv
<1> QED
  BY <1>1, <1>2, <1>3 DEF EvalNext

LEMMA EvalInvariance == EvalSpec => []EvalIInv
<1>1. EvalInit => EvalIInv
  BY EvalInitial
<1>2. EvalIInv /\ [EvalNext]_evalVars => EvalIInv'
  BY EvalInductive
<1> QED
  BY <1>1, <1>2, PTL DEF EvalSpec

\* A case's verdict counts every trial asked for, once, and lists it under its
\* own number unless one panicked, for any number of trials on any number of
\* permits, joined in any order (run_case_trials).
THEOREM TrialsAlwaysCounted == EvalSpec => []TrialsAllCounted
<1>1. EvalIInv => TrialsAllCounted
  <2> SUFFICES ASSUME EvalIInv, NEW v \in Range(verdict)
               PROVE  /\ Len(v.trials) = trial_count
                      /\ v.pass_count = Cardinality({t \in Trials : trial[t] = "Passed"})
                      /\ (\A t \in Trials : trial[t] # "panicked") =>
                           \A t \in Trials : v.trials[t] = [trial_id |-> t, status |-> trial[t]]
    BY DEF TrialsAllCounted
  <2>1. TrialsOK /\ trial_count \in Nat
    BY DEF EvalIInv, ArgumentsOK
  <2>2. verdict # <<>>
    BY DEF Range
  <2>3. v = SummaryOf(trials, trial_count, pass_threshold)
    BY <2>1, <2>2 DEF TrialsOK, Range
  <2> QED
    BY <2>1, <2>2, <2>3, VerdictCounts
<1> QED
  BY <1>1, EvalInvariance, PTL

\* With one check of each kind the vote is the majority of the trials, for any
\* number of cases and trials (majority_vote).
THEOREM DistinctVotesAreMajorities == EvalSpec => []DistinctVoteIsMajority
<1>1. EvalIInv => DistinctVoteIsMajority
  <2> SUFFICES ASSUME EvalIInv, IsInjective(suite), voted # <<>>
               PROVE  VoteIsMajority
    BY DEF DistinctVoteIsMajority, VoteIsMajority
  <2>1. VoteRight(voted, results, suite, trial_count)
    BY DEF EvalIInv, VotesOK
  <2> QED
    BY <2>1 DEF VoteRight, VoteIsMajority
<1> QED
  BY <1>1, EvalInvariance, PTL

-------------------------------------------------------------------------------
(***************************************************************************)
(* Proofs about module Edits, for any seeds, patches, guidances, group      *)
(* sizes and budgets: a step's budget is filled, what apply_budgeted reports *)
(* of the second application of the chosen edits agrees with the walk that  *)
(* chose them, and the protected region holds the guidance it was given.    *)
(* The walk, the kept tokens of a text and the ranked pool are recursive    *)
(* functions; what they compute is proved from their equations by the       *)
(* principle that a set of numbers which has 0 and, with each number, the   *)
(* next one, has them all (AllNaturals).                                    *)
(***************************************************************************)

LEMMA AllNaturals ==
  ASSUME NEW S, 0 \in S, \A m \in Nat : m \in S => m + 1 \in S
  PROVE  \A m \in Nat : m \in S
<1> SUFFICES ASSUME NEW n \in Nat, n \notin S PROVE FALSE
  OBVIOUS
<1> DEFINE T == Nat \ S
           R == {ss \in Nat \X Nat : ss[1] < ss[2]}
<1>1. IsWellFoundedOn(R, Nat)
  BY NatLessThanWellFounded DEF OpToRel
<1>2. T \subseteq Nat /\ T # {}
  OBVIOUS
<1>3. PICK x \in T : \A y \in T : <<y, x>> \notin R
  <2> HIDE DEF R, T
  <2> QED
    BY <1>1, <1>2, WFMin
<1>4. x # 0 /\ x \in Nat /\ x - 1 \in Nat /\ x - 1 \notin S
  <2>1. x \in Nat /\ x # 0 /\ x \notin S
    BY <1>3
  <2>2. x - 1 \in Nat /\ (x - 1) + 1 = x
    BY <2>1
  <2> QED
    BY <2>1, <2>2
<1>5. <<x - 1, x>> \in R
  BY <1>4
<1> QED
  BY <1>3, <1>4, <1>5

\* Numbers up to a bound.
LEMMA AllUpTo ==
  ASSUME NEW n \in Nat, NEW S, 0 \in S, \A m \in 0 .. n - 1 : m \in S => m + 1 \in S
  PROVE  \A m \in 0 .. n : m \in S
<1> DEFINE T == {m \in Nat : m <= n => m \in S}
<1>1. 0 \in T /\ \A m \in Nat : m \in T => m + 1 \in T
  OBVIOUS
<1>2. \A m \in Nat : m \in T
  <2> HIDE DEF T
  <2> QED
    BY <1>1, AllNaturals
<1> QED
  BY <1>2

\* The equation of the walk.
LEMMA WalkSteps ==
  ASSUME NEW before, NEW edits, Len(edits) \in Nat, NEW limit
  PROVE  /\ Walks(before, edits, limit)[0] = NewWalk(before)
         /\ \A i \in 1 .. Len(edits) :
               Walks(before, edits, limit)[i]
                 = WalkOn(Walks(before, edits, limit)[i - 1], edits, i, limit)
<1> DEFINE walks == Walks(before, edits, limit)
           n == Len(edits)
           F(g, i) == IF i = 0 THEN NewWalk(before) ELSE WalkOn(g[i - 1], edits, i, limit)
           S == {m \in Nat : \E g : g = [i \in 0 .. m |-> F(g, i)]}
<1>1. 0 \in S
  <2> DEFINE g == [i \in 0 .. 0 |-> NewWalk(before)]
  <2>1. g = [i \in 0 .. 0 |-> F(g, i)]
    OBVIOUS
  <2> QED
    BY <2>1
<1>2. ASSUME NEW m \in Nat, m \in S PROVE m + 1 \in S
  <2>1. PICK g : g = [i \in 0 .. m |-> F(g, i)]
    BY <1>2
  <2> HIDE DEF F
  <2> DEFINE h == [i \in 0 .. m + 1 |-> IF i = m + 1 THEN F(g, m + 1) ELSE g[i]]
  <2>2. \A i \in 0 .. m + 1 : h[i] = F(h, i)
    <3> SUFFICES ASSUME NEW i \in 0 .. m + 1 PROVE h[i] = F(h, i)
      OBVIOUS
    <3>1. \A j \in 0 .. m : h[j] = g[j]
      OBVIOUS
    <3> HIDE DEF h
    <3>2. F(h, i) = F(g, i)
      <4>1. i # 0 => i - 1 \in 0 .. m
        OBVIOUS
      <4> QED
        BY <3>1, <4>1 DEF F
    <3>3. CASE i \in 0 .. m
      <4>1. g[i] = F(g, i)
        BY <2>1, <3>3
      <4> QED
        BY <3>1, <3>2, <3>3, <4>1
    <3>4. CASE i = m + 1
      <4>1. h[i] = F(g, i)
        BY <3>4 DEF h
      <4> QED
        BY <3>2, <4>1
    <3> QED
      BY <3>3, <3>4
  <2>3. h = [i \in 0 .. m + 1 |-> F(h, i)]
    <3>1. h = [i \in 0 .. m + 1 |-> h[i]]
      OBVIOUS
    <3> HIDE DEF h
    <3> QED
      BY <2>2, <3>1
  <2> HIDE DEF h
  <2> QED
    BY <2>3
<1>3. n \in S
  <2> HIDE DEF S
  <2> QED
    BY <1>1, <1>2, AllNaturals
<1>4. \E g : g = [i \in 0 .. n |-> F(g, i)]
  BY <1>3
<1>5. Walks(before, edits, limit) = CHOOSE g : g = [i \in 0 .. n |-> F(g, i)]
  BY DEF Walks
<1> HIDE DEF walks, n
<1>6. walks = [i \in 0 .. n |-> F(walks, i)]
  BY <1>4, <1>5 DEF walks
<1> HIDE DEF F
<1>7. \A i \in 0 .. n : walks[i] = F(walks, i)
  BY <1>6
<1>8. n \in Nat
  BY DEF n
<1>9. walks[0] = NewWalk(before)
  <2>1. 0 \in 0 .. n
    BY <1>8
  <2> QED
    BY <1>7, <2>1 DEF F
<1>10. ASSUME NEW i \in 1 .. n PROVE walks[i] = WalkOn(walks[i - 1], edits, i, limit)
  <2>1. i \in 0 .. n /\ i # 0
    BY <1>8
  <2> QED
    BY <1>7, <2>1 DEF F
<1> QED
  BY <1>9, <1>10 DEF walks, n

-------------------------------------------------------------------------------
Reasons == {"MissingTarget", "MissingContent", "AnchorNotFound", "TargetsProtected"}

\* x is the walk over i of n edits.
WalkType(x, n) ==
  /\ DOMAIN x = {"text", "chosen", "skipped", "broken"}
  /\ x.chosen \in Seq(1 .. n) /\ x.skipped \in Seq((1 .. n) \X Reasons)

Tried(x) == ToSet(x.chosen) \cup {s[1] : s \in ToSet(x.skipped)}

WalkOK(x, n, i, limit) ==
  /\ WalkType(x, n)
  /\ Len(x.chosen) <= limit
  /\ Spent(x, limit) \/ Tried(x) = 1 .. i

LEMMA ToSetAppend ==
  ASSUME NEW T, NEW s \in Seq(T), NEW e \in T
  PROVE  ToSet(Append(s, e)) = ToSet(s) \cup {e}
<1> DEFINE z == Append(s, e)
<1>1. /\ DOMAIN s = 1 .. Len(s) /\ Len(s) \in Nat /\ DOMAIN z = 1 .. Len(s) + 1
      /\ \A i \in 1 .. Len(s) : z[i] = s[i]
      /\ z[Len(s) + 1] = e
  OBVIOUS
<1> HIDE DEF z
<1>2. ToSet(z) = ToSet(s) \cup {e}
  BY <1>1 DEF ToSet
<1> QED
  BY <1>2 DEF z

LEMMA SkipReasons ==
  ASSUME NEW before, NEW edit
  PROVE  Skip(before, edit) \in Reasons \cup {"no"}
BY DEF Skip, Reasons

\* The three ways in which the walk goes on.
GoesOn(x, y, edit, i, limit) ==
  /\ Spent(x, limit) => y = x
  /\ ~Spent(x, limit) /\ Skip(x.text, edit) = "no" =>
       /\ y.text = Edited(x.text, edit) /\ y.skipped = x.skipped
       /\ y.chosen = Append(x.chosen, i)
       /\ y.broken = (x.broken \/ Breaks(x.text, edit))
  /\ ~Spent(x, limit) /\ Skip(x.text, edit) # "no" =>
       /\ y.text = x.text /\ y.chosen = x.chosen /\ y.broken = x.broken
       /\ y.skipped = Append(x.skipped, <<i, Skip(x.text, edit)>>)

LEMMA WalkOnFacts ==
  ASSUME NEW n \in Nat, NEW i \in 1 .. n, NEW edits, NEW limit,
         NEW x, WalkType(x, n), NEW y, y = WalkOn(x, edits, i, limit)
  PROVE  WalkType(y, n) /\ GoesOn(x, y, edits[i], i, limit)
<1> DEFINE why == Skip(x.text, edits[i])
<1>1. x.chosen \in Seq(1 .. n) /\ x.skipped \in Seq((1 .. n) \X Reasons)
  BY DEF WalkType
<1>2. CASE Spent(x, limit)
  <2>1. y = x
    BY <1>2 DEF WalkOn
  <2> QED
    BY <1>2, <2>1 DEF GoesOn
<1>3. CASE ~Spent(x, limit) /\ why = "no"
  <2>1. y = [text    |-> Edited(x.text, edits[i]),
             chosen  |-> Append(x.chosen, i),
             skipped |-> x.skipped,
             broken  |-> x.broken \/ Breaks(x.text, edits[i])]
    BY <1>3 DEF WalkOn
  <2>2. /\ y.text = Edited(x.text, edits[i]) /\ y.skipped = x.skipped
        /\ y.chosen = Append(x.chosen, i)
        /\ y.broken = (x.broken \/ Breaks(x.text, edits[i]))
    BY <2>1
  <2>3. y.chosen \in Seq(1 .. n)
    BY <1>1, <2>2
  <2>4. DOMAIN y = {"text", "chosen", "skipped", "broken"}
    BY <2>1
  <2>5. WalkType(y, n)
    BY <1>1, <2>2, <2>3, <2>4 DEF WalkType
  <2> QED
    BY <1>3, <2>2, <2>5 DEF GoesOn
<1>4. CASE ~Spent(x, limit) /\ why # "no"
  <2>1. y = [x EXCEPT !.skipped = Append(@, <<i, why>>)]
    BY <1>4 DEF WalkOn
  <2>2. <<i, why>> \in (1 .. n) \X Reasons
    BY <1>4, SkipReasons
  <2>3. /\ y.text = x.text /\ y.chosen = x.chosen /\ y.broken = x.broken
        /\ y.skipped = Append(x.skipped, <<i, why>>)
        /\ DOMAIN y = DOMAIN x
    <3> HIDE DEF why
    <3> QED
      BY <2>1 DEF WalkType
  <2>4. Append(x.skipped, <<i, why>>) \in Seq((1 .. n) \X Reasons)
    BY <1>1, <2>2
  <2>5. WalkType(y, n)
    BY <1>1, <2>3, <2>4 DEF WalkType
  <2> QED
    BY <1>4, <2>3, <2>5 DEF GoesOn
<1> QED
  BY <1>2, <1>3, <1>4

LEMMA WalkOnKeeps ==
  ASSUME NEW n \in Nat, NEW i \in 1 .. n, NEW edits, NEW limit \in Nat,
         NEW x, WalkOK(x, n, i - 1, limit), NEW y, y = WalkOn(x, edits, i, limit)
  PROVE  WalkOK(y, n, i, limit)
<1>1. /\ WalkType(x, n) /\ Len(x.chosen) <= limit
      /\ x.chosen \in Seq(1 .. n) /\ x.skipped \in Seq((1 .. n) \X Reasons)
  BY DEF WalkOK, WalkType
<1>2. WalkType(y, n) /\ GoesOn(x, y, edits[i], i, limit)
  BY <1>1, WalkOnFacts
<1>3. ~Spent(x, limit) => Tried(x) = 1 .. i - 1 /\ Len(x.chosen) < limit
  BY <1>1 DEF WalkOK, Spent
<1>4. PICK why \in Reasons \cup {"no"} : why = Skip(x.text, edits[i])
  BY SkipReasons
<1>5. CASE Spent(x, limit)
  BY <1>1, <1>2, <1>5 DEF WalkOK, GoesOn
<1>6. CASE ~Spent(x, limit) /\ why = "no"
  <2>1. y.skipped = x.skipped /\ y.chosen = Append(x.chosen, i)
    BY <1>2, <1>4, <1>6 DEF GoesOn
  <2>2. ToSet(y.chosen) = ToSet(x.chosen) \cup {i}
    <3> DEFINE T == 1 .. n
    <3>1. x.chosen \in Seq(T) /\ i \in T
      BY <1>1
    <3> HIDE DEF T
    <3> QED
      BY <2>1, <3>1, ToSetAppend
  <2>3. Tried(y) = Tried(x) \cup {i}
    BY <2>1, <2>2 DEF Tried
  <2>4. Tried(y) = 1 .. i
    BY <1>3, <1>6, <2>3
  <2>5. Len(y.chosen) <= limit
    BY <1>1, <1>3, <1>6, <2>1
  <2> QED
    BY <1>2, <2>4, <2>5 DEF WalkOK
<1>7. CASE ~Spent(x, limit) /\ why # "no"
  <2>1. y.chosen = x.chosen /\ y.skipped = Append(x.skipped, <<i, why>>)
    BY <1>2, <1>4, <1>7 DEF GoesOn
  <2>2. <<i, why>> \in (1 .. n) \X Reasons
    BY <1>4, <1>7
  <2>3. ToSet(y.skipped) = ToSet(x.skipped) \cup {<<i, why>>}
    <3> DEFINE P == (1 .. n) \X Reasons
               e == <<i, why>>
    <3>1. e \in P /\ x.skipped \in Seq(P) /\ y.skipped = Append(x.skipped, e)
      BY <1>1, <2>1, <2>2
    <3> HIDE DEF P, e
    <3>2. ToSet(y.skipped) = ToSet(x.skipped) \cup {e}
      BY <3>1, ToSetAppend
    <3> QED
      BY <3>2 DEF e
  <2>4. {s[1] : s \in ToSet(y.skipped)} = {s[1] : s \in ToSet(x.skipped)} \cup {i}
    <3> DEFINE e == <<i, why>>
    <3>1. e[1] = i
      OBVIOUS
    <3> HIDE DEF e
    <3>2. ToSet(y.skipped) = ToSet(x.skipped) \cup {e}
      BY <2>3 DEF e
    <3> QED
      BY <3>1, <3>2
  <2>5. Tried(y) = Tried(x) \cup {i}
    BY <2>1, <2>4 DEF Tried
  <2>6. Tried(y) = 1 .. i
    BY <1>3, <1>7, <2>5
  <2> QED
    BY <1>1, <1>2, <2>1, <2>6 DEF WalkOK
<1> QED
  BY <1>5, <1>6, <1>7

LEMMA WalksOK ==
  ASSUME NEW before, NEW edits, Len(edits) \in Nat, NEW limit \in Nat
  PROVE  \A i \in 0 .. Len(edits) :
            WalkOK(Walks(before, edits, limit)[i], Len(edits), i, limit)
<1> DEFINE n == Len(edits)
           walks == Walks(before, edits, limit)
           S == {i \in 0 .. n : WalkOK(walks[i], n, i, limit)}
<1>1. walks[0] = NewWalk(before)
  BY WalkSteps
<1>2. ASSUME NEW m \in 0 .. n - 1 PROVE walks[m + 1] = WalkOn(walks[m], edits, m + 1, limit)
  <2>1. m + 1 \in 1 .. n /\ (m + 1) - 1 = m
    OBVIOUS
  <2>2. \A i \in 1 .. n : walks[i] = WalkOn(walks[i - 1], edits, i, limit)
    BY WalkSteps
  <2> HIDE DEF walks, n
  <2> QED
    BY <2>1, <2>2
<1>3. n \in Nat
  OBVIOUS
<1> HIDE DEF walks, n
<1>4. WalkOK(walks[0], n, 0, limit)
  <2>1. PICK x : x = NewWalk(before)
    OBVIOUS
  <2>2. /\ x.chosen = <<>> /\ x.skipped = <<>>
        /\ DOMAIN x = {"text", "chosen", "skipped", "broken"}
    BY <2>1 DEF NewWalk
  <2>3. WalkType(x, n) /\ Len(x.chosen) = 0
    BY <2>2 DEF WalkType
  <2>4. Tried(x) = {}
    BY <2>2 DEF Tried, ToSet
  <2>5. WalkOK(x, n, 0, limit)
    BY <2>3, <2>4 DEF WalkOK
  <2> QED
    BY <1>1, <2>1, <2>5
<1>5. ASSUME NEW m \in 0 .. n - 1, m \in S PROVE m + 1 \in S
  <2>1. m + 1 \in 1 .. n /\ (m + 1) - 1 = m /\ m + 1 \in 0 .. n
    BY <1>3
  <2>2. PICK x : x = walks[m]
    OBVIOUS
  <2>3. PICK y : y = walks[m + 1]
    OBVIOUS
  <2>4. WalkOK(x, n, (m + 1) - 1, limit)
    BY <1>5, <2>1, <2>2
  <2>5. y = WalkOn(x, edits, m + 1, limit)
    BY <1>2, <2>2, <2>3
  <2>6. WalkOK(y, n, m + 1, limit)
    BY <1>3, <2>1, <2>4, <2>5, WalkOnKeeps
  <2> QED
    BY <2>1, <2>3, <2>6
<1>6. 0 \in S
  BY <1>3, <1>4
<1>7. \A m \in 0 .. n : m \in S
  <2> HIDE DEF S
  <2> QED
    BY <1>3, <1>5, <1>6, AllUpTo
<1> QED
  BY <1>7 DEF walks, n

\* What one edit more makes of the edits chosen before.
Extends(longer, shorter) ==
  /\ Len(shorter) <= Len(longer)
  /\ \A k \in 1 .. Len(shorter) : longer[k] = shorter[k]

LEMMA ChosenGrow ==
  ASSUME NEW before, NEW edits, Len(edits) \in Nat, NEW limit \in Nat
  PROVE  \A i \in 0 .. Len(edits) :
            Extends(Walks(before, edits, limit)[Len(edits)].chosen,
                    Walks(before, edits, limit)[i].chosen)
<1> DEFINE n == Len(edits)
           walks == Walks(before, edits, limit)
           T == {j \in 0 .. n : Extends(walks[n].chosen, walks[n - j].chosen)}
<1>1. \A i \in 1 .. n : walks[i] = WalkOn(walks[i - 1], edits, i, limit)
  BY WalkSteps
<1>2. \A i \in 0 .. n : WalkOK(walks[i], n, i, limit)
  BY WalksOK
<1>3. n \in Nat
  OBVIOUS
<1> HIDE DEF walks, n
<1>4. \A i \in 0 .. n : walks[i].chosen \in Seq(1 .. n) /\ WalkType(walks[i], n)
  BY <1>2 DEF WalkOK, WalkType
<1>5. ASSUME NEW i \in 1 .. n PROVE Extends(walks[i].chosen, walks[i - 1].chosen)
  <2>1. PICK x : x = walks[i - 1]
    OBVIOUS
  <2>2. PICK y : y = walks[i]
    OBVIOUS
  <2>3. i - 1 \in 0 .. n /\ i \in 0 .. n
    BY <1>3
  <2>4. /\ WalkType(x, n) /\ WalkType(y, n)
        /\ x.chosen \in Seq(1 .. n) /\ y.chosen \in Seq(1 .. n)
    BY <1>4, <2>1, <2>2, <2>3
  <2>5. y = WalkOn(x, edits, i, limit)
    BY <1>1, <2>1, <2>2
  <2>6. GoesOn(x, y, edits[i], i, limit)
    BY <1>3, <2>4, <2>5, WalkOnFacts
  <2>7. y.chosen = x.chosen \/ y.chosen = Append(x.chosen, i)
    BY <2>6 DEF GoesOn
  <2>8. Extends(y.chosen, x.chosen)
    BY <2>4, <2>7 DEF Extends
  <2> QED
    BY <2>1, <2>2, <2>8
<1>6. 0 \in T
  <2>1. n - 0 = n /\ 0 \in 0 .. n /\ n \in 0 .. n
    BY <1>3
  <2>2. walks[n].chosen \in Seq(1 .. n)
    BY <1>4, <2>1
  <2>3. Extends(walks[n].chosen, walks[n].chosen)
    BY <2>2 DEF Extends
  <2> QED
    BY <2>1, <2>3
<1>7. ASSUME NEW j \in 0 .. n - 1, j \in T PROVE j + 1 \in T
  <2>1. PICK i \in 1 .. n : i = n - j /\ i - 1 = n - (j + 1) /\ j + 1 \in 0 .. n
    BY <1>3
  <2>2. Extends(walks[n].chosen, walks[i].chosen)
    BY <1>7, <2>1
  <2>3. Extends(walks[i].chosen, walks[i - 1].chosen)
    BY <1>5
  <2>4. PICK a, b, c : a = walks[n].chosen /\ b = walks[i].chosen /\ c = walks[i - 1].chosen
    OBVIOUS
  <2>5. a \in Seq(1 .. n) /\ b \in Seq(1 .. n) /\ c \in Seq(1 .. n)
    BY <1>3, <1>4, <2>4
  <2>6. Extends(a, c)
    BY <2>2, <2>3, <2>4, <2>5 DEF Extends
  <2> QED
    BY <2>1, <2>4, <2>6
<1>8. \A j \in 0 .. n : j \in T
  <2> HIDE DEF T
  <2> QED
    BY <1>3, <1>6, <1>7, AllUpTo
<1>9. ASSUME NEW i \in 0 .. n PROVE Extends(walks[n].chosen, walks[i].chosen)
  <2>1. n - i \in 0 .. n /\ n - (n - i) = i
    BY <1>3
  <2>2. n - i \in T
    BY <1>8, <2>1
  <2> QED
    BY <2>1, <2>2
<1> QED
  BY <1>9 DEF walks, n

\* Applied once more, the chosen edits all take effect, with the same result.
LEMMA WalkAgain ==
  ASSUME NEW before, NEW edits, Len(edits) \in Nat, NEW limit \in Nat,
         NEW cs, cs = Walk(before, edits, limit).chosen,
         NEW r, r = ApplyPatch(before, [k \in DOMAIN cs |-> edits[cs[k]]])
  PROVE  r.skipped = <<>> /\ Len(r.chosen) = Len(cs)
<1> DEFINE n == Len(edits)
           walks == Walks(before, edits, limit)
           m == Len(cs)
           again == [k \in DOMAIN cs |-> edits[cs[k]]]
           replay == Walks(before, again, m + 1)
           Agree(w) == LET v == replay[Len(w.chosen)]
                       IN  /\ v.text = w.text /\ v.skipped = <<>>
                           /\ Len(v.chosen) = Len(w.chosen)
           S == {i \in 0 .. n : Agree(walks[i])}
<1>1. /\ \A i \in 1 .. n : walks[i] = WalkOn(walks[i - 1], edits, i, limit)
      /\ walks[0] = NewWalk(before)
  BY WalkSteps
<1>2. \A i \in 0 .. n : WalkOK(walks[i], n, i, limit)
  BY WalksOK
<1>3. \A i \in 0 .. n : Extends(walks[n].chosen, walks[i].chosen)
  BY ChosenGrow
<1>4. n \in Nat /\ cs = walks[n].chosen
  BY DEF Walk
<1>5. cs \in Seq(1 .. n) /\ m \in Nat
  <2> HIDE DEF walks, n
  <2>1. WalkOK(walks[n], n, n, limit)
    BY <1>2, <1>4
  <2> QED
    BY <1>4, <2>1 DEF WalkOK, WalkType
<1>6. Len(again) = m /\ \A k \in 1 .. m : again[k] = edits[cs[k]]
  BY <1>5
<1> HIDE DEF again
<1>7. /\ \A k \in 1 .. m : replay[k] = WalkOn(replay[k - 1], again, k, m + 1)
      /\ replay[0] = NewWalk(before)
  <2>1. Len(again) \in Nat
    BY <1>5, <1>6
  <2>2. /\ \A k \in 1 .. Len(again) : replay[k] = WalkOn(replay[k - 1], again, k, m + 1)
        /\ replay[0] = NewWalk(before)
    BY <2>1, WalkSteps
  <2> QED
    BY <1>6, <2>2
<1>8. \A k \in 0 .. m : WalkType(replay[k], m)
  <2>1. Len(again) \in Nat /\ m + 1 \in Nat
    BY <1>5, <1>6
  <2>2. \A k \in 0 .. Len(again) : WalkOK(replay[k], Len(again), k, m + 1)
    BY <2>1, WalksOK
  <2> QED
    BY <1>6, <2>2 DEF WalkOK
<1>9. r = replay[m]
  BY <1>6 DEF ApplyPatch, Walk, again
<1> HIDE DEF walks, n, m, replay
<1>10. 0 \in S
  <2>1. /\ NewWalk(before).chosen = <<>> /\ NewWalk(before).skipped = <<>>
        /\ NewWalk(before).text = before
    BY DEF NewWalk
  <2>2. Len(walks[0].chosen) = 0
    BY <1>1, <2>1
  <2>3. replay[Len(walks[0].chosen)] = walks[0]
    BY <1>1, <1>7, <2>2
  <2> QED
    BY <1>1, <1>4, <2>1, <2>2, <2>3
<1>11. ASSUME NEW j \in 0 .. n - 1, j \in S PROVE j + 1 \in S
  <2>1. PICK i \in 1 .. n : i = j + 1 /\ i - 1 = j /\ i \in 0 .. n /\ j \in 0 .. n
    BY <1>4
  <2>2. PICK x : x = walks[j]
    OBVIOUS
  <2>3. PICK y : y = walks[i]
    OBVIOUS
  <2>4. y = WalkOn(x, edits, i, limit) /\ WalkType(x, n) /\ WalkType(y, n)
    BY <1>1, <1>2, <2>1, <2>2, <2>3 DEF WalkOK
  <2>5. GoesOn(x, y, edits[i], i, limit)
    BY <1>4, <2>4, WalkOnFacts
  <2>6. PICK k \in Nat : k = Len(x.chosen) /\ x.chosen \in Seq(1 .. n)
    BY <2>4 DEF WalkType
  <2>7. Agree(x)
    BY <1>11, <2>2
  <2>8. PICK v : v = replay[k] /\ v.text = x.text /\ v.skipped = <<>> /\ Len(v.chosen) = k
    BY <2>6, <2>7
  <2>9. CASE y.text = x.text /\ y.chosen = x.chosen
    <3>1. Agree(y)
      BY <2>7, <2>9
    <3> QED
      BY <2>1, <2>3, <3>1
  <2>10. CASE /\ Skip(x.text, edits[i]) = "no"
              /\ y.text = Edited(x.text, edits[i]) /\ y.chosen = Append(x.chosen, i)
    <3>1. Len(y.chosen) = k + 1 /\ y.chosen[k + 1] = i
      BY <2>6, <2>10
    <3>2. Extends(cs, y.chosen)
      BY <1>3, <1>4, <2>1, <2>3
    <3>3. k + 1 \in 1 .. m /\ cs[k + 1] = i /\ (k + 1) - 1 = k /\ k \in 0 .. m
        <4>1. Len(y.chosen) <= m /\ \A l \in 1 .. Len(y.chosen) : cs[l] = y.chosen[l]
        BY <3>2 DEF Extends, m
      <4>2. k + 1 <= m /\ \A l \in 1 .. k + 1 : cs[l] = y.chosen[l]
        BY <3>1, <4>1
      <4>3. k + 1 \in 1 .. k + 1
        BY <2>6
      <4>4. cs[k + 1] = i
        BY <3>1, <4>2, <4>3
      <4> QED
        BY <1>5, <2>6, <4>2, <4>4
    <3>4. PICK u : u = replay[k + 1]
      OBVIOUS
    <3>5. u = WalkOn(v, again, k + 1, m + 1) /\ WalkType(v, m)
      BY <1>7, <1>8, <2>8, <3>3, <3>4
    <3>6. GoesOn(v, u, again[k + 1], k + 1, m + 1)
      BY <1>5, <3>3, <3>5, WalkOnFacts
    <3>7. again[k + 1] = edits[i]
      BY <1>6, <3>3
    <3>8. ~Spent(v, m + 1)
      BY <1>5, <2>8, <3>3 DEF Spent
    <3>9. /\ u.text = Edited(x.text, edits[i]) /\ u.skipped = <<>>
          /\ u.chosen = Append(v.chosen, k + 1)
      BY <2>8, <2>10, <3>6, <3>7, <3>8 DEF GoesOn
    <3>10. Len(u.chosen) = k + 1
      <4>1. v.chosen \in Seq(1 .. m)
        BY <3>5 DEF WalkType
      <4> QED
        BY <2>8, <3>9, <4>1
    <3>11. Agree(y)
      BY <2>10, <3>1, <3>4, <3>9, <3>10
    <3> QED
      BY <2>1, <2>3, <3>11
  <2> QED
    BY <2>5, <2>9, <2>10 DEF GoesOn
<1>12. n \in S
  <2>1. \A i \in 0 .. n : i \in S
    <3> HIDE DEF S
    <3> QED
      BY <1>4, <1>10, <1>11, AllUpTo
  <2> QED
    BY <1>4, <2>1
<1>13. Agree(walks[n])
  BY <1>12
<1> QED
  BY <1>4, <1>9, <1>13 DEF m

Filled(u, edits, limit) ==
  LET tried == ToSet(u.chosen) \cup {s[1] : s \in ToSet(u.intra_patch_skips)}
  IN  /\ Len(u.chosen) <= limit
      /\ Len(u.chosen) = limit \/ tried = DOMAIN edits
      /\ u.report.skipped = <<>>
      /\ Len(u.report.chosen) = Len(u.chosen)

LEMMA AppliedFilled ==
  ASSUME NEW before, NEW T, NEW edits \in Seq(T), NEW limit \in Nat,
         NEW u, u = ApplyBudgeted(before, edits, limit)
  PROVE  Filled(u, edits, limit)
<1>1. Len(edits) \in Nat /\ DOMAIN edits = 1 .. Len(edits)
  OBVIOUS
<1>2. PICK w : w = Walk(before, edits, limit)
  OBVIOUS
<1>3. WalkOK(w, Len(edits), Len(edits), limit)
  <2>1. \A i \in 0 .. Len(edits) :
           WalkOK(Walks(before, edits, limit)[i], Len(edits), i, limit)
    BY <1>1, WalksOK
  <2> QED
    BY <1>1, <1>2, <2>1 DEF Walk
<1>4. PICK r : r = ApplyPatch(before, [k \in DOMAIN w.chosen |-> edits[w.chosen[k]]])
  OBVIOUS
<1>5. r.skipped = <<>> /\ Len(r.chosen) = Len(w.chosen)
  <2>1. PICK cs : cs = w.chosen
    OBVIOUS
  <2>2. r = ApplyPatch(before, [k \in DOMAIN cs |-> edits[cs[k]]])
    BY <1>4, <2>1
  <2>3. cs = Walk(before, edits, limit).chosen
    BY <1>2, <2>1
  <2> QED
    BY <1>1, <2>1, <2>2, <2>3, WalkAgain
<1>6. u.chosen = w.chosen /\ u.intra_patch_skips = w.skipped /\ u.report = r
  BY <1>2, <1>4 DEF ApplyBudgeted
<1>7. Len(w.chosen) <= limit /\ (Len(w.chosen) = limit \/ Tried(w) = 1 .. Len(edits))
  <2>1. Len(w.chosen) \in Nat
    BY <1>3 DEF WalkOK, WalkType
  <2> QED
    BY <1>3, <2>1 DEF WalkOK, Spent
<1> QED
  BY <1>1, <1>5, <1>6, <1>7 DEF Filled, Tried

-------------------------------------------------------------------------------
(* What the patches of a step are made of.                                   *)

Proposals == UNION {ToSet(p) : p \in ReflectPatches \cup MergedPatches}
Patches == Seq(Proposals)

LEMMA PatchesArePatches ==
  ReflectPatches \cup MergedPatches \subseteq Patches
<1> SUFFICES ASSUME NEW p \in ReflectPatches \cup MergedPatches PROVE p \in Patches
  OBVIOUS
<1>1. p \in Seq(ToSet(p))
  BY PatchAssumption
<1>2. ToSet(p) \subseteq Proposals
  BY DEF Proposals
<1>3. Len(p) \in Nat /\ p \in [1 .. Len(p) -> Proposals]
  BY <1>1, <1>2
<1> QED
  BY <1>3 DEF Patches

LEMMA FlattenedPatches ==
  ASSUME NEW E, NEW seqs \in Seq(Seq(E))
  PROVE  FlattenSeq(seqs) \in Seq(E)
<1> DEFINE n == Len(seqs)
           F(g, i) == IF i = 1 THEN seqs[i] ELSE g[i - 1] \o seqs[i]
           Fits(g, m) == g = [i \in 1 .. m |-> F(g, i)]
           S == {m \in Nat : m <= n => \E g : Fits(g, m)}
<1>1. n \in Nat /\ \A i \in 1 .. n : seqs[i] \in Seq(E)
  OBVIOUS
<1>2. CASE n = 0
  BY <1>2 DEF FlattenSeq
<1>3. CASE n # 0
  <2> HIDE DEF n, F
  <2>1. 0 \in S
    <3> DEFINE g == [i \in 1 .. 0 |-> 0]
    <3>1. g = [i \in 1 .. 0 |-> F(g, i)]
      OBVIOUS
    <3> HIDE DEF g
    <3>2. Fits(g, 0)
      BY <3>1
    <3> QED
      BY <3>2
  <2>2. ASSUME NEW m \in Nat, m \in S PROVE m + 1 \in S
    <3> SUFFICES ASSUME m + 1 <= n PROVE \E h : Fits(h, m + 1)
      OBVIOUS
    <3>1. PICK g : Fits(g, m)
      BY <1>1, <2>2
    <3> DEFINE h == [i \in 1 .. m + 1 |-> IF i = m + 1 THEN F(g, m + 1) ELSE g[i]]
    <3>2. /\ \A j \in 1 .. m : h[j] = g[j]
          /\ h[m + 1] = F(g, m + 1)
          /\ h = [i \in 1 .. m + 1 |-> h[i]]
      OBVIOUS
    <3> HIDE DEF h
    <3>3. \A i \in 1 .. m + 1 : F(h, i) = F(g, i)
      <4> SUFFICES ASSUME NEW i \in 1 .. m + 1 PROVE F(h, i) = F(g, i)
        OBVIOUS
      <4>1. i # 1 => i - 1 \in 1 .. m
        OBVIOUS
      <4> QED
        BY <3>2, <4>1 DEF F
    <3>4. \A i \in 1 .. m : g[i] = F(g, i)
      BY <3>1
    <3>5. \A i \in 1 .. m + 1 : h[i] = F(h, i)
      <4> SUFFICES ASSUME NEW i \in 1 .. m + 1 PROVE h[i] = F(h, i)
        OBVIOUS
      <4>1. i = m + 1 \/ i \in 1 .. m
        OBVIOUS
      <4> QED
        BY <3>2, <3>3, <3>4, <4>1
    <3>6. h = [i \in 1 .. m + 1 |-> F(h, i)]
      BY <3>2, <3>5
    <3> QED
      BY <3>6
  <2>3. n \in S
    <3> HIDE DEF S
    <3> QED
      BY <1>1, <2>1, <2>2, AllNaturals
  <2>4. PICK g : Fits(g, n)
    BY <1>1, <2>3
  <2>5. PICK f : f = CHOOSE g1 : g1 = [i \in 1 .. n |-> F(g1, i)]
    OBVIOUS
  <2>6. f = [i \in 1 .. n |-> F(f, i)]
    BY <2>4, <2>5
  <2>7. FlattenSeq(seqs) = f[n]
    BY <1>3, <2>5 DEF FlattenSeq, F, n
  <2>8. \A m \in 0 .. n : m \in {k \in 0 .. n : k = 0 \/ f[k] \in Seq(E)}
    <3> DEFINE R == {k \in 0 .. n : k = 0 \/ f[k] \in Seq(E)}
    <3>1. 0 \in R
      BY <1>1
    <3>2. ASSUME NEW m \in 0 .. n - 1, m \in R PROVE m + 1 \in R
      <4>1. m + 1 \in 1 .. n /\ (m + 1) - 1 = m /\ seqs[m + 1] \in Seq(E)
        BY <1>1
      <4>2. f[m + 1] = F(f, m + 1)
        BY <2>6, <4>1
      <4>3. m = 0 \/ f[m] \in Seq(E)
        BY <3>2
      <4>4. f[m + 1] \in Seq(E)
        BY <1>1, <4>1, <4>2, <4>3 DEF F
      <4> QED
        BY <1>1, <4>1, <4>4
    <3> HIDE DEF R
    <3>3. \A m \in 0 .. n : m \in R
      BY <1>1, <3>1, <3>2, AllUpTo
    <3> QED
      BY <3>3 DEF R
  <2>9. f[n] \in Seq(E)
    BY <1>1, <1>3, <2>8
  <2> QED
    BY <2>7, <2>9
<1> QED
  BY <1>2, <1>3

\* The recursive functions of the model are moves from one value to the next.
MovesIn(n, D, b, move) ==
  b \in D /\ \A i \in 1 .. n : \A d \in D : move[<<i, d>>] \in D

LEMMA Recursion ==
  ASSUME NEW n \in Nat, NEW D, NEW b, NEW move, MovesIn(n, D, b, move)
  PROVE  \E g \in [0 .. n -> D] :
            /\ g[0] = b
            /\ \A i \in 1 .. n : g[i] = move[<<i, g[i - 1]>>]
<1> DEFINE Fits(g, m) == /\ g \in [0 .. m -> D] /\ g[0] = b
                         /\ \A i \in 1 .. m : g[i] = move[<<i, g[i - 1]>>]
           S == {m \in 0 .. n : \E g : Fits(g, m)}
<1>1. 0 \in S
  <2> DEFINE g == [i \in 0 .. 0 |-> b]
  <2>1. g \in [0 .. 0 -> D] /\ g[0] = b
    BY DEF MovesIn
  <2> HIDE DEF g
  <2>2. Fits(g, 0)
    BY <2>1
  <2> QED
    BY <2>2
<1>2. ASSUME NEW m \in 0 .. n - 1, m \in S PROVE m + 1 \in S
  <2>1. PICK g : Fits(g, m)
    BY <1>2
  <2>2. PICK v \in D : v = move[<<m + 1, g[m]>>]
    <3>1. g[m] \in D /\ m + 1 \in 1 .. n
      BY <2>1
    <3> QED
      BY <3>1 DEF MovesIn
  <2> DEFINE h == [i \in 0 .. m + 1 |-> IF i = m + 1 THEN v ELSE g[i]]
  <2>3. /\ h \in [0 .. m + 1 -> D] /\ h[m + 1] = v
        /\ \A i \in 0 .. m : h[i] = g[i]
    BY <2>1, <2>2
  <2> HIDE DEF h
  <2>4. ASSUME NEW i \in 1 .. m + 1 PROVE h[i] = move[<<i, h[i - 1]>>]
    <3>1. i - 1 \in 0 .. m /\ h[i - 1] = g[i - 1]
      BY <2>3
    <3>2. CASE i = m + 1
      BY <2>2, <2>3, <3>1, <3>2
    <3>3. CASE i \in 1 .. m
      BY <2>1, <2>3, <3>1, <3>3
    <3> QED
      BY <3>2, <3>3
  <2>5. h[0] = b
    BY <2>1, <2>3
  <2>6. Fits(h, m + 1)
    BY <2>3, <2>4, <2>5
  <2>7. m + 1 \in 0 .. n
    OBVIOUS
  <2> QED
    BY <2>6, <2>7
<1>3. n \in S
  <2>1. \A m \in 0 .. n : m \in S
    <3> HIDE DEF S
    <3> QED
      BY <1>1, <1>2, AllUpTo
  <2> HIDE DEF S
  <2> QED
    BY <2>1
<1> QED
  BY <1>3

\* A part of a sequence.
LEMMA Part ==
  ASSUME NEW E, NEW s \in Seq(E), NEW m \in 1 .. Len(s) + 1, NEW n \in m - 1 .. Len(s),
         NEW p, p = SubSeq(s, m, n)
  PROVE  /\ p \in Seq(E) /\ Len(p) = n - m + 1
         /\ \A i \in 1 .. n - m + 1 : p[i] = s[m + i - 1]
<1>1. Len(s) \in Nat /\ m \in Int /\ n \in Int
  OBVIOUS
<1>2. \A i \in m .. n : s[i] \in E
  OBVIOUS
<1>3. /\ SubSeq(s, m, n) \in Seq(E)
      /\ Len(SubSeq(s, m, n)) = IF m <= n THEN n - m + 1 ELSE 0
      /\ \A i \in 1 .. n - m + 1 : SubSeq(s, m, n)[i] = s[m + i - 1]
  BY <1>1, <1>2, SubSeqProperties
<1> QED
  BY <1>1, <1>3

\* The ranked pool has the edits of the patch, as many of them.
LEMMA InsertedEdit ==
  ASSUME NEW E, NEW s \in Seq(E), NEW e \in E, NEW u, u = InsertAt(s, Rank(s, e), e)
  PROVE  u \in Seq(E) /\ Len(u) = Len(s) + 1
<1>1. PICK n \in Nat : n = Len(s) /\ DOMAIN s = 1 .. n
  OBVIOUS
<1>2. PICK r : r = Rank(s, e)
  OBVIOUS
<1>3. r \in 1 .. n + 1
  <2> DEFINE K == {k \in DOMAIN s : s[k].impact >= e.impact}
  <2>1. K \subseteq 1 .. n
    BY <1>1
  <2>2. r = Cardinality(K) + 1
    BY <1>2 DEF Rank
  <2> HIDE DEF K
  <2>3. IsFiniteSet(1 .. n) /\ Cardinality(1 .. n) = n
    <3>1. 1 \in Int /\ n \in Int
      OBVIOUS
    <3>2. IsFiniteSet(1 .. n) /\ Cardinality(1 .. n) = IF 1 > n THEN 0 ELSE n - 1 + 1
      BY <3>1, FS_Interval
    <3> QED
      BY <3>2
  <2>4. IsFiniteSet(K) /\ Cardinality(K) <= n
    BY <2>1, <2>3, FS_Subset
  <2>5. Cardinality(K) \in Nat
    BY <2>4, FS_CardinalityType
  <2> QED
    BY <2>2, <2>4, <2>5
<1>4. u = SubSeq(s, 1, r - 1) \o <<e>> \o SubSeq(s, r, n)
  BY <1>1, <1>2 DEF InsertAt
<1>5. PICK front : front = SubSeq(s, 1, r - 1) /\ front \in Seq(E) /\ Len(front) = r - 1
  <2>1. PICK p, q : p = SubSeq(s, 1, q) /\ q = r - 1
    OBVIOUS
  <2>2. 1 \in 1 .. Len(s) + 1 /\ q \in 1 - 1 .. Len(s) /\ q - 1 + 1 = r - 1
    BY <1>1, <1>3, <2>1
  <2>3. p \in Seq(E) /\ Len(p) = q - 1 + 1
    BY <2>1, <2>2, Part
  <2> QED
    BY <2>1, <2>2, <2>3
<1>6. PICK back : back = SubSeq(s, r, n) /\ back \in Seq(E) /\ Len(back) = n - r + 1
  <2>1. PICK p : p = SubSeq(s, r, n)
    OBVIOUS
  <2>2. r \in 1 .. Len(s) + 1 /\ n \in r - 1 .. Len(s)
    BY <1>1, <1>3
  <2>3. p \in Seq(E) /\ Len(p) = n - r + 1
    BY <2>1, <2>2, Part
  <2> QED
    BY <2>1, <2>3
<1>7. u = front \o <<e>> \o back
  BY <1>4, <1>5, <1>6
<1>8. <<e>> \in Seq(E) /\ Len(<<e>>) = 1
  OBVIOUS
<1>9. front \o <<e>> \in Seq(E) /\ Len(front \o <<e>>) = r
  BY <1>3, <1>5, <1>8, ConcatProperties
<1>10. (front \o <<e>>) \o back \in Seq(E) /\ Len((front \o <<e>>) \o back) = n + 1
  <2>1. PICK long : long = front \o <<e>>
    OBVIOUS
  <2>2. long \in Seq(E) /\ Len(long) = r
    BY <1>9, <2>1
  <2>3. long \o back \in Seq(E) /\ Len(long \o back) = Len(long) + Len(back)
    BY <1>6, <2>2, ConcatProperties
  <2>4. Len(long) + Len(back) = n + 1
    BY <1>3, <1>6, <2>2
  <2> QED
    BY <2>1, <2>3, <2>4
<1> QED
  BY <1>1, <1>7, <1>10

LEMMA RankedPatch ==
  ASSUME NEW E, NEW edits \in Seq(E)
  PROVE  Ranked(edits) \in Seq(E) /\ Len(Ranked(edits)) = Len(edits)
<1>1. PICK n \in Nat : n = Len(edits)
  OBVIOUS
<1>2. \A i \in 1 .. n : edits[i] \in E
  BY <1>1
<1> DEFINE D == Seq(E)
           move == [x \in (1 .. n) \X D |->
                      InsertAt(x[2], Rank(x[2], edits[x[1]]), edits[x[1]])]
           F(g, i) == IF i = 0 THEN <<>>
                      ELSE InsertAt(g[i - 1], Rank(g[i - 1], edits[i]), edits[i])
<1>3. \A i \in 1 .. n : \A s \in D :
         /\ InsertAt(s, Rank(s, edits[i]), edits[i]) \in D
         /\ Len(InsertAt(s, Rank(s, edits[i]), edits[i])) = Len(s) + 1
  BY <1>2, InsertedEdit
<1>4. \A i \in 1 .. n : \A d \in D : move[<<i, d>>] \in D
  BY <1>3
<1>5. \A i \in 1 .. n : \A s \in D :
         move[<<i, s>>] = InsertAt(s, Rank(s, edits[i]), edits[i])
  OBVIOUS
<1>6. <<>> \in D
  OBVIOUS
<1> HIDE DEF move, D
<1>7. PICK g \in [0 .. n -> D] : g[0] = <<>> /\ \A i \in 1 .. n : g[i] = move[<<i, g[i - 1]>>]
  <2>1. PICK b : b = <<>> /\ MovesIn(n, D, b, move)
    BY <1>4, <1>6 DEF MovesIn
  <2>2. \E g \in [0 .. n -> D] : g[0] = b /\ \A i \in 1 .. n : g[i] = move[<<i, g[i - 1]>>]
    BY <2>1, Recursion
  <2> QED
    BY <2>1, <2>2
<1>8. \A i \in 0 .. n : g[i] = F(g, i)
  <2> SUFFICES ASSUME NEW i \in 1 .. n PROVE g[i] = F(g, i)
    BY <1>7
  <2>1. i - 1 \in 0 .. n /\ i # 0
    OBVIOUS
  <2>2. g[i - 1] \in D
    BY <2>1
  <2> QED
    BY <1>5, <1>7, <2>1, <2>2
<1> HIDE DEF F
<1>9. g = [i \in 0 .. n |-> F(g, i)]
  BY <1>8
<1>10. PICK f : f = CHOOSE h : h = [i \in 0 .. n |-> F(h, i)]
  OBVIOUS
<1>11. f = [i \in 0 .. n |-> F(f, i)]
  BY <1>9, <1>10
<1>12. Ranked(edits) = f[n]
  BY <1>1, <1>10 DEF Ranked, F
<1> DEFINE S == {i \in 0 .. n : f[i] \in D /\ Len(f[i]) = i}
<1>13. 0 \in S
  BY <1>6, <1>11 DEF F
<1>14. ASSUME NEW m \in 0 .. n - 1, m \in S PROVE m + 1 \in S
  <2>1. m + 1 \in 1 .. n /\ (m + 1) - 1 = m /\ m + 1 # 0 /\ m + 1 \in 0 .. n
    OBVIOUS
  <2>2. f[m + 1] = F(f, m + 1)
    BY <1>11, <2>1
  <2>3. PICK s \in D : s = f[m] /\ Len(s) = m
    BY <1>14
  <2>4. f[m + 1] = InsertAt(s, Rank(s, edits[m + 1]), edits[m + 1])
    BY <2>1, <2>2, <2>3 DEF F
  <2> QED
    BY <1>3, <2>1, <2>3, <2>4
<1>15. \A m \in 0 .. n : m \in S
  <2> HIDE DEF S
  <2> QED
    BY <1>13, <1>14, AllUpTo
<1> QED
  BY <1>1, <1>12, <1>15 DEF D

-------------------------------------------------------------------------------
(* Texts and the offsets of their parts.                                     *)

IsText(t) == \E T : t \in Seq(T)

Least(S, m) == m \in S /\ \A y \in S : m <= y

LEMMA LeastOne ==
  ASSUME NEW S \in SUBSET Nat, S # {}
  PROVE  \E m \in Nat : Least(S, m)
<1> DEFINE R == {ss \in Nat \X Nat : ss[1] < ss[2]}
<1>1. IsWellFoundedOn(R, Nat)
  BY NatLessThanWellFounded DEF OpToRel
<1>2. PICK x \in S : \A y \in S : <<y, x>> \notin R
  <2> HIDE DEF R
  <2> QED
    BY <1>1, WFMin
<1>3. \A y \in S : x <= y
  <2> SUFFICES ASSUME NEW y \in S PROVE x <= y
    OBVIOUS
  <2>1. <<y, x>> \in Nat \X Nat /\ <<y, x>> \notin R
    BY <1>2
  <2> QED
    BY <2>1
<1> QED
  BY <1>3 DEF Least

LEMMA MinIsLeast ==
  ASSUME NEW S \in SUBSET Nat, NEW m \in Nat, Least(S, m)
  PROVE  Min(S) = m
<1>1. \A x \in S : (\A y \in S : x <= y) => x = m
  BY DEF Least
<1>2. m \in S /\ \A y \in S : m <= y
  BY DEF Least
<1> QED
  BY <1>1, <1>2 DEF Min

\* Find finds the first offset.
LEMMA Found ==
  ASSUME NEW t, IsText(t), NEW p, IsText(p), Occurs(t, p)
  PROVE  /\ Find(t, p) \in Nat /\ Find(t, p) + Len(p) <= Len(t)
         /\ Least(Offsets(t, p), Find(t, p))
<1>1. Len(t) \in Nat /\ Len(p) \in Nat
  BY DEF IsText
<1>2. PICK S : S = Offsets(t, p)
  OBVIOUS
<1>3. S \subseteq 0 .. Len(t) - Len(p) /\ S # {}
  BY <1>2 DEF Offsets, Occurs
<1>4. S \in SUBSET Nat
  BY <1>1, <1>3
<1>5. PICK m \in Nat : Least(S, m)
  BY <1>3, <1>4, LeastOne
<1>6. Find(t, p) = m
  BY <1>2, <1>4, <1>5, MinIsLeast DEF Find
<1>7. m \in 0 .. Len(t) - Len(p)
  BY <1>3, <1>5 DEF Least
<1> QED
  BY <1>1, <1>2, <1>5, <1>6, <1>7

LEMMA OffsetsOfToken ==
  ASSUME NEW t, IsText(t), NEW x
  PROVE  Offsets(t, <<x>>) = {i \in 0 .. Len(t) - 1 : t[i + 1] = x}
<1>1. Len(<<x>>) = 1 /\ Len(t) \in Nat
  BY DEF IsText
<1>2. ASSUME NEW i \in 0 .. Len(t) - 1
      PROVE  SubSeq(t, i + 1, i + Len(<<x>>)) = <<x>> <=> t[i + 1] = x
  <2>1. PICK T : t \in Seq(T)
    BY DEF IsText
  <2>2. PICK p, m : m = i + 1 /\ p = SubSeq(t, m, m)
    OBVIOUS
  <2>3. m \in 1 .. Len(t) + 1 /\ m \in m - 1 .. Len(t) /\ m - m + 1 = 1
    BY <1>1, <2>2
  <2>4. p \in Seq(T) /\ Len(p) = m - m + 1 /\ \A k \in 1 .. m - m + 1 : p[k] = t[m + k - 1]
    BY <2>1, <2>2, <2>3, Part
  <2>5. p \in Seq(T) /\ Len(p) = 1 /\ p[1] = t[m]
    BY <1>1, <2>2, <2>3, <2>4
  <2>6. p = <<x>> <=> p[1] = x
    <3>1. p = <<p[1]>>
      BY <2>5
    <3>2. <<x>>[1] = x
      OBVIOUS
    <3> QED
      BY <3>1, <3>2
  <2>7. i + Len(<<x>>) = m
    BY <1>1, <2>2
  <2> QED
    BY <2>2, <2>5, <2>6, <2>7
<1> QED
  BY <1>1, <1>2 DEF Offsets

\* The protected region of a text: its markers are the first ones, the one that
\* begins it before the one that ends it.
Region(t, b, e) ==
  /\ IsText(t) /\ b \in Nat /\ e \in Nat /\ b < e /\ e < Len(t)
  /\ t[b + 1] = Begin /\ t[e + 1] = End
  /\ \A i \in 1 .. b : t[i] # Begin
  /\ \A i \in 1 .. e : t[i] # End

\* The region of t holds g.
Guarded(t, b, e, g) == Region(t, b, e) /\ SubSeq(t, b + 2, e) = g
Guards(t, g) == \E b, e \in Nat : Guarded(t, b, e, g)

LEMMA RegionFound ==
  ASSUME NEW t, NEW b, NEW e, Region(t, b, e)
  PROVE  /\ Occurs(t, <<Begin>>) /\ Find(t, <<Begin>>) = b
         /\ Occurs(t, <<End>>) /\ Find(t, <<End>>) = e
         /\ EditableEnd(t) = b
         /\ ProtectedContent(t) = SubSeq(t, b + 2, e)
<1>1. /\ b \in Nat /\ e \in Nat /\ b < e /\ e < Len(t) /\ Len(t) \in Nat
      /\ t[b + 1] = Begin /\ t[e + 1] = End
      /\ \A i \in 1 .. b : t[i] # Begin
      /\ \A i \in 1 .. e : t[i] # End
  BY DEF Region, IsText
<1>2. PICK B : B = Offsets(t, <<Begin>>) /\ B = {i \in 0 .. Len(t) - 1 : t[i + 1] = Begin}
  BY OffsetsOfToken DEF Region
<1>3. PICK E : E = Offsets(t, <<End>>) /\ E = {i \in 0 .. Len(t) - 1 : t[i + 1] = End}
  BY OffsetsOfToken DEF Region
<1>4. B \in SUBSET Nat /\ Least(B, b)
  <2>1. b \in B
    BY <1>1, <1>2
  <2>2. ASSUME NEW y \in B PROVE b <= y
    <3>1. y \in 0 .. Len(t) - 1 /\ t[y + 1] = Begin
      BY <1>2
    <3>2. y + 1 \notin 1 .. b
      BY <1>1, <3>1
    <3> QED
      BY <1>1, <3>1, <3>2
  <2> QED
    BY <1>1, <1>2, <2>1, <2>2 DEF Least
<1>5. E \in SUBSET Nat /\ Least(E, e)
  <2>1. e \in E
    BY <1>1, <1>3
  <2>2. ASSUME NEW y \in E PROVE e <= y
    <3>1. y \in 0 .. Len(t) - 1 /\ t[y + 1] = End
      BY <1>3
    <3>2. y + 1 \notin 1 .. e
      BY <1>1, <3>1
    <3> QED
      BY <1>1, <3>1, <3>2
  <2> QED
    BY <1>1, <1>3, <2>1, <2>2 DEF Least
<1>6. Occurs(t, <<Begin>>) /\ Find(t, <<Begin>>) = b
  BY <1>1, <1>2, <1>4, MinIsLeast DEF Occurs, Find, Least
<1>7. Occurs(t, <<End>>) /\ Find(t, <<End>>) = e
  BY <1>1, <1>3, <1>5, MinIsLeast DEF Occurs, Find, Least
<1>8. EditableEnd(t) = b
  BY <1>6 DEF EditableEnd
<1>9. ProtectedContent(t) = SubSeq(t, b + 2, e)
  <2>1. (b + 1) + 1 = b + 2
    BY <1>1
  <2> QED
    BY <1>7, <1>8, <2>1 DEF ProtectedContent
<1> QED
  BY <1>6, <1>7, <1>8, <1>9

\* A marked text has a region.
LEMMA MarkedRegion ==
  ASSUME NEW t, IsText(t), Marked(t)
  PROVE  Region(t, Find(t, <<Begin>>), Find(t, <<End>>))
<1>1. Len(t) \in Nat
  BY DEF IsText
<1>2. IsText(<<Begin>>) /\ Len(<<Begin>>) = 1 /\ IsText(<<End>>) /\ Len(<<End>>) = 1
  <2>1. <<Begin>> \in Seq({Begin}) /\ <<End>> \in Seq({End})
    OBVIOUS
  <2> QED
    BY <2>1 DEF IsText
<1>3. PICK b : b = Find(t, <<Begin>>) /\ b \in Nat /\ Least(Offsets(t, <<Begin>>), b)
  BY <1>2, Found DEF Marked
<1>4. PICK e : e = Find(t, <<End>>) /\ e \in Nat /\ Least(Offsets(t, <<End>>), e)
  BY <1>2, Found DEF Marked
<1>5. Least({i \in 0 .. Len(t) - 1 : t[i + 1] = Begin}, b)
  BY <1>3, OffsetsOfToken
<1>6. Least({i \in 0 .. Len(t) - 1 : t[i + 1] = End}, e)
  BY <1>4, OffsetsOfToken
<1>7. b < Len(t) /\ t[b + 1] = Begin /\ \A i \in 1 .. b : t[i] # Begin
  <2>1. b \in 0 .. Len(t) - 1 /\ t[b + 1] = Begin
    BY <1>5 DEF Least
  <2>2. ASSUME NEW i \in 1 .. b, t[i] = Begin PROVE FALSE
    <3>1. i - 1 \in 0 .. Len(t) - 1 /\ (i - 1) + 1 = i
      BY <1>1, <1>3, <2>1
    <3>2. b <= i - 1
      BY <1>5, <2>2, <3>1 DEF Least
    <3> QED
      BY <1>3, <3>2
  <2> QED
    BY <1>1, <1>3, <2>1, <2>2
<1>8. e < Len(t) /\ t[e + 1] = End /\ \A i \in 1 .. e : t[i] # End
  <2>1. e \in 0 .. Len(t) - 1 /\ t[e + 1] = End
    BY <1>6 DEF Least
  <2>2. ASSUME NEW i \in 1 .. e, t[i] = End PROVE FALSE
    <3>1. i - 1 \in 0 .. Len(t) - 1 /\ (i - 1) + 1 = i
      BY <1>1, <1>4, <2>1
    <3>2. e <= i - 1
      BY <1>6, <2>2, <3>1 DEF Least
    <3> QED
      BY <1>4, <3>2
  <2> QED
    BY <1>1, <1>4, <2>1, <2>2
<1>9. b < e
  BY <1>3, <1>4 DEF Marked
<1> QED
  BY <1>3, <1>4, <1>7, <1>8, <1>9 DEF Region

\* u holds at an offset of d, from m2 to n2, what t holds from m to n.
Shifted(t, m, n, u, m2, n2, d) ==
  /\ IsText(t) /\ IsText(u)
  /\ m \in Nat /\ n \in Nat /\ 1 <= m /\ m <= n + 1 /\ n <= Len(t)
  /\ d \in Int /\ 1 <= m + d /\ n + d <= Len(u) /\ m2 = m + d /\ n2 = n + d
  /\ \A i \in m .. n : u[i + d] = t[i]

SameParts(t, m, n, u, m2, n2) == SubSeq(u, m2, n2) = SubSeq(t, m, n)

LEMMA SamePart ==
  ASSUME NEW t, NEW m, NEW n, NEW u, NEW m2, NEW n2, NEW d, Shifted(t, m, n, u, m2, n2, d)
  PROVE  SameParts(t, m, n, u, m2, n2)
<1>1. /\ IsText(t) /\ IsText(u)
      /\ m \in Nat /\ n \in Nat /\ 1 <= m /\ m <= n + 1 /\ n <= Len(t)
      /\ d \in Int /\ 1 <= m + d /\ n + d <= Len(u) /\ m2 = m + d /\ n2 = n + d
  BY DEF Shifted
<1>2. Len(t) \in Nat /\ Len(u) \in Nat
  BY <1>1 DEF IsText
<1>3. PICK A : t \in Seq(A)
  BY <1>1 DEF IsText
<1>4. PICK C : u \in Seq(C)
  BY <1>1 DEF IsText
<1>5. PICK p, q, k : p = SubSeq(t, m, n) /\ q = SubSeq(u, m2, n2) /\ k = n - m + 1
  OBVIOUS
<1>6. k \in Nat /\ n2 - m2 + 1 = k /\ k = n - m + 1
  BY <1>1, <1>5
<1>7. m \in 1 .. Len(t) + 1 /\ n \in m - 1 .. Len(t)
  BY <1>1, <1>2
<1>8. m2 \in 1 .. Len(u) + 1 /\ n2 \in m2 - 1 .. Len(u)
  BY <1>1, <1>2
<1>9. p \in Seq(A) /\ Len(p) = k /\ \A i \in 1 .. k : p[i] = t[m + i - 1]
  <2>1. /\ p \in Seq(A) /\ Len(p) = n - m + 1
        /\ \A i \in 1 .. n - m + 1 : p[i] = t[m + i - 1]
    BY <1>3, <1>5, <1>7, Part
  <2> QED
    BY <1>6, <2>1
<1>10. q \in Seq(C) /\ Len(q) = k /\ \A i \in 1 .. k : q[i] = u[m2 + i - 1]
  <2>1. /\ q \in Seq(C) /\ Len(q) = n2 - m2 + 1
        /\ \A i \in 1 .. n2 - m2 + 1 : q[i] = u[m2 + i - 1]
    BY <1>4, <1>5, <1>8, Part
  <2> QED
    BY <1>6, <2>1
<1>11. ASSUME NEW i \in 1 .. k PROVE p[i] = q[i]
  <2>1. PICK j : j = m + i - 1
    OBVIOUS
  <2>2. j \in m .. n /\ j + d = m2 + i - 1
    BY <1>1, <1>6, <2>1
  <2>3. u[j + d] = t[j]
    BY <2>2 DEF Shifted
  <2>4. p[i] = t[m + i - 1] /\ q[i] = u[m2 + i - 1]
    BY <1>9, <1>10
  <2> QED
    BY <2>1, <2>2, <2>3, <2>4
<1>12. p = q
  <2>1. p = [i \in 1 .. k |-> p[i]] /\ q = [i \in 1 .. k |-> q[i]]
    BY <1>6, <1>9, <1>10
  <2> QED
    BY <1>11, <2>1
<1> QED
  BY <1>5, <1>12 DEF SameParts

LEMMA GuardedContent ==
  ASSUME NEW t, NEW g, Guards(t, g)
  PROVE  ProtectedContent(t) = g
BY RegionFound DEF Guards, Guarded

\* The edits before the region of a text leave the region as it is.
Clean(c) == IsText(c) /\ ~HasMarker(c)

LEMMA CleanTokens ==
  ASSUME NEW c, Clean(c)
  PROVE  \A i \in 1 .. Len(c) : c[i] # Begin /\ c[i] # End
<1>1. DOMAIN c = 1 .. Len(c)
  BY DEF Clean, IsText
<1>2. ASSUME NEW i \in 1 .. Len(c) PROVE c[i] \in ToSet(c)
  BY <1>1 DEF ToSet
<1>3. Begin \notin ToSet(c) /\ End \notin ToSet(c)
  BY DEF Clean, HasMarker
<1> QED
  BY <1>2, <1>3

\* u is s, of length n, and then z, of length m.
Joins(u, s, n, z, m) ==
  /\ Len(u) = n + m
  /\ \A i \in 1 .. n : u[i] = s[i]
  /\ \A i \in 1 .. m : u[n + i] = z[i]

LEMMA Joined ==
  ASSUME NEW T, NEW s \in Seq(T), NEW z \in Seq(T),
         NEW n, n = Len(s), NEW m, m = Len(z), NEW u, u = s \o z
  PROVE  u \in Seq(T) /\ Joins(u, s, n, z, m)
<1>1. n \in Nat /\ m \in Nat
  OBVIOUS
<1>2. /\ u \in Seq(T) /\ Len(u) = n + m
      /\ \A i \in 1 .. n + m : u[i] = IF i <= n THEN s[i] ELSE z[i - n]
  BY ConcatProperties
<1>3. ASSUME NEW i \in 1 .. n PROVE u[i] = s[i]
  <2>1. i \in 1 .. n + m /\ i <= n
    BY <1>1
  <2> QED
    BY <1>2, <2>1
<1>4. ASSUME NEW i \in 1 .. m PROVE u[n + i] = z[i]
  <2>1. PICK k : k = n + i /\ k \in 1 .. n + m /\ ~(k <= n) /\ k - n = i
    BY <1>1
  <2> QED
    BY <1>2, <2>1
<1> QED
  BY <1>2, <1>3, <1>4 DEF Joins

\* What a splice puts where: k tokens of c, and those of t with an offset of d.
SpliceOf(u, t, from, to, c, k, d) ==
  /\ Len(u) = Len(t) + d
  /\ \A i \in 1 .. from : u[i] = t[i]
  /\ \A i \in 1 .. k : u[from + i] = c[i]
  /\ \A i \in to + 1 .. Len(t) : u[i + d] = t[i]

LEMMA Spliced ==
  ASSUME NEW t, IsText(t), NEW c, IsText(c), NEW k, k = Len(c),
         NEW from \in 0 .. Len(t), NEW to \in 0 .. Len(t), NEW d, d = from + k - to,
         NEW u, u = Splice(t, from, to, c)
  PROVE  IsText(u) /\ SpliceOf(u, t, from, to, c, k, d)
<1>1. PICK T : t \in Seq(T) /\ c \in Seq(T)
  <2>1. PICK A : t \in Seq(A)
    BY DEF IsText
  <2>2. PICK C : c \in Seq(C)
    BY DEF IsText
  <2>3. t \in Seq(A \cup C) /\ c \in Seq(A \cup C)
    BY <2>1, <2>2
  <2> QED
    BY <2>3
<1>2. Len(t) \in Nat /\ Len(c) \in Nat
  BY <1>1
<1>3. PICK front : front = SubSeq(t, 1, from) /\ front \in Seq(T) /\ Len(front) = from
                   /\ \A i \in 1 .. from : front[i] = t[i]
  <2>1. PICK p : p = SubSeq(t, 1, from)
    OBVIOUS
  <2>2. 1 \in 1 .. Len(t) + 1 /\ from \in 1 - 1 .. Len(t) /\ from - 1 + 1 = from
    BY <1>2
  <2>3. /\ p \in Seq(T) /\ Len(p) = from - 1 + 1
        /\ \A i \in 1 .. from - 1 + 1 : p[i] = t[1 + i - 1]
    BY <1>1, <2>1, <2>2, Part
  <2>4. \A i \in 1 .. from : 1 + i - 1 = i
    OBVIOUS
  <2>5. \A i \in 1 .. from : p[i] = t[i]
    BY <2>2, <2>3, <2>4
  <2> QED
    BY <2>1, <2>2, <2>3, <2>5
<1>4. PICK back : back = SubSeq(t, to + 1, Len(t)) /\ back \in Seq(T)
                  /\ Len(back) = Len(t) - to
                  /\ \A i \in to + 1 .. Len(t) : back[i - to] = t[i]
  <2>1. PICK p, m, n : m = to + 1 /\ n = Len(t) /\ p = SubSeq(t, m, n)
    OBVIOUS
  <2>2. m \in 1 .. Len(t) + 1 /\ n \in m - 1 .. Len(t) /\ n - m + 1 = n - to
    BY <1>2, <2>1
  <2>3. /\ p \in Seq(T) /\ Len(p) = n - m + 1
        /\ \A i \in 1 .. n - m + 1 : p[i] = t[m + i - 1]
    BY <1>1, <2>1, <2>2, Part
  <2>4. ASSUME NEW i \in to + 1 .. n PROVE p[i - to] = t[i]
    <3>1. i - to \in 1 .. n - m + 1 /\ m + (i - to) - 1 = i
      BY <1>2, <2>1
    <3> QED
      BY <2>3, <3>1
  <2> QED
    BY <2>1, <2>2, <2>3, <2>4
<1>5. PICK m, j : m = from + k /\ j = Len(t) - to
  OBVIOUS
<1>6. /\ m = from + k /\ j = Len(t) - to
      /\ k \in Nat /\ m \in Nat /\ j \in Nat /\ from \in Nat
  BY <1>5, <1>2
<1>7. PICK mid : mid = front \o c
  OBVIOUS
<1>8. mid \in Seq(T) /\ Joins(mid, front, from, c, k)
  BY <1>1, <1>3, <1>7, Joined
<1>9. Len(mid) = m
  BY <1>6, <1>8 DEF Joins
<1>10. u = mid \o back
  BY <1>3, <1>4, <1>7 DEF Splice
<1>11. u \in Seq(T) /\ Joins(u, mid, m, back, j)
  BY <1>4, <1>6, <1>8, <1>9, <1>10, Joined
<1>12. ASSUME NEW i \in 1 .. from PROVE u[i] = t[i]
  <2>1. i \in 1 .. m
    BY <1>6
  <2> QED
    BY <1>3, <1>8, <1>11, <2>1 DEF Joins
<1>13. ASSUME NEW i \in 1 .. k PROVE u[from + i] = c[i]
  <2>1. from + i \in 1 .. m
    BY <1>6
  <2> QED
    BY <1>8, <1>11, <2>1 DEF Joins
<1>14. ASSUME NEW i \in to + 1 .. Len(t) PROVE u[i + d] = t[i]
  <2>1. PICK x : x = i - to
    OBVIOUS
  <2>2. x \in 1 .. j /\ m + x = i + d
    BY <1>2, <1>6, <2>1
  <2>3. u[m + x] = back[x]
    BY <1>11, <2>2 DEF Joins
  <2> QED
    BY <1>4, <2>1, <2>2, <2>3
<1>15. Len(u) = Len(t) + d
  <2>1. Len(u) = m + j
    BY <1>11 DEF Joins
  <2> QED
    BY <1>2, <1>6, <2>1
<1> QED
  BY <1>11, <1>12, <1>13, <1>14, <1>15 DEF SpliceOf, IsText

LEMMA SpliceBefore ==
  ASSUME NEW t, NEW b, NEW e, NEW g, Guarded(t, b, e, g), NEW c, Clean(c),
         NEW from \in 0 .. b, NEW to \in 0 .. b, NEW u, u = Splice(t, from, to, c)
  PROVE  Guards(u, g)
<1> DEFINE d == from + Len(c) - to
<1>1. Region(t, b, e)
  BY DEF Guarded
<1>2. /\ b \in Nat /\ e \in Nat /\ b < e /\ e < Len(t) /\ Len(t) \in Nat /\ IsText(t)
      /\ t[b + 1] = Begin /\ t[e + 1] = End
      /\ \A i \in 1 .. b : t[i] # Begin
      /\ \A i \in 1 .. e : t[i] # End
  BY <1>1 DEF Region, IsText
<1>3. b \in Nat /\ e \in Nat /\ b < e /\ e < Len(t) /\ Len(t) \in Nat
  BY <1>2
<1>4. PICK k \in Nat : IsText(c) /\ k = Len(c)
  BY DEF Clean, IsText
<1>5. \A i \in 1 .. k : c[i] # Begin /\ c[i] # End
  BY <1>4, CleanTokens
<1>6. from \in 0 .. Len(t) /\ to \in 0 .. Len(t) /\ d = from + k - to
  BY <1>2, <1>4
<1> HIDE DEF d
<1>7. IsText(u) /\ SpliceOf(u, t, from, to, c, k, d)
  BY <1>2, <1>4, <1>6, Spliced
<1>8. /\ \A i \in 1 .. from : u[i] = t[i]
      /\ \A i \in 1 .. k : u[from + i] = c[i]
      /\ \A i \in to + 1 .. Len(t) : u[i + d] = t[i]
  BY <1>7 DEF SpliceOf
<1>9. d \in Int /\ Len(u) = Len(t) + d /\ b + d \in Nat /\ e + d \in Nat
  <2>1. from \in Nat /\ to \in Nat /\ to <= b /\ from <= b
    BY <1>2
  <2>2. d \in Int /\ b + d \in Nat /\ e + d \in Nat
    BY <1>2, <1>4, <1>6, <2>1
  <2> QED
    BY <1>7, <2>2 DEF SpliceOf
\* Every token before the last marker is an old one or one of the content.
<1>10. ASSUME NEW i \in 1 .. e + d
       PROVE  \/ i \in 1 .. from /\ u[i] = t[i]
              \/ i - from \in 1 .. k /\ u[i] = c[i - from]
              \/ i - d \in to + 1 .. e /\ u[i] = t[i - d]
  <2>1. CASE i <= from
    BY <1>8, <2>1
  <2>2. CASE i > from /\ i <= from + k
    <3>1. i - from \in 1 .. k /\ from + (i - from) = i
      BY <1>2, <1>4, <2>2
    <3> QED
      BY <1>8, <3>1
  <2>3. CASE i > from + k
    <3>1. i - d \in to + 1 .. e /\ i - d \in to + 1 .. Len(t) /\ (i - d) + d = i
      BY <1>2, <1>6, <1>9, <2>3
    <3> QED
      BY <1>8, <3>1
  <2> QED
    BY <1>2, <1>4, <2>1, <2>2, <2>3
<1>11. \A i \in 1 .. e + d : u[i] # End
  <2> SUFFICES ASSUME NEW i \in 1 .. e + d PROVE u[i] # End
    OBVIOUS
  <2>1. i \in 1 .. from => i \in 1 .. e
    BY <1>2
  <2>2. i - d \in to + 1 .. e => i - d \in 1 .. e
    BY <1>2
  <2> QED
    BY <1>2, <1>5, <1>10, <2>1, <2>2
<1>12. \A i \in 1 .. b + d : u[i] # Begin
  <2> SUFFICES ASSUME NEW i \in 1 .. b + d PROVE u[i] # Begin
    OBVIOUS
  <2>1. i \in 1 .. e + d
    BY <1>2, <1>9
  <2>2. i \in 1 .. from => i \in 1 .. b
    BY <1>2
  <2>3. i - d \in to + 1 .. e => i - d \in 1 .. b
    BY <1>2, <1>9
  <2> QED
    BY <1>2, <1>5, <1>10, <2>1, <2>2, <2>3
<1>13. u[(b + d) + 1] = Begin /\ u[(e + d) + 1] = End
  <2>1. /\ b + 1 \in to + 1 .. Len(t) /\ (b + 1) + d = (b + d) + 1
        /\ e + 1 \in to + 1 .. Len(t) /\ (e + 1) + d = (e + d) + 1
    BY <1>2, <1>9
  <2>2. u[(b + 1) + d] = Begin /\ u[(e + 1) + d] = End
    BY <1>2, <1>8, <2>1
  <2> QED
    BY <2>1, <2>2
<1>14. Region(u, b + d, e + d)
  <2>1. b + d < e + d /\ e + d < Len(u)
    BY <1>2, <1>9
  <2> QED
    BY <1>7, <1>9, <1>11, <1>12, <1>13, <2>1 DEF Region
<1>15. SubSeq(u, (b + d) + 2, e + d) = SubSeq(t, b + 2, e)
  <2>1. PICK m, m2, n2 : m = b + 2 /\ m2 = (b + d) + 2 /\ n2 = e + d
    OBVIOUS
  <2>2. m \in Nat /\ 1 <= m /\ m <= e + 1 /\ e <= Len(t) /\ 1 <= m + d /\ e + d <= Len(u)
    <3>1. m \in Nat /\ 1 <= m /\ m <= e + 1 /\ e <= Len(t)
      BY <1>3, <2>1
    <3>2. 1 <= m + d
      BY <1>3, <1>9, <2>1
    <3>3. e + d <= Len(u)
      BY <1>3, <1>9
    <3> QED
      BY <3>1, <3>2, <3>3
  <2>3. m2 = m + d
    BY <1>2, <1>9, <2>1
  <2>4. Shifted(t, m, e, u, m2, n2, d)
    <3>1. IsText(t) /\ IsText(u)
      BY <1>2, <1>7
    <3> SUFFICES ASSUME NEW i \in m .. e PROVE u[i + d] = t[i]
      BY <1>3, <1>9, <2>1, <2>2, <2>3, <3>1 DEF Shifted
    <3>2. i \in to + 1 .. Len(t)
      BY <1>3, <2>1
    <3> QED
      BY <1>8, <3>2
  <2>5. SameParts(t, m, e, u, m2, n2)
    BY <2>4, SamePart
  <2> QED
    BY <2>1, <2>5 DEF SameParts
<1> QED
  BY <1>9, <1>14, <1>15 DEF Guards, Guarded

\* A slow update gives the region its guidance.
LEMMA SpliceRegion ==
  ASSUME NEW t, NEW g, Guards(t, g), NEW c, Clean(c), NEW u, u = ReplaceProtected(t, c)
  PROVE  Guards(u, c)
<1>1. PICK b, e \in Nat : Region(t, b, e)
  BY DEF Guards, Guarded
<1>2. /\ b \in Nat /\ e \in Nat /\ b < e /\ e < Len(t) /\ Len(t) \in Nat /\ IsText(t)
      /\ \A i \in 1 .. b : t[i] # Begin
      /\ \A i \in 1 .. e : t[i] # End
  BY <1>1 DEF Region, IsText
<1>3. PICK C : c \in Seq(C)
  BY DEF Clean, IsText
<1>4. b \in Nat /\ e \in Nat /\ b < e /\ e < Len(t) /\ Len(t) \in Nat
  BY <1>2
<1>5. PICK k \in Nat : c \in Seq(C) /\ k = Len(c)
  BY <1>3
<1>6. \A i \in 1 .. k : c[i] # Begin /\ c[i] # End
  BY <1>5, CleanTokens
<1>7. PICK w : w = <<Begin>> \o c \o <<End>>
  OBVIOUS
<1>8. /\ IsText(w) /\ Len(w) = k + 2 /\ w[1] = Begin /\ w[k + 2] = End
      /\ \A i \in 1 .. k : w[1 + i] = c[i]
  <2>1. PICK W : W = C \cup {Begin, End}
    OBVIOUS
  <2>2. c \in Seq(W) /\ <<Begin>> \in Seq(W) /\ <<End>> \in Seq(W)
    BY <1>5, <2>1
  <2>3. PICK v : v = <<Begin>> \o c
    OBVIOUS
  <2>4. PICK x, y, l : x = <<Begin>> /\ y = <<End>> /\ l = 1 + k
    OBVIOUS
  <2>5. /\ x \in Seq(W) /\ y \in Seq(W) /\ x[1] = Begin /\ y[1] = End
        /\ Len(x) = 1 /\ Len(y) = 1 /\ l \in Nat /\ l = 1 + k
    BY <1>5, <2>2, <2>4
  <2>6. v = x \o c /\ w = v \o y
    BY <1>7, <2>3, <2>4
  <2>7. v \in Seq(W) /\ Joins(v, x, 1, c, k)
    BY <1>5, <2>2, <2>5, <2>6, Joined
  <2>8. /\ v \in Seq(W) /\ Len(v) = l
        /\ \A i \in 1 .. 1 : v[i] = x[i]
        /\ \A i \in 1 .. k : v[1 + i] = c[i]
    BY <2>7, <2>5 DEF Joins
  <2>9. w \in Seq(W) /\ Joins(w, v, l, y, 1)
    BY <2>5, <2>6, <2>8, Joined
  <2>10. /\ w \in Seq(W) /\ Len(w) = l + 1
         /\ \A i \in 1 .. l : w[i] = v[i]
         /\ \A i \in 1 .. 1 : w[l + i] = y[i]
    BY <2>9 DEF Joins
  <2>11. w[1] = Begin /\ w[k + 2] = End
    <3>1. 1 \in 1 .. 1 /\ 1 \in 1 .. l /\ l + 1 = k + 2
      BY <1>5, <2>5
    <3> QED
      BY <2>5, <2>8, <2>10, <3>1
  <2>12. ASSUME NEW i \in 1 .. k PROVE w[1 + i] = c[i]
    <3>1. 1 + i \in 1 .. l
      BY <1>5, <2>5
    <3> QED
      BY <2>8, <2>10, <3>1
  <2>13. l + 1 = k + 2
    BY <1>5, <2>5
  <2> QED
    BY <2>10, <2>11, <2>12, <2>13 DEF IsText
<1>9. u = Splice(t, b, e + 1, w)
  BY <1>1, <1>7, RegionFound DEF ReplaceProtected
<1>10. /\ IsText(u)
       /\ Len(u) = Len(t) + (b + (k + 2) - (e + 1))
       /\ \A i \in 1 .. b : u[i] = t[i]
       /\ \A i \in 1 .. k + 2 : u[b + i] = w[i]
  <2>1. PICK to, l, d : to = e + 1 /\ l = k + 2 /\ d = b + l - to
    OBVIOUS
  <2>2. to \in 0 .. Len(t) /\ b \in 0 .. Len(t) /\ u = Splice(t, b, to, w) /\ l = Len(w)
    BY <1>2, <1>8, <1>9, <2>1
  <2>3. IsText(u) /\ SpliceOf(u, t, b, to, w, l, d)
    BY <1>2, <1>8, <2>1, <2>2, Spliced
  <2> QED
    BY <2>1, <2>3 DEF SpliceOf
<1>11. u[b + 1] = Begin /\ u[(b + 1 + k) + 1] = End
  <2>1. 1 \in 1 .. k + 2 /\ k + 2 \in 1 .. k + 2 /\ b + (k + 2) = (b + 1 + k) + 1
    BY <1>2, <1>5, <1>8
  <2>2. u[b + 1] = w[1] /\ u[b + (k + 2)] = w[k + 2]
    BY <1>10, <2>1
  <2> QED
    BY <1>8, <2>1, <2>2
<1>12. ASSUME NEW i \in 1 .. k PROVE u[(b + 1) + i] = c[i]
  <2>1. 1 + i \in 1 .. k + 2 /\ b + (1 + i) = (b + 1) + i
    BY <1>2, <1>5, <1>8
  <2> QED
    BY <1>8, <1>10, <2>1
<1>13. \A i \in 1 .. b : u[i] # Begin
  BY <1>2, <1>10
<1>14. \A i \in 1 .. b + 1 + k : u[i] # End
  <2> SUFFICES ASSUME NEW i \in 1 .. b + 1 + k PROVE u[i] # End
    OBVIOUS
  <2>1. CASE i \in 1 .. b
    <3>1. i \in 1 .. e
      BY <1>2, <2>1
    <3>2. t[i] # End
      BY <1>2, <3>1
    <3>3. u[i] = t[i]
      BY <1>10, <2>1
    <3> QED
      BY <3>2, <3>3
  <2>2. CASE i = b + 1
    BY <1>11, <2>2 DEF Begin, End
  <2>3. CASE i \in b + 2 .. b + 1 + k
    <3>1. PICK j \in 1 .. k : i = (b + 1) + j
      <4>1. i - (b + 1) \in 1 .. k /\ i = (b + 1) + (i - (b + 1))
        BY <1>2, <1>5, <2>3
      <4> QED
        BY <4>1
    <3> QED
      BY <1>6, <1>12, <3>1
  <2> QED
    BY <1>2, <1>5, <2>1, <2>2, <2>3
<1>15. Region(u, b, b + 1 + k)
  <2>1. b < b + 1 + k /\ b + 1 + k < Len(u) /\ b + 1 + k \in Nat
    BY <1>2, <1>5, <1>8, <1>10
  <2> QED
    BY <1>2, <1>10, <1>11, <1>13, <1>14, <2>1 DEF Region
<1>16. SubSeq(u, b + 2, b + 1 + k) = c
  <2>1. PICK m, n, d : m = b + 2 /\ n = b + 1 + k /\ d = b + 1
    OBVIOUS
  <2>2. /\ 1 \in Nat /\ d \in Int /\ 1 <= k + 1 /\ k <= Len(c) /\ 1 <= 1 + d
        /\ m = 1 + d /\ n = k + d /\ 1 <= 1
    BY <1>2, <1>5, <2>1
  <2>3. k + d <= Len(u)
    BY <1>2, <1>5, <1>15, <2>1 DEF Region
  <2>4. Shifted(c, 1, k, u, m, n, d)
    <3>1. IsText(c) /\ IsText(u)
      BY <1>10 DEF Clean
    <3> SUFFICES ASSUME NEW i \in 1 .. k PROVE u[i + d] = c[i]
      BY <1>5, <2>2, <2>3, <3>1 DEF Shifted
    <3>2. i + d = (b + 1) + i
      BY <1>2, <2>1
    <3> QED
      BY <1>12, <3>2
  <2>5. SameParts(c, 1, k, u, m, n)
    BY <2>4, SamePart
  <2>6. SubSeq(u, m, n) = SubSeq(c, 1, k)
    BY <2>5 DEF SameParts
  <2>7. SubSeq(c, 1, k) = c
    BY <1>5, SubSeqFull
  <2> QED
    BY <2>1, <2>6, <2>7
<1>17. b + 1 + k \in Nat
  BY <1>5, <1>4
<1> QED
  BY <1>15, <1>16, <1>17 DEF Guards, Guarded

-------------------------------------------------------------------------------
(* Anchors and edits.                                                        *)

\* The kept tokens of a text that has any: at least the first.
LEMMA KeptFacts ==
  ASSUME NEW t, IsText(t)
  PROVE  Kept(t) \in Seq(1 .. Len(t)) /\ (t # <<>> => Len(Kept(t)) # 0)
<1>1. PICK n \in Nat : n = Len(t)
  BY DEF IsText
<1> DEFINE E == 1 .. n
           D == Seq(E)
           One(i) == IF Follows(t, i) THEN <<>> ELSE <<i>>
           move == [x \in E \X D |-> x[2] \o One(x[1])]
           F(g, i) == IF i = 0 THEN <<>> ELSE g[i - 1] \o One(i)
<1>2. ASSUME NEW i \in E PROVE One(i) \in D
  <2>1. <<>> \in Seq(E) /\ <<i>> \in Seq(E)
    <3> HIDE DEF E
    <3> QED
      OBVIOUS
  <2> QED
    BY <2>1
<1>3. \A i \in E : \A s \in D : s \o One(i) \in D /\ Len(s \o One(i)) = Len(s) + Len(One(i))
  <2> SUFFICES ASSUME NEW i \in E, NEW s \in D
               PROVE  s \o One(i) \in D /\ Len(s \o One(i)) = Len(s) + Len(One(i))
    OBVIOUS
  <2>1. PICK z : z = One(i)
    OBVIOUS
  <2>2. z \in Seq(E) /\ s \in Seq(E)
    BY <1>2, <2>1
  <2> HIDE DEF E, One
  <2>3. s \o z \in Seq(E) /\ Len(s \o z) = Len(s) + Len(z)
    BY <2>2, ConcatProperties
  <2> QED
    BY <2>1, <2>3
<1>4. <<>> \in D
  OBVIOUS
<1>5. ~Follows(t, 1)
  BY DEF Follows
<1>6. n # 0 => Len(One(1)) = 1
  BY <1>5
<1>7. \A i \in E : \A s \in D : move[<<i, s>>] = s \o One(i)
  OBVIOUS
<1>8. E = 1 .. n
  OBVIOUS
<1> HIDE DEF One
<1>9. Kept(t) = LET kept[i \in 0 .. n] == F(kept, i) IN kept[n]
  BY <1>1 DEF Kept, One
<1> HIDE DEF move, D
<1>10. PICK g \in [0 .. n -> D] : g[0] = <<>> /\ \A i \in 1 .. n : g[i] = move[<<i, g[i - 1]>>]
  <2>1. PICK b : b = <<>> /\ MovesIn(n, D, b, move)
    BY <1>3, <1>4, <1>7, <1>8 DEF MovesIn
  <2>2. \E g \in [0 .. n -> D] : g[0] = b /\ \A i \in 1 .. n : g[i] = move[<<i, g[i - 1]>>]
    BY <2>1, Recursion
  <2> QED
    BY <2>1, <2>2
<1> HIDE DEF E
<1>11. \A i \in 0 .. n : g[i] = F(g, i)
  <2>1. g[0] = F(g, 0)
    BY <1>10
  <2> SUFFICES ASSUME NEW i \in 1 .. n PROVE g[i] = F(g, i)
    <3> HIDE DEF F
    <3>1. \A i \in 0 .. n : i = 0 \/ i \in 1 .. n
      OBVIOUS
    <3> QED
      BY <2>1, <3>1
  <2>2. i - 1 \in 0 .. n /\ i # 0
    OBVIOUS
  <2>3. g[i - 1] \in D
    BY <2>2
  <2> QED
    BY <1>7, <1>8, <1>10, <2>2, <2>3
<1> HIDE DEF F
<1>12. g = [i \in 0 .. n |-> F(g, i)]
  BY <1>11
<1>13. PICK f : f = CHOOSE h : h = [i \in 0 .. n |-> F(h, i)]
  OBVIOUS
<1>14. f = [i \in 0 .. n |-> F(f, i)]
  BY <1>12, <1>13
<1>15. Kept(t) = f[n]
  BY <1>9, <1>13
<1> DEFINE S == {i \in 0 .. n : f[i] \in D /\ (i # 0 => Len(f[i]) # 0)}
<1>16. 0 \in S
  BY <1>4, <1>14 DEF F
<1>17. ASSUME NEW m \in 0 .. n - 1, m \in S PROVE m + 1 \in S
  <2>1. m + 1 \in 1 .. n /\ (m + 1) - 1 = m /\ m + 1 # 0 /\ m + 1 \in 0 .. n
    OBVIOUS
  <2>2. f[m + 1] = F(f, m + 1)
    BY <1>14, <2>1
  <2>3. PICK s \in D : s = f[m] /\ (m # 0 => Len(s) # 0)
    BY <1>17
  <2>4. f[m + 1] = s \o One(m + 1)
    BY <2>1, <2>2, <2>3 DEF F
  <2>5. f[m + 1] \in D /\ Len(f[m + 1]) = Len(s) + Len(One(m + 1))
    BY <1>3, <1>8, <2>1, <2>4
  <2>6. Len(s) \in Nat /\ Len(One(m + 1)) \in Nat
    <3>1. One(m + 1) \in D
      BY <1>2, <1>8, <2>1
    <3> QED
      BY <3>1 DEF D
  <2>7. m = 0 => Len(One(m + 1)) = 1
    BY <1>6, <2>1
  <2>8. Len(f[m + 1]) # 0
    <3>1. PICK x, y \in Nat : x = Len(s) /\ y = Len(One(m + 1))
      BY <2>6
    <3>2. Len(f[m + 1]) = x + y /\ (m # 0 => x # 0) /\ (m = 0 => y = 1)
      BY <2>3, <2>5, <2>7, <3>1
    <3> QED
      BY <3>2
  <2> QED
    BY <2>1, <2>5, <2>8
<1>18. \A m \in 0 .. n : m \in S
  <2> HIDE DEF S
  <2> QED
    BY <1>16, <1>17, AllUpTo
<1>19. f[n] \in D /\ (n # 0 => Len(f[n]) # 0)
  BY <1>18
<1>20. t # <<>> => n # 0
  BY <1>1 DEF IsText
<1> QED
  BY <1>1, <1>8, <1>15, <1>19, <1>20 DEF D

LEMMA NormalizedFacts ==
  ASSUME NEW t, IsText(t)
  PROVE  /\ IsText(Normalized(t)) /\ Len(Normalized(t)) = Len(Kept(t))
         /\ t # <<>> => Len(Normalized(t)) \in Nat \ {0}
<1>1. PICK k : k = Kept(t)
  OBVIOUS
<1>2. k \in Seq(1 .. Len(t)) /\ (t # <<>> => Len(k) # 0)
  BY <1>1, KeptFacts
<1>3. PICK n \in Nat : n = Len(k) /\ DOMAIN k = 1 .. n
  BY <1>2
<1> DEFINE N(i) == IF t[k[i]] \in Blanks THEN "sp" ELSE t[k[i]]
           T == {N(i) : i \in 1 .. n}
<1>4. Normalized(t) = [i \in 1 .. n |-> N(i)]
  BY <1>1, <1>3 DEF Normalized
<1> HIDE DEF N
<1>5. Normalized(t) \in [1 .. n -> T]
  BY <1>4
<1> HIDE DEF T
<1>6. Normalized(t) \in Seq(T) /\ Len(Normalized(t)) = n
  BY <1>5
<1> QED
  BY <1>1, <1>2, <1>3, <1>6 DEF IsText

LEMMA AnchorsInText ==
  ASSUME NEW t, IsText(t), NEW target, IsText(target), NEW a \in Anchors(t, target)
  PROVE  a.start \in 0 .. Len(t) /\ a.end \in 0 .. Len(t)
<1>1. Len(t) \in Nat /\ Len(target) \in Nat /\ target # <<>>
  BY DEF IsText, Anchors
<1>2. CASE Occurs(t, target)
  <2>1. a.start = Find(t, target) /\ a.end = Find(t, target) + Len(target)
    BY <1>1, <1>2 DEF Anchors
  <2>2. Find(t, target) \in Nat /\ Find(t, target) + Len(target) <= Len(t)
    BY <1>2, Found
  <2> QED
    BY <1>1, <2>1, <2>2
<1>3. CASE ~Occurs(t, target)
  <2>1. PICK norm, wanted, starts :
           norm = Normalized(t) /\ wanted = Normalized(target) /\ starts = Kept(t)
    OBVIOUS
  <2>2. PICK first, after : first = Find(norm, wanted) /\ after = first + Len(wanted) + 1
    OBVIOUS
  <2>3. /\ Occurs(norm, wanted)
        /\ a.start = starts[first + 1] - 1
        /\ a.end = IF after <= Len(starts) THEN starts[after] - 1 ELSE Len(t)
    <3>1. a \in LooseAnchors(t, starts, norm, wanted)
      BY <1>1, <1>3, <2>1 DEF Anchors
    <3> QED
      BY <2>2, <3>1 DEF LooseAnchors
  <2>4. IsText(norm) /\ Len(norm) = Len(starts) /\ starts \in Seq(1 .. Len(t))
    BY <2>1, KeptFacts, NormalizedFacts
  <2>5. IsText(wanted) /\ Len(wanted) \in Nat \ {0}
    BY <1>1, <2>1, NormalizedFacts
  <2>6. first \in Nat /\ first + Len(wanted) <= Len(norm)
    BY <2>2, <2>3, <2>4, <2>5, Found
  <2>7. PICK n \in Nat : n = Len(starts) /\ \A i \in 1 .. n : starts[i] \in 1 .. Len(t)
    BY <2>4
  <2>8. first + 1 \in 1 .. n /\ (after <= n => after \in 1 .. n)
    BY <2>2, <2>4, <2>5, <2>6, <2>7
  <2>9. starts[first + 1] \in 1 .. Len(t) /\ (after <= n => starts[after] \in 1 .. Len(t))
    BY <2>7, <2>8
  <2>10. a.start \in 0 .. Len(t)
    BY <1>1, <2>3, <2>9
  <2>11. a.end \in 0 .. Len(t)
    BY <1>1, <2>3, <2>7, <2>9
  <2> QED
    BY <2>10, <2>11
<1> QED
  BY <1>2, <1>3

NiceEdit(e) ==
  /\ e.op \in {"Append", "InsertAfter", "Replace", "Delete"}
  /\ IsText(e.target) /\ IsText(e.content)

LEMMA NotSkipped ==
  ASSUME NEW t, NEW edit, Skip(t, edit) = "no", edit.op # "Append"
  PROVE  /\ Anchors(t, edit.target) # {}
         /\ \A a \in Anchors(t, edit.target) : ~Refused(a, t)
BY DEF Skip

\* An edit that is not skipped and does not break the region leaves it as it is.
LEMMA EditedKeeps ==
  ASSUME NEW t, NEW g, Guards(t, g), NEW edit, NiceEdit(edit),
         Skip(t, edit) = "no", ~Breaks(t, edit), NEW u, u = Edited(t, edit)
  PROVE  Guards(u, g)
<1>1. PICK b, e \in Nat : Guarded(t, b, e, g)
  BY DEF Guards
<1>2. Region(t, b, e) /\ IsText(t) /\ EditableEnd(t) = b
  <2>1. Region(t, b, e)
    BY <1>1 DEF Guarded
  <2> QED
    BY <2>1, RegionFound DEF Region
<1>3. edit.op # "Delete" => Clean(edit.content)
  BY DEF Breaks, Clean, NiceEdit
<1>4. b \in 0 .. b
  OBVIOUS
<1>5. CASE edit.op = "Append"
  <2>1. u = Splice(t, b, b, edit.content)
    BY <1>2, <1>5 DEF Edited
  <2> QED
    BY <1>1, <1>3, <1>4, <1>5, <2>1, SpliceBefore
<1>6. CASE edit.op # "Append"
  <2>1. PICK a : a = CHOOSE x \in Anchors(t, edit.target) : TRUE
    OBVIOUS
  <2>2. a \in Anchors(t, edit.target)
    BY <1>6, <2>1, NotSkipped
  <2>3. a.start \in 0 .. Len(t) /\ a.end \in 0 .. Len(t)
    BY <1>2, <2>2, AnchorsInText DEF NiceEdit
  <2>4. ~(a.start >= b) /\ ~(a.start < b /\ b < a.end)
    <3>1. ~Refused(a, t)
      BY <1>6, <2>2, NotSkipped
    <3>2. ~(a.start < EditableEnd(t) /\ EditableEnd(t) < a.end)
      BY <1>6, <2>2 DEF Breaks
    <3> QED
      BY <1>2, <3>1, <3>2 DEF Refused
  <2>5. a.start \in 0 .. b /\ a.end \in 0 .. b
    <3>1. Len(t) \in Nat
      BY <1>2 DEF IsText
    <3> QED
      BY <2>3, <2>4, <3>1
  <2>6. CASE edit.op = "InsertAfter"
    <3>1. u = Splice(t, a.end, a.end, edit.content)
      BY <2>1, <2>6 DEF Edited
    <3> QED
      BY <1>1, <1>3, <2>5, <2>6, <3>1, SpliceBefore
  <2>7. CASE edit.op = "Replace"
    <3>1. u = Splice(t, a.start, a.end, edit.content)
      BY <2>1, <2>7 DEF Edited
    <3> QED
      BY <1>1, <1>3, <2>5, <2>7, <3>1, SpliceBefore
  <2>8. CASE edit.op = "Delete"
    <3>1. PICK c : c = <<>>
      OBVIOUS
    <3>2. u = Splice(t, a.start, a.end, c)
      BY <2>1, <2>8, <3>1 DEF Edited
    <3>3. Clean(c)
      <4>1. c \in Seq({}) /\ ToSet(c) = {}
        BY <3>1 DEF ToSet
      <4> QED
        BY <4>1 DEF Clean, IsText, HasMarker
    <3> QED
      BY <1>1, <2>5, <3>2, <3>3, SpliceBefore
  <2> QED
    BY <1>6, <2>6, <2>7, <2>8 DEF NiceEdit
<1> QED
  BY <1>5, <1>6

LEMMA WalkGuards ==
  ASSUME NEW before, NEW g, Guards(before, g), NEW edits, Len(edits) \in Nat,
         \A k \in 1 .. Len(edits) : NiceEdit(edits[k]), NEW limit \in Nat,
         NEW w, w = Walk(before, edits, limit)
  PROVE  ~w.broken => Guards(w.text, g)
<1> DEFINE n == Len(edits)
           walks == Walks(before, edits, limit)
           S == {i \in 0 .. n : ~walks[i].broken => Guards(walks[i].text, g)}
<1>1. /\ \A i \in 1 .. n : walks[i] = WalkOn(walks[i - 1], edits, i, limit)
      /\ walks[0] = NewWalk(before)
  BY WalkSteps
<1>2. \A i \in 0 .. n : WalkOK(walks[i], n, i, limit)
  BY WalksOK
<1>3. n \in Nat /\ w = walks[n] /\ \A k \in 1 .. n : NiceEdit(edits[k])
  BY DEF Walk
<1> HIDE DEF walks, n
<1>4. 0 \in S
  <2>1. walks[0].text = before
    BY <1>1 DEF NewWalk
  <2> QED
    BY <1>3, <2>1
<1>5. ASSUME NEW m \in 0 .. n - 1, m \in S PROVE m + 1 \in S
  <2>1. PICK i \in 1 .. n : i = m + 1 /\ i - 1 = m /\ i \in 0 .. n /\ m \in 0 .. n
    BY <1>3
  <2>2. PICK x : x = walks[m]
    OBVIOUS
  <2>3. PICK y : y = walks[i]
    OBVIOUS
  <2>4. y = WalkOn(x, edits, i, limit) /\ WalkType(x, n)
    BY <1>1, <1>2, <2>1, <2>2, <2>3 DEF WalkOK
  <2>5. GoesOn(x, y, edits[i], i, limit)
    BY <1>3, <2>4, WalkOnFacts
  <2>6. ~x.broken => Guards(x.text, g)
    BY <1>5, <2>2
  <2>7. ASSUME ~y.broken PROVE Guards(y.text, g)
    <3>1. CASE Spent(x, limit)
      BY <2>5, <2>6, <2>7, <3>1 DEF GoesOn
    <3>2. CASE ~Spent(x, limit) /\ Skip(x.text, edits[i]) # "no"
      BY <2>5, <2>6, <2>7, <3>2 DEF GoesOn
    <3>3. CASE ~Spent(x, limit) /\ Skip(x.text, edits[i]) = "no"
      <4>1. /\ y.text = Edited(x.text, edits[i])
            /\ y.broken = (x.broken \/ Breaks(x.text, edits[i]))
        BY <2>5, <3>3 DEF GoesOn
      <4>2. ~x.broken /\ ~Breaks(x.text, edits[i])
        BY <2>7, <4>1
      <4>3. PICK t, edit : t = x.text /\ edit = edits[i]
        OBVIOUS
      <4>4. Guards(t, g) /\ NiceEdit(edit) /\ Skip(t, edit) = "no" /\ ~Breaks(t, edit)
        BY <1>3, <2>6, <3>3, <4>2, <4>3
      <4>5. y.text = Edited(t, edit)
        BY <4>1, <4>3
      <4> QED
        BY <4>4, <4>5, EditedKeeps
    <3> QED
      BY <3>1, <3>2, <3>3
  <2> QED
    BY <2>1, <2>3, <2>7
<1>6. \A m \in 0 .. n : m \in S
  <2> HIDE DEF S
  <2> QED
    BY <1>3, <1>4, <1>5, AllUpTo
<1> QED
  BY <1>3, <1>6

LEMMA AppliedGuards ==
  ASSUME NEW before, NEW g, Guards(before, g), NEW edits \in Seq(Proposals),
         NEW limit \in Nat, NEW r, r = ApplyBudgeted(before, edits, limit).report
  PROVE  ~r.broken => Guards(r.text, g)
<1>1. \A e \in Proposals : NiceEdit(e)
  <2> SUFFICES ASSUME NEW p \in ReflectPatches \cup MergedPatches, NEW e \in ToSet(p)
               PROVE  NiceEdit(e)
    BY DEF Proposals
  <2> QED
    BY PatchAssumption DEF NiceEdit, IsText
<1>2. PICK n \in Nat : n = Len(edits) /\ \A i \in 1 .. n : edits[i] \in Proposals
  OBVIOUS
<1>3. PICK cs : cs = Walk(before, edits, limit).chosen
  OBVIOUS
<1>4. cs \in Seq(1 .. n)
  <2>1. WalkOK(Walks(before, edits, limit)[n], n, n, limit)
    BY <1>2, WalksOK
  <2> QED
    BY <1>2, <1>3, <2>1 DEF Walk, WalkOK, WalkType
<1>5. PICK again : again = [k \in DOMAIN cs |-> edits[cs[k]]]
  OBVIOUS
<1>6. PICK m \in Nat : m = Len(again) /\ m = Len(cs) /\ \A k \in 1 .. m : again[k] = edits[cs[k]]
  <2>1. PICK m \in Nat : m = Len(cs) /\ DOMAIN cs = 1 .. m
    BY <1>4
  <2>2. again = [k \in 1 .. m |-> edits[cs[k]]]
    BY <1>5, <2>1
  <2> QED
    BY <2>1, <2>2
<1>7. \A k \in 1 .. m : NiceEdit(again[k])
  BY <1>1, <1>2, <1>4, <1>6
<1>8. r = Walk(before, again, m + 1)
  BY <1>3, <1>5, <1>6 DEF ApplyBudgeted, ApplyPatch
<1>9. m + 1 \in Nat
  OBVIOUS
<1> QED
  BY <1>6, <1>7, <1>8, <1>9, WalkGuards

-------------------------------------------------------------------------------
(* The steps.                                                                *)

\* The region of a skill that was not broken holds its guidance.
SkillOK(s) ==
  /\ DOMAIN s = {"text", "guidance", "broken"}
  /\ ~s.broken => Guards(s.text, s.guidance)

EditIInv ==
  /\ level \in Seq(Patches) /\ next_level \in Seq(Patches)
  /\ budget \in Nat /\ group_size \in Nat \ {0}
  /\ at = "gate" => Filled(update, pool, budget)
  /\ SkillOK(skill) /\ SkillOK(original) /\ SkillOK(best)

LEMMA TextsTogether ==
  ASSUME NEW t, IsText(t), NEW c, IsText(c)
  PROVE  IsText(t \o c)
<1>1. PICK A : t \in Seq(A)
  BY DEF IsText
<1>2. PICK C : c \in Seq(C)
  BY DEF IsText
<1>3. PICK T : t \in Seq(T) /\ c \in Seq(T)
  <2>1. t \in Seq(A \cup C) /\ c \in Seq(A \cup C)
    BY <1>1, <1>2
  <2> QED
    BY <2>1
<1>4. t \o c \in Seq(T)
  BY <1>3, ConcatProperties
<1> QED
  BY <1>4 DEF IsText

\* A seed without markers in order counts as broken, another guards its guidance.
LEMMA SeededOK ==
  ASSUME NEW seed \in Seeds
  PROVE  SkillOK(Seeded(seed))
<1>1. PICK t : t = EnsureProtectedRegion(seed)
  OBVIOUS
<1>2. IsText(t)
  <2>1. IsText(seed)
    BY TextAssumption DEF IsText
  <2>2. PICK line, region :
           /\ line = IF seed # <<>> /\ Last(seed) # "nl" THEN <<"nl">> ELSE <<>>
           /\ region = <<Begin, "nl", "nl", End>>
    OBVIOUS
  <2>3. IsText(line) /\ IsText(region)
    <3>1. <<"nl">> \in Seq({"nl"}) /\ <<>> \in Seq({"nl"})
      OBVIOUS
    <3>2. <<Begin, "nl", "nl", End>> \in Seq({Begin, "nl", End})
      OBVIOUS
    <3> QED
      BY <2>2, <3>1, <3>2 DEF IsText
  <2>4. t = seed \/ t = (seed \o line) \o region
    BY <1>1, <2>2 DEF EnsureProtectedRegion
  <2>5. IsText((seed \o line) \o region)
    BY <2>1, <2>3, TextsTogether
  <2> QED
    BY <2>1, <2>4, <2>5
<1>3. PICK s : s = Seeded(seed)
  OBVIOUS
<1>4. /\ DOMAIN s = {"text", "guidance", "broken"}
      /\ s.text = t /\ s.guidance = ProtectedContent(t) /\ s.broken = ~Marked(t)
  BY <1>1, <1>3 DEF Seeded
<1>5. ASSUME Marked(t) PROVE Guards(t, ProtectedContent(t))
  <2>1. PICK b, e : Region(t, b, e)
    BY <1>2, <1>5, MarkedRegion
  <2>2. b \in Nat /\ e \in Nat
    BY <2>1 DEF Region
  <2>3. ProtectedContent(t) = SubSeq(t, b + 2, e)
    BY <2>1, RegionFound
  <2>4. Guarded(t, b, e, ProtectedContent(t))
    BY <2>1, <2>3 DEF Guarded
  <2> QED
    BY <2>2, <2>4 DEF Guards
<1> QED
  BY <1>3, <1>4, <1>5 DEF SkillOK

LEMMA EditInitOK == EditInit => EditIInv
<1> SUFFICES ASSUME EditInit PROVE EditIInv
  OBVIOUS
<1>1. PICK seed \in Seeds : skill = Seeded(seed)
  BY DEF EditInit
<1>2. SkillOK(skill)
  BY <1>1, SeededOK
<1> QED
  BY <1>2, GroupAssumption, BudgetAssumption DEF EditInit, EditIInv

LEMMA ReflectKeeps == EditIInv /\ Reflect => EditIInv'
<1> SUFFICES ASSUME EditIInv, Reflect PROVE EditIInv'
  OBVIOUS
<1>1. PICK n \in 1 .. MaxTrajectories : \E patches \in [1 .. n -> ReflectPatches] :
         level' = patches
  BY DEF Reflect
<1>2. level' \in [1 .. n -> Patches]
  BY <1>1, PatchesArePatches
<1>3. n \in Nat
  BY EditBounds
<1>4. level' \in Seq(Patches)
  BY <1>2, <1>3
<1> QED
  BY <1>4, BudgetAssumption DEF EditIInv, Reflect

LEMMA ChunkLenOK ==
  ASSUME EditIInv, level # <<>>
  PROVE  ChunkLen(level) \in 1 .. Len(level)
<1> DEFINE S == {group_size, Len(level)}
<1>1. group_size \in Nat \ {0} /\ Len(level) \in Nat \ {0}
  BY DEF EditIInv
<1>2. \E x \in S : \A y \in S : x <= y
  BY <1>1
<1>3. Min(S) \in S /\ \A y \in S : Min(S) <= y
  <2> HIDE DEF S
  <2> QED
    BY <1>2 DEF Min
<1> QED
  BY <1>1, <1>3 DEF ChunkLen

LEMMA MergeGroupKeeps == EditIInv /\ MergeGroup => EditIInv'
<1> SUFFICES ASSUME EditIInv, MergeGroup PROVE EditIInv'
  OBVIOUS
<1>1. level \in Seq(Patches) /\ next_level \in Seq(Patches)
  BY DEF EditIInv
<1>2. PICK c : c = ChunkLen(level) /\ c \in 1 .. Len(level)
  BY ChunkLenOK DEF MergeGroup
<1>3. PICK group : group = SubSeq(level, 1, c)
  OBVIOUS
<1>4. group \in Seq(Patches) /\ Len(group) = c
  BY <1>1, <1>2, <1>3
<1>5. PICK merged \in MergedInto(group) : next_level' = Append(next_level, merged)
  BY <1>2, <1>3 DEF MergeGroup
<1>6. merged \in Patches
  <2>1. Head(group) \in Patches
    BY <1>2, <1>4
  <2>2. FlattenSeq(group) \in Patches
    BY <1>4, FlattenedPatches DEF Patches
  <2> QED
    BY <1>5, <2>1, <2>2, PatchesArePatches DEF MergedInto
<1>7. next_level' \in Seq(Patches)
  BY <1>1, <1>5, <1>6
<1>8. level' \in Seq(Patches)
  <2>1. level' = SubSeq(level, c + 1, Len(level))
    BY <1>2 DEF MergeGroup
  <2> QED
    BY <1>1, <1>2, <2>1
<1> QED
  BY <1>7, <1>8 DEF EditIInv, MergeGroup

LEMMA UpdateKeeps == EditIInv /\ Update => EditIInv'
<1> SUFFICES ASSUME EditIInv, Update PROVE EditIInv'
  OBVIOUS
<1>1. level[1] \in Patches
  <2>1. Len(level) = 1
    BY DEF Update, Aggregated
  <2>2. level \in Seq(Patches)
    BY DEF EditIInv
  <2> QED
    BY <2>1, <2>2
<1>2. PICK ranked : ranked = Ranked(level[1])
  OBVIOUS
<1>3. ranked \in Seq(Proposals)
  BY <1>1, <1>2, RankedPatch DEF Patches
<1>4. /\ pool' = ranked
      /\ update' = ApplyBudgeted(skill.text, ranked, budget)
  BY <1>2 DEF Update
<1>5. Filled(update', pool', budget)
  BY <1>3, <1>4, AppliedFilled DEF EditIInv
<1>6. SkillOK(skill')
  <2>1. PICK r : r = update'.report
    OBVIOUS
  <2>2. skill' = [skill EXCEPT !.text = r.text, !.broken = @ \/ r.broken]
    BY <1>2, <1>4, <2>1 DEF Update
  <2>3. SkillOK(skill) /\ DOMAIN skill = {"text", "guidance", "broken"}
    BY DEF EditIInv, SkillOK
  <2>4. /\ DOMAIN skill' = {"text", "guidance", "broken"}
        /\ skill'.text = r.text /\ skill'.guidance = skill.guidance
        /\ skill'.broken = (skill.broken \/ r.broken)
    BY <2>2, <2>3
  <2>5. ASSUME ~skill.broken, ~r.broken PROVE Guards(r.text, skill.guidance)
    <3>1. PICK t, g : t = skill.text /\ g = skill.guidance
      OBVIOUS
    <3>2. Guards(t, g)
      BY <2>3, <2>5, <3>1 DEF SkillOK
    <3>3. r = ApplyBudgeted(t, ranked, budget).report /\ budget \in Nat
      BY <1>4, <2>1, <3>1 DEF EditIInv
    <3> QED
      BY <1>3, <2>5, <3>1, <3>2, <3>3, AppliedGuards
  <2> QED
    BY <2>4, <2>5 DEF SkillOK
<1> QED
  BY <1>5, <1>6 DEF EditIInv, Update

LEMMA SlowUpdateRegionKeeps == EditIInv /\ SlowUpdateRegion => EditIInv'
<1> SUFFICES ASSUME EditIInv, SlowUpdateRegion PROVE EditIInv'
  OBVIOUS
<1>1. PICK content \in Guidances :
         skill' = [skill EXCEPT !.text = ReplaceProtected(@, content),
                                !.guidance = content,
                                !.broken = @ \/ HasMarker(content)]
  BY DEF SlowUpdateRegion
<1>2. SkillOK(skill) /\ DOMAIN skill = {"text", "guidance", "broken"}
  BY DEF EditIInv, SkillOK
<1>3. PICK t, g, u : t = skill.text /\ g = skill.guidance /\ u = ReplaceProtected(t, content)
  OBVIOUS
<1>4. /\ DOMAIN skill' = {"text", "guidance", "broken"}
      /\ skill'.text = u /\ skill'.guidance = content
      /\ skill'.broken = (skill.broken \/ HasMarker(content))
  BY <1>1, <1>2, <1>3
<1>5. ASSUME ~skill.broken, ~HasMarker(content) PROVE Guards(u, content)
  <2>1. Guards(t, g)
    BY <1>2, <1>3, <1>5 DEF SkillOK
  <2>2. Clean(content)
    BY <1>5, TextAssumption DEF Clean, IsText
  <2> QED
    BY <1>3, <2>1, <2>2, SpliceRegion
<1>6. SkillOK(skill')
  BY <1>4, <1>5 DEF SkillOK
<1> QED
  BY <1>6 DEF EditIInv, SlowUpdateRegion

LEMMA EditStepKeeps == EditIInv /\ [EditNext]_editVars => EditIInv'
<1> SUFFICES ASSUME EditIInv, [EditNext]_editVars PROVE EditIInv'
  OBVIOUS
<1>1. CASE Reflect
  BY <1>1, ReflectKeeps
<1>2. CASE MergeGroup
  BY <1>2, MergeGroupKeeps
<1>3. CASE NextLevel
  BY <1>3 DEF EditIInv, NextLevel
<1>4. CASE Update
  BY <1>4, UpdateKeeps
<1>5. CASE Judge
  BY <1>5 DEF EditIInv, Judge
<1>6. CASE SlowUpdateRegion
  BY <1>6, SlowUpdateRegionKeeps
<1>7. CASE Reload
  BY <1>7 DEF EditIInv, Reload
<1>8. CASE HangOnMerge \/ UNCHANGED editVars
  BY <1>8 DEF EditIInv, HangOnMerge, editVars
<1> QED
  BY <1>1, <1>2, <1>3, <1>4, <1>5, <1>6, <1>7, <1>8 DEF EditNext, Aggregate

\* For any seeds, patches, guidances, group sizes and budgets, and however often
\* the run is resumed: when the gate is asked about a step's candidate, the walk
\* of apply_budgeted has applied at most as many edits as the epoch's budget allows;
\* as many, or it has tried every edit of the pool, unless one hit the protected
\* region; and the report made by applying the chosen edits once more names all of
\* them and no skip.
THEOREM BudgetAlwaysFilled == EditSpec => []BudgetFilled
<1>1. EditIInv => BudgetFilled
  BY DEF EditIInv, BudgetFilled, Filled
<1> QED
  BY <1>1, EditInitOK, EditStepKeeps, PTL DEF EditSpec

\* For any seeds, patches, guidances, group sizes and budgets, and however often
\* the run is resumed: the protected region of the skill holds what the last
\* accepted slow update (or the seed) wrote there, unless the seed has no markers
\* in their order, a marker was written into the text, or an edit was applied
\* whose anchor begins before the region and reaches into it.
THEOREM GuidanceAlwaysStands == EditSpec => []GuidanceStands
<1>1. EditIInv => GuidanceStands
  BY GuardedContent DEF EditIInv, SkillOK, GuidanceStands
<1> QED
  BY <1>1, EditInitOK, EditStepKeeps, PTL DEF EditSpec
===============================================================================
