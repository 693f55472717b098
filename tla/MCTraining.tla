------------------------------ MODULE MCTraining ------------------------------
(* A training run of two epochs of two steps, resumed up to twice. *)
EXTENDS Training

MCScores == 0 .. 2
MCModes  == {"ForceAccept", "Gated"}

\* A run that has returned and is not asked to resume.
TrainingOver ==
  /\ slow_update_mode = "Gated" /\ pc = "down" /\ state = Blank /\ text = Unscored
  /\ step = 0 /\ checkpoint = Absent /\ best_file = Absent /\ history = {}
  /\ resumes = MaxResumes /\ completed = {} /\ rejections = {}
  /\ consolidated = {} /\ torn_history = FALSE
===============================================================================
