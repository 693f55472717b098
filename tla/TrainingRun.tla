----------------------------- MODULE TrainingRun -----------------------------
(***************************************************************************)
(* What a training run promises its caller, whatever happens to the        *)
(* processes that execute it: the schedule of steps is worked through in   *)
(* order, no step is left out, the recorded best score never falls, and an *)
(* outcome is returned only when the whole schedule has been completed.    *)
(* A step may be completed more than once: the resume contract of          *)
(* docs/adr/0003 is at-least-once.  Module Training implements this        *)
(* specification through crashes and resumes.                              *)
(***************************************************************************)
EXTENDS Integers

\* Module Training states what it assumes of them.
CONSTANTS NEpochs,        \* RunConfig.n_epochs
          StepsPerEpoch,  \* ceil(|train split| / (batch_size * accumulation))
          Scores          \* the values a gate score can take

VARIABLES begun,      \* a checkpoint exists
          best,       \* the best score on record
          completed,  \* the steps whose gate decision is on record
          returned    \* an outcome has been handed to the caller

avars == <<begun, best, completed, returned>>

Epochs == 0 .. NEpochs - 1
Steps  == 0 .. StepsPerEpoch - 1

\* Step <<e, s>> comes before step <<f, t>> in the schedule.
Before(e, s, f, t) == e < f \/ (e = f /\ s < t)

AInit == /\ begun = FALSE
         /\ best = 0
         /\ completed = {}
         /\ returned = FALSE

\* The initial artifact has been scored.
Begin == /\ ~begun
         /\ begun' = TRUE
         /\ best' \in Scores
         /\ UNCHANGED <<completed, returned>>

\* A step is completed once every earlier step has been.
Complete(e, s) ==
  /\ begun
  /\ ~returned
  /\ \A f \in Epochs, t \in Steps :
        Before(f, t, e, s) => <<f, t>> \in completed
  /\ completed' = completed \cup {<<e, s>>}
  /\ best' \in Scores
  /\ best' >= best
  /\ UNCHANGED <<begun, returned>>

Return == /\ begun
          /\ completed = Epochs \X Steps
          /\ returned' = TRUE
          /\ UNCHANGED <<begun, best, completed>>

\* A caller may ask for a run that has returned to be resumed.
Reopen == /\ returned
          /\ returned' = FALSE
          /\ UNCHANGED <<begun, best, completed>>

ANext == \/ Begin
         \/ \E e \in Epochs, s \in Steps : Complete(e, s)
         \/ Return
         \/ Reopen

ASpec == AInit /\ [][ANext]_avars
=============================================================================
