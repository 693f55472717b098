-------------------------------- MODULE MCEvals --------------------------------
(* No trial, two or three, on one permit or two; one case that is scored; a    *)
(* suite of two kinds of checks and one of two checks of the same kind.        *)
EXTENDS Evals

MCSuites == {<<"file_exists", "trigger_expectation">>,
             <<"trigger_expectation", "trigger_expectation">>}

\* A case without trials whose verdict is out.
EvalsOver ==
  /\ call_of = "run_case_trials" /\ trial_count = 0 /\ max_parallel = 1
  /\ pass_threshold = 50 /\ suite = <<>> /\ trial = <<>> /\ joined = {}
  /\ permits = 1 /\ trials = <<>> /\ verdict = <<Summary>>
  /\ case_idx = 1 /\ results = <<>> /\ left_file = FALSE /\ voted = <<>>
===============================================================================
