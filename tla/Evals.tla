--------------------------------- MODULE Evals ---------------------------------
(***************************************************************************)
(* aikit-evals: run_case_trials, which runs the trials of one case in      *)
(* parallel and sums them up (runner.rs), and score_cases, which a gate of *)
(* the training loop uses: the trials of each case, one after the other,   *)
(* and a vote for each check (scoring.rs).                                 *)
(*                                                                         *)
(* What an agent does in a trial is arbitrary.  Check results carry the    *)
(* name of the KIND of check (checks.rs): two checks of a suite may have   *)
(* the same name.                                                          *)
(***************************************************************************)
EXTENDS Integers, Sequences, FiniteSets, Functions

CONSTANTS TrialCounts,  \* numbers of trials considered
          Parallelisms, \* values of max_parallelism considered
          Thresholds,   \* values of pass_threshold considered, in per cent
          Suites,       \* suites of checks: sequences of check names
          CaseCount     \* bound: cases that are scored

ASSUME EvalAssumption ==
  /\ TrialCounts \subseteq Nat /\ Thresholds \subseteq 0 .. 100
  /\ Parallelisms \subseteq Nat \ {0} \* .max(1)
  /\ CaseCount \in Nat
  /\ \A s \in Suites : s \in Seq(Range(s))

Statuses == {"Passed", "Failed", "Error"}

VARIABLES
  call_of,   \* which of the two functions was called
  trial_count, max_parallel, pass_threshold, suite, \* arguments
  trial,     \* what the task of each trial does
  joined,    \* the trials whose task has been joined
  permits,   \* of the semaphore
  trials,    \* the TrialResults in the order in which they were joined
  verdict,   \* CaseTrialsResult, or <<>>
  case_idx,  \* the case being scored
  results,   \* all_trial_results: for each case, the results of its trials
  left_file, \* the file of file_exists checks is in the shared workspace
  voted      \* what score_cases returned, or <<>>

trialVars == <<trial, joined, permits, trials, verdict>>
scoreVars == <<case_idx, results, left_file, voted>>
Arguments == <<call_of, trial_count, max_parallel, pass_threshold, suite>>
evalVars  == <<Arguments, trialVars, scoreVars>>

Trials == 1 .. trial_count

EvalInit ==
  /\ call_of \in {"run_case_trials", "score_cases"}
  /\ trial_count \in TrialCounts
  /\ max_parallel \in Parallelisms
  /\ pass_threshold \in Thresholds
  /\ suite \in Suites
  /\ trial = [t \in Trials |-> "queued"]
  /\ joined = {}
  /\ permits = max_parallel
  /\ trials = <<>>
  /\ verdict = <<>>
  /\ case_idx = 1
  /\ results = [c \in 1 .. CaseCount |-> <<>>]
  /\ left_file = FALSE
  /\ voted = <<>>

-------------------------------------------------------------------------------
(* run_case_trials.                                                          *)

Acquire(t) ==
  /\ trial[t] = "queued"
  /\ permits > 0
  /\ permits' = permits - 1
  /\ trial' = [trial EXCEPT ![t] = "running"]
  /\ UNCHANGED <<Arguments, joined, trials, verdict, scoreVars>>

\* The task returns the status of its case, or panics; either way its permit
\* is dropped.
PermitsAfter(status) == permits + 1

EndTrial(t) ==
  /\ trial[t] = "running"
  /\ \E status \in Statuses \cup {"panicked"} :
        /\ trial' = [trial EXCEPT ![t] = status]
        /\ permits' = PermitsAfter(status)
  /\ UNCHANGED <<Arguments, joined, trials, verdict, scoreVars>>

\* A panicked task is entered as an error, under the next number, whichever it
\* was.
NextId == Len(trials) + 1
Dropped(t) == IF trial[t] = "panicked" THEN trials \* mutated form
                ELSE Append(trials, [trial_id |-> t, status |-> trial[t]])
Entered(t) == Append(trials, IF trial[t] = "panicked"
                               THEN [trial_id |-> NextId, status |-> "Error"]
                               ELSE [trial_id |-> t, status |-> trial[t]])

\* join_next: any task that has ended.
Join(t) ==
  /\ trial[t] \in Statuses \cup {"panicked"}
  /\ t \notin joined
  /\ joined' = joined \cup {t}
  /\ trials' = Entered(t)
  /\ UNCHANGED <<Arguments, trial, permits, verdict, scoreVars>>

\* sort_by_key, which is stable: the place of entry i among the sorted entries.
Place(entries, i) ==
  Cardinality({j \in DOMAIN entries :
                 \/ entries[j].trial_id < entries[i].trial_id
                 \/ entries[j].trial_id = entries[i].trial_id /\ j <= i})
Sorted(entries) ==
  [k \in DOMAIN entries |-> entries[CHOOSE i \in DOMAIN entries : Place(entries, i) = k]]

\* All joined: sorted by number and summed up, over the trials asked for.
Summary ==
  LET passes == Cardinality({i \in DOMAIN trials : trials[i].status = "Passed"})
      total  == IF trial_count = 0 THEN 1 ELSE trial_count
  IN  [trials |-> Sorted(trials),
       pass_count |-> passes,
       status |-> IF passes * 100 >= pass_threshold * total THEN "Passed" ELSE "Failed"]

SumUp ==
  /\ verdict = <<>>
  /\ joined = Trials
  /\ verdict' = <<Summary>>
  /\ UNCHANGED <<Arguments, trial, joined, permits, trials, scoreVars>>

-------------------------------------------------------------------------------
(* score_cases.                                                              *)

\* One trial of the current case, in the workspace all of them share: a check
\* of a file finds what earlier trials left there.
ScoreTrial ==
  /\ voted = <<>>
  /\ case_idx <= CaseCount
  /\ Len(results[case_idx]) < trial_count
  /\ \E passed \in [DOMAIN suite -> BOOLEAN], makes \in BOOLEAN :
        /\ left_file' = (left_file \/ makes)
        /\ \A k \in DOMAIN suite : suite[k] = "file_exists" => passed[k] = left_file'
        /\ results' = [results EXCEPT ![case_idx] = Append(@,
                         [k \in DOMAIN suite |-> [check_name |-> suite[k], passed |-> passed[k]]])]
  /\ UNCHANGED <<Arguments, trialVars, case_idx, voted>>

NextCase ==
  /\ voted = <<>>
  /\ case_idx <= CaseCount
  /\ Len(results[case_idx]) = trial_count
  /\ case_idx' = case_idx + 1
  /\ UNCHANGED <<Arguments, trialVars, results, left_file, voted>>

\* majority_vote: one result for each name, by all its passes in all trials.
Passes(of_case, name) ==
  Cardinality({tk \in (DOMAIN of_case) \X (DOMAIN suite) :
                 /\ of_case[tk[1]][tk[2]].check_name = name
                 /\ of_case[tk[1]][tk[2]].passed})
HalfIsEnough(of_case, name) == Passes(of_case, name) >= trial_count \div 2 \* mutated form
Carried(of_case, name) == Passes(of_case, name) > trial_count \div 2
MajorityVote(of_case) ==
  [name \in IF of_case = <<>> THEN {} ELSE Range(suite) |-> Carried(of_case, name)]

Vote ==
  /\ voted = <<>>
  /\ case_idx > CaseCount
  /\ voted' = [c \in 1 .. CaseCount |-> MajorityVote(results[c])]
  /\ UNCHANGED <<Arguments, trialVars, case_idx, results, left_file>>

TrialWork == /\ call_of = "run_case_trials"
             /\ (\E t \in Trials : Acquire(t) \/ EndTrial(t) \/ Join(t)) \/ SumUp
ScoreWork == /\ call_of = "score_cases"
             /\ ScoreTrial \/ NextCase \/ Vote
EvalNext == TrialWork \/ ScoreWork

EvalSpec == EvalInit /\ [][EvalNext]_evalVars

-------------------------------------------------------------------------------
(* Properties.                                                               *)

\* A case's verdict (aggregated.json) counts every trial that was asked for,
\* once and in order, by what became of its task, in whatever order the tasks
\* ran, ended, panicked and were joined.  Unless one panicked, each is listed
\* under its own number.
TrialsAllCounted ==
  \A v \in Range(verdict) :
     /\ Len(v.trials) = trial_count
     /\ v.pass_count = Cardinality({t \in Trials : trial[t] = "Passed"})
     /\ (\A t \in Trials : trial[t] # "panicked") =>
          \A t \in Trials : v.trials[t] = [trial_id |-> t, status |-> trial[t]]

\* scoring.rs:81: a check is passed for a case iff it passed in strictly more
\* than half of the trials.
VoteIsMajority ==
  voted # <<>> =>
     \A c \in 1 .. CaseCount : \A name \in DOMAIN voted[c] :
        voted[c][name] <=>
          2 * Cardinality({i \in DOMAIN results[c] :
                 \E k \in DOMAIN suite : results[c][i][k] = [check_name |-> name,
                                                             passed |-> TRUE]})
            > trial_count

\* That holds of suites that have one check of each kind.
DistinctVoteIsMajority == IsInjective(suite) => VoteIsMajority
===============================================================================
