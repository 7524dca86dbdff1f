------------------------------- MODULE Judge -------------------------------
(***************************************************************************)
(* The promotion verdict: StrictPareto (src/trainer/loss.py) over the      *)
(* records of src/rollout/records.py and the secondary metrics of          *)
(* src/rollout/metrics.py.  Pure operators; the state machines that call   *)
(* them are Verdict (one judgment) and Trainer (the whole session).        *)
(*                                                                         *)
(* A measured run is the function "tasks" of ExperimentResult: from the    *)
(* panel it ran to one rollout per task.  A rollout keeps its failure mode *)
(* and the two metrics the tie-breakers read.                              *)
(***************************************************************************)
EXTENDS Integers, Sequences, FiniteSets, FiniteSetsExt

CONSTANTS
  Tasks,    \* the task panel of the measurement config
  Rollouts  \* the rollouts a task may end in

ASSUME TasksAssumption == IsFiniteSet(Tasks) /\ Tasks # {}

FailureMode ==
  {"solved", "verified_rejected", "hit_step_cap", "hit_timeout",
   "verify_timeout", "no_valid_action", "crash", "unscorable_infra"}

\* Infra broke the rollout: no verdict, no secondary cost.
UNSCORABLE_FAILURE_MODES == {"crash", "unscorable_infra"}

\* Grading never finished, but the agent loop ran: the cost still counts.
VERDICT_UNTRUSTED_FAILURE_MODES == UNSCORABLE_FAILURE_MODES \cup {"verify_timeout"}

\* A metric key absent from RolloutResult.metrics, and a None metric value.
Unpublished == -1

\* "invalid" is first_attempt_total - first_attempt_valid, "steps" is steps_used.
RolloutResult ==
  [mode: FailureMode, invalid: Nat \cup {Unpublished}, steps: Nat \cup {Unpublished}]

ASSUME RolloutsAssumption == Rollouts \subseteq RolloutResult

solved_task_ids(run) == {t \in DOMAIN run : run[t].mode = "solved"}

verdict_sensitive_task_ids(run) ==
  {t \in DOMAIN run : run[t].mode \in VERDICT_UNTRUSTED_FAILURE_MODES}

restrict_to_panel(run, panel) == [t \in DOMAIN run \cap panel |-> run[t]]

-----------------------------------------------------------------------------
(* Secondary rewards: both shipped metrics rank the smaller value better.  *)

scorable(rollout) == rollout.mode \notin UNSCORABLE_FAILURE_MODES

\* SecondaryRewardMetric.compare with higher_is_better = False.
compare(baselineValue, candidateValue) ==
  CASE Unpublished \in {baselineValue, candidateValue} -> "unavailable"
    [] candidateValue = baselineValue -> "tied"
    [] candidateValue < baselineValue -> "candidate_better"
    [] OTHER -> "baseline_better"

\* InvalidFirstAttemptsMetric: summed over the tasks both runs can score;
\* None only when no task in scope published the metric.
InvalidFirstAttempts(run, scope) ==
  LET published == {t \in scope : run[t].invalid # Unpublished}
  IN IF published = {} THEN Unpublished
     ELSE MapThenSumSet(LAMBDA t : run[t].invalid, published)

\* StepsUsedMetric: summed over the tasks both runs solved; None as soon as
\* one of them did not publish its steps.
StepsUsed(run, scope) ==
  IF \E t \in scope : run[t].steps = Unpublished THEN Unpublished
  ELSE MapThenSumSet(LAMBDA t : run[t].steps, scope)

\* GENERIC_SECONDARY_METRICS, in order.
metricOutcomes(baseline, candidate) ==
  LET both == DOMAIN baseline \cap DOMAIN candidate
      scored == {t \in both : scorable(baseline[t]) /\ scorable(candidate[t])}
      solved == solved_task_ids(baseline) \cap solved_task_ids(candidate)
  IN << compare(InvalidFirstAttempts(baseline, scored),
                InvalidFirstAttempts(candidate, scored)),
        compare(StepsUsed(baseline, solved), StepsUsed(candidate, solved)) >>

\* Slip: the loop goes on after a decisive metric.
every_metric(baseline, candidate) == metricOutcomes(baseline, candidate)

\* The loop of _compare stops at the first decisive metric.
secondary_rewards(baseline, candidate) ==
  LET all == metricOutcomes(baseline, candidate)
      decisive == {i \in DOMAIN all : all[i] \in {"candidate_better", "baseline_better"}}
  IN IF decisive = {} THEN all ELSE SubSeq(all, 1, Min(decisive))

-----------------------------------------------------------------------------
(* One view of the comparison (class Comparison).  "solved" is what the    *)
(* view takes the candidate to have solved, "invalid" the untrusted tasks  *)
(* it keeps out of the regressions.                                        *)

\* A candidate that regressed, or solved strictly more, never reaches the
\* metrics: _compare leaves secondary_rewards empty.
Comparison(baseline, candidate, solved, invalid) ==
  LET base == solved_task_ids(baseline)
      regressions == (base \ solved) \ invalid
      compared == regressions = {} /\ ~(Cardinality(solved) > Cardinality(base))
  IN [baseline_solved |-> base,
      candidate_solved |-> solved,
      invalid_infra_tasks |-> invalid,
      regressions |-> regressions,
      new_solves |-> solved \ base,
      secondary_rewards |->
        IF compared THEN secondary_rewards(baseline, candidate) ELSE <<>>]

\* The reason _compare attaches to a view.
reason(report) ==
  CASE report.regressions # {} -> "regressed_baseline_tasks"
    [] /\ report.regressions = {}
       /\ Cardinality(report.candidate_solved) > Cardinality(report.baseline_solved)
         -> "strict_improvement_without_regression"
    [] OTHER -> IF \E i \in DOMAIN report.secondary_rewards :
                     report.secondary_rewards[i] = "candidate_better"
                THEN "secondary_reward_improvement"
                ELSE "no_net_improvement"

\* Losses are integers in units of 2^-2, the weight of the last metric, so
\* that -(candidate - baseline) and the 2^-(index+1) steps stay exact.
LossUnit == 4

\* math.inf: above every finite loss.
Infinity == LossUnit * (Cardinality(Tasks) + 1)

sign(outcome) ==
  CASE outcome = "candidate_better" -> -1
    [] outcome = "baseline_better" -> 1
    [] OTHER -> 0

\* 2^-1 and 2^-2, the weights of the two metrics, in units of 2^-2.
weight == <<2, 1>>

\* The weighted tie-breakers that were reached, summed.
secondary_loss(rewards) ==
  LET term(i) == IF i \in DOMAIN rewards THEN weight[i] * sign(rewards[i]) ELSE 0
  IN term(1) + term(2)

\* Slip: a regression is just one solve less.
mean_loss(report) ==
  LET primary == Cardinality(report.baseline_solved) - Cardinality(report.candidate_solved)
  IN IF primary # 0 THEN LossUnit * primary ELSE secondary_loss(report.secondary_rewards)

loss_value(report) ==
  LET primary == Cardinality(report.baseline_solved) - Cardinality(report.candidate_solved)
  IN IF report.regressions # {} THEN Infinity
     ELSE IF primary # 0 THEN LossUnit * primary
     ELSE secondary_loss(report.secondary_rewards)

\* Negative loss selects the candidate (GreedyMonotonic._should_promote).
Selects(report) == loss_value(report) < 0

-----------------------------------------------------------------------------
(* StrictPareto.__call__                                                   *)

\* The judged baseline only has the candidate's panel.
judged(baseline, candidate) == restrict_to_panel(baseline, DOMAIN candidate)

pessimistic_report(baseline, candidate) ==
  Comparison(judged(baseline, candidate), candidate, solved_task_ids(candidate), {})

optimistic_report(baseline, candidate) ==
  Comparison(judged(baseline, candidate), candidate,
             solved_task_ids(candidate) \cup verdict_sensitive_task_ids(candidate), {})

measured_report(baseline, candidate) ==
  Comparison(judged(baseline, candidate), candidate,
             solved_task_ids(candidate), verdict_sensitive_task_ids(candidate))

\* UnmeasurableRun is raised when the untrusted tasks could flip the sign.
unmeasurable(baseline, candidate) ==
  /\ verdict_sensitive_task_ids(candidate) # {}
  /\ Selects(pessimistic_report(baseline, candidate))
       # Selects(optimistic_report(baseline, candidate))

\* The persisted ResultDecision of a report (_decision_from_report).
decision_from_report(report, outcome, why, regressions, invalid) ==
  [outcome |-> outcome, reason |-> why,
   candidate_solved |-> report.candidate_solved,
   baseline_solved |-> report.baseline_solved,
   new_solves |-> report.new_solves,
   regressions |-> regressions,
   secondary_rewards |-> report.secondary_rewards,
   invalid_infra_tasks |-> invalid]

\* Slip: the untrusted tasks are blamed on the candidate.
blaming_decision(baseline, candidate) ==
  LET report == pessimistic_report(baseline, candidate)
  IN decision_from_report(report, "invalid_infra", "infra_sensitive_verdict",
                          report.regressions, verdict_sensitive_task_ids(candidate))

\* The decision an UnmeasurableRun carries.
unmeasurable_decision(baseline, candidate) ==
  LET report == pessimistic_report(baseline, candidate)
      invalid == verdict_sensitive_task_ids(candidate)
  IN decision_from_report(report, "invalid_infra", "infra_sensitive_verdict",
                          report.regressions \ invalid, invalid)

\* StrictPareto.decision of a judged pair, given whether the step applied it.
decision(baseline, candidate, promoted) ==
  LET report == measured_report(baseline, candidate)
  IN decision_from_report(report, IF promoted THEN "promoted" ELSE "rejected",
                          reason(report), report.regressions, report.invalid_infra_tasks)
=============================================================================
