------------------------------ MODULE Verdict ------------------------------
(***************************************************************************)
(* One call of the criterion (StrictPareto.__call__, then decision) on any *)
(* pair of completed runs: what a Loss, a reason and an UnmeasurableRun    *)
(* say about the runs they were judged from.                               *)
(***************************************************************************)
EXTENDS Judge

VARIABLES baselineRun, candidateRun,  \* the two measured runs
          judgment                    \* "pending", "loss" or "unmeasurable"

judgmentVars == <<baselineRun, candidateRun, judgment>>

JudgmentTypeOK ==
  /\ baselineRun \in [Tasks -> Rollouts]
  /\ \E panel \in SUBSET Tasks : candidateRun \in [panel -> Rollouts]
  /\ judgment \in {"pending", "loss", "unmeasurable"}

\* The baseline ran the whole panel; the candidate ran the tasks that
\* certification kept (never none).
JudgmentInit ==
  /\ baselineRun \in [Tasks -> Rollouts]
  /\ \E panel \in SUBSET Tasks \ {{}} : candidateRun \in [panel -> Rollouts]
  /\ judgment = "pending"

\* Slip: the bracket is skipped.
NeverUnmeasurable ==
  judgment = "pending" /\ judgment' = "loss" /\ UNCHANGED <<baselineRun, candidateRun>>

\* Slip: the panel restriction reaches the caller's baseline.
RestrictInPlace ==
  /\ judgment = "pending"
  /\ judgment' = IF unmeasurable(baselineRun, candidateRun) THEN "unmeasurable" ELSE "loss"
  /\ baselineRun' = judged(baselineRun, candidateRun)
  /\ UNCHANGED candidateRun

\* StrictPareto.__call__ either raises UnmeasurableRun or returns a Loss.
Call ==
  /\ judgment = "pending"
  /\ judgment' = IF unmeasurable(baselineRun, candidateRun) THEN "unmeasurable" ELSE "loss"
  /\ UNCHANGED <<baselineRun, candidateRun>>

\* A judgment is final.
Done == judgment # "pending" /\ UNCHANGED judgmentVars

JudgmentNext == Call \/ Done

JudgmentSpec == JudgmentInit /\ [][JudgmentNext]_judgmentVars

-----------------------------------------------------------------------------
JudgedReport == measured_report(baselineRun, candidateRun)

\* A negative loss never trades a task away: every task the baseline solved on
\* the judged panel is solved by the candidate, the untrusted ones included
\* ("Sensitivity can only invalidate, never promote", loss.py).
SelectionNeverRegresses ==
  judgment = "loss" /\ Selects(JudgedReport) =>
    solved_task_ids(judged(baselineRun, candidateRun)) \subseteq solved_task_ids(candidateRun)

\* Bracketing the two extreme outcomes of the untrusted tasks is enough: when
\* the criterion returns a Loss, every way the untrusted tasks could have been
\* graded selects, or rejects, exactly as the reported loss does.
InfraNoiseNeverDecides ==
  judgment = "loss" =>
    \A lucky \in SUBSET verdict_sensitive_task_ids(candidateRun) :
      Selects(Comparison(judged(baselineRun, candidateRun), candidateRun,
                         solved_task_ids(candidateRun) \cup lucky, {}))
        <=> Selects(JudgedReport)

\* The reason persisted with the decision tells the sign of the loss, though
\* _compare and _loss_value derive them separately, and the report of a run with
\* untrusted tasks is neither of the two views whose signs were compared.
ReasonTellsTheLoss ==
  judgment = "loss" =>
    (Selects(JudgedReport) <=>
       reason(JudgedReport) \in {"strict_improvement_without_regression",
                           "secondary_reward_improvement"})

\* UnmeasurableRun is only raised for a candidate that would be promoted if its
\* untrusted tasks had passed and is not as measured; the recorded decision
\* names those tasks and blames the candidate for no regression.
UnmeasurableHangsOnInfra ==
  judgment = "unmeasurable" =>
    LET d == unmeasurable_decision(baselineRun, candidateRun)
    IN /\ Selects(optimistic_report(baselineRun, candidateRun))
       /\ ~Selects(pessimistic_report(baselineRun, candidateRun))
       /\ d.regressions = {}

\* What is recorded of a judgment is true: the reason tells the sign of the loss, an
\* unmeasurable run hangs on its untrusted tasks alone, and the two runs are left as they were.
DecisionsAreTrue ==
  /\ JudgmentTypeOK
  /\ ReasonTellsTheLoss
  /\ UnmeasurableHangsOnInfra
=============================================================================
