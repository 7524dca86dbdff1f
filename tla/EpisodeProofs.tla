--------------------------- MODULE EpisodeProofs ---------------------------
(***************************************************************************)
(* What a rollout guarantees for every budget, step cap and batch size.    *)
(***************************************************************************)
EXTENDS Episode, SequenceTheorems, TLAPS

Actions == {"run", "submit"}

Outcome ==
  [end: {"none", "submitted", "budget", "step_cap", "gave_up", "setup_timeout", "task_timeout",
         "stall_timeout", "unscorable_infra", "crash", "drift", "escape"},
   final: Transition \cup {"none"}, steps: Int, origin: {"none", "policy", "env"}]

Result ==
  [mode: FailureMode \cup {"none"}, origin: {"none", "policy", "env"}, error: BOOLEAN,
   steps: Int, attempt: Nat]

\* The type invariant, with what each place of the loop says about its counters.
Shape ==
  /\ run_config \in RunConfig
  /\ pc \in {"build", "setup", "act", "batch", "verify", "close", "returned", "drifted",
             "done", "gone"}
  /\ batch \in Seq(Actions) /\ Len(batch) <= MaxBatch
  /\ transitions \in Seq(Transition) /\ chain \in Seq(Transition)
  /\ final \in Transition \cup {"none"}
  /\ outcome \in Outcome /\ result \in Result
  /\ disk.attempt \in Nat

Clocks ==
  /\ now \in Nat /\ now <= AgentBudget + VerifyBudget
  /\ stall \in Nat /\ stall <= AgentBudget + VerifyBudget + StallBudget
  /\ pc = "verify" => now <= AgentBudget

Counting ==
  /\ steps \in Nat /\ steps <= MaxSteps
  /\ pc \in {"build", "setup", "act", "verify"} => steps < MaxSteps
  /\ pc = "batch" /\ transitions = <<>> => steps < MaxSteps

\* At most one retry of each kind; only a replaying attempt drifts.
Retries ==
  /\ drift_retried \in BOOLEAN /\ slow_llm_retried \in BOOLEAN
  /\ ~drift_retried /\ ~slow_llm_retried => attempt = 1
  /\ drift_retried /\ ~slow_llm_retried => attempt = 2
  /\ ~drift_retried /\ slow_llm_retried => attempt = 2
  /\ drift_retried /\ slow_llm_retried => attempt = 3
  /\ outcome.end = "drift" => run_config.replay /\ ~drift_retried
  /\ pc = "drifted" => outcome.end = "drift"
  /\ drift_retried => run_config.replay
  /\ slow_llm_retried => run_config.is_deterministic

\* What policy.act may return.
LEMMA BatchType ==
  ASSUME NEW s \in SeqOf(Actions, MaxBatch)
  PROVE  s \in Seq(Actions) /\ Len(s) <= MaxBatch
<1>1. PICK m \in 0..MaxBatch : s \in [1..m -> Actions]
  BY DEF SeqOf
<1>2. QED
  BY <1>1, EpisodeAssumption

\* The endings of an attempt are outcomes.
LEMMA OutcomeType ==
  /\ NoOutcome \in Outcome
  /\ \A end \in {"setup_timeout", "task_timeout", "stall_timeout", "unscorable_infra", "crash",
                 "drift", "escape"}, origin \in {"none", "policy", "env"} :
       /\ Failure(end, origin) \in Outcome
       /\ Failure(end, origin).end = end
  /\ \A end \in {"submitted", "budget", "step_cap", "gave_up"},
        last \in Transition \cup {"none"}, count \in Int :
       /\ Ending(end, last, count) \in Outcome
       /\ Ending(end, last, count).end = end
BY DEF NoOutcome, Failure, Ending, Outcome

LEMMA ResultType ==
  ASSUME NEW o \in Outcome, NEW close_error \in BOOLEAN, attempt \in Nat
  PROVE  RolloutResult(o, close_error) \in Result
<1>1. classify(o) \in FailureMode
  BY DEF classify, FailureMode
<1>2. crash_origin(o) \in {"policy", "env"}
  BY DEF crash_origin, Outcome
<1>3. QED
  BY <1>1, <1>2 DEF RolloutResult, Result, FailureMode, Outcome

LEMMA InitInv == Init => Shape /\ Clocks /\ Counting /\ Retries
<1> SUFFICES ASSUME Init PROVE Shape /\ Clocks /\ Counting /\ Retries
  OBVIOUS
<1>1. Shape
  BY OutcomeType, EpisodeAssumption DEF Init, Shape, NoResult, Result, FailureMode
<1>2. Clocks /\ Counting
  BY EpisodeAssumption DEF Init, Clocks, Counting
<1>3. Retries
  BY DEF Init, Retries, NoOutcome
<1>4. QED
  BY <1>1, <1>2, <1>3

-----------------------------------------------------------------------------
(* The pieces the actions are made of.                                     *)

LEMMA BoundaryEnds ==
  ASSUME policy_boundary \/ env_boundary
  PROVE  /\ pc' = "close"
         /\ outcome' \in Outcome
         /\ outcome'.end \in {"crash", "unscorable_infra", "escape"}
BY OutcomeType DEF policy_boundary, env_boundary, End

LEMMA DriftEnds ==
  ASSUME Drifts
  PROVE  /\ pc' = "close"
         /\ outcome' \in Outcome
         /\ outcome'.end \in {"drift", "escape"}
         /\ container' = "up"
         /\ run_config.replay /\ ~drift_retried
BY OutcomeType DEF Drifts, Replaying, End

LEMMA EndsWith ==
  ASSUME NEW end \in {"setup_timeout", "task_timeout", "stall_timeout", "escape"},
         End(Failure(end, "none"))
  PROVE  /\ pc' = "close"
         /\ outcome' \in Outcome
         /\ outcome'.end = end
BY OutcomeType DEF End

\* An executed action keeps the sequences well-typed and is waiting to be observed.
LEMMA RecordType ==
  ASSUME Shape, NEW transition \in Transition, Record(transition),
         transition = "ok" => batch # <<>>
  PROVE  /\ batch' \in Seq(Actions) /\ Len(batch') <= MaxBatch
         /\ transitions' \in Seq(Transition) /\ transitions' # <<>>
         /\ chain' \in Seq(Transition)
         /\ UNCHANGED <<final, outcome>>
         /\ pc' = "batch" /\ steps' = steps + 1
<1>1. /\ transitions' \in Seq(Transition) /\ transitions' # <<>>
      /\ chain' \in Seq(Transition)
  BY DEF Record, Shape
<1>2. batch' \in Seq(Actions) /\ Len(batch') <= MaxBatch
  <2>1. CASE transition = "ok"
    <3>1. batch \in Seq(Actions) /\ batch # <<>>
      BY <2>1 DEF Shape
    <3>2. Tail(batch) \in Seq(Actions) /\ Len(Tail(batch)) = Len(batch) - 1 /\ Len(batch) \in Nat
      BY <3>1
    <3>3. QED
      BY <2>1, <3>2, EpisodeAssumption DEF Record, Shape
  <2>2. CASE transition # "ok"
    BY <2>2, EpisodeAssumption DEF Record
  <2>3. QED
    BY <2>1, <2>2
<1>3. QED
  BY <1>1, <1>2 DEF Record

-----------------------------------------------------------------------------
IInv == Shape /\ Clocks /\ Counting /\ Retries

LEMMA BuildInv == IInv /\ Build /\ UNCHANGED run_config => IInv'
<1> SUFFICES ASSUME IInv, Build, UNCHANGED run_config PROVE IInv'
  OBVIOUS
<1> USE DEF IInv, Build, clockVars, loopVars, retryVars
<1>1. CASE pc' = "setup" /\ UNCHANGED outcome
  BY <1>1 DEF Shape, Clocks, Counting, Retries
<1>2. CASE policy_boundary
  BY <1>2, BoundaryEnds DEF Shape, Clocks, Counting, Retries
<1>3. QED
  BY <1>1, <1>2

LEMMA SetupInv == IInv /\ Setup /\ UNCHANGED run_config => IInv'
<1> SUFFICES ASSUME IInv, Setup, UNCHANGED run_config PROVE IInv'
  OBVIOUS
<1> USE DEF IInv, Setup, clockVars, loopVars, retryVars
<1>1. CASE pc' = "act" /\ UNCHANGED outcome
  BY <1>1 DEF Shape, Clocks, Counting, Retries
<1>2. CASE End(Failure("setup_timeout", "none"))
  BY <1>2, EndsWith DEF Shape, Clocks, Counting, Retries
<1>3. CASE env_boundary \/ policy_boundary
  BY <1>3, BoundaryEnds DEF Shape, Clocks, Counting, Retries
<1>4. QED
  BY <1>1, <1>2, <1>3

LEMMA ActInv == IInv /\ Act /\ UNCHANGED run_config => IInv'
<1> SUFFICES ASSUME IInv, Act, UNCHANGED run_config PROVE IInv'
  OBVIOUS
<1> USE DEF IInv, Act, retryVars
<1>1. now' \in Nat /\ now' <= AgentBudget
  BY EpisodeAssumption DEF Clocks, Earliest
<1>2. Clocks'
  BY <1>1, EpisodeAssumption DEF Clocks
<1>3. CASE batch' \in SeqOf(Actions, MaxBatch) /\ pc' = "batch" /\ UNCHANGED outcome
  <2>1. batch' \in Seq(Actions) /\ Len(batch') <= MaxBatch
    BY <1>3, BatchType
  <2>2. QED
    BY <1>2, <1>3, <2>1 DEF Shape, Counting, Retries
<1>4. CASE End(Ending("gave_up", final, steps)) /\ UNCHANGED batch
  <2>1. outcome' \in Outcome /\ outcome'.end = "gave_up" /\ pc' = "close"
    BY <1>4, OutcomeType DEF End, Shape, Counting
  <2>2. QED
    BY <1>2, <1>4, <2>1 DEF Shape, Counting, Retries
<1>5. CASE policy_boundary /\ UNCHANGED batch
  BY <1>2, <1>5, BoundaryEnds DEF Shape, Counting, Retries
<1>6. QED
  BY <1>3, <1>4, <1>5 DEF Actions

LEMMA ActTimesOutInv == IInv /\ ActTimesOut /\ UNCHANGED run_config => IInv'
<1> SUFFICES ASSUME IInv, ActTimesOut, UNCHANGED run_config PROVE IInv'
  OBVIOUS
<1> USE DEF IInv, ActTimesOut, loopVars, retryVars
<1>1. now' \in Nat /\ now' <= AgentBudget
  BY EpisodeAssumption DEF Clocks, Earliest
<1>2. /\ pc' = "close" /\ outcome' \in Outcome
      /\ outcome'.end \notin {"drift", "submitted"}
  BY EndsWith
<1>3. Shape'
  BY <1>1, <1>2, EpisodeAssumption DEF Shape
<1>4. Clocks' /\ Counting'
  BY <1>1, <1>2, EpisodeAssumption DEF Shape, Clocks, Counting
<1>5. Retries'
  BY <1>2 DEF Shape, Retries
<1>6. QED
  BY <1>3, <1>4, <1>5

\* Executing an action within the agent deadline.
LEMMA RecordInv ==
  ASSUME IInv, NEW transition \in Transition, Record(transition),
         transition = "ok" => batch # <<>>, steps < MaxSteps,
         now' \in Nat, now' <= AgentBudget + VerifyBudget,
         UNCHANGED <<stall, open, retryVars, disk, result, run_config>>
  PROVE  IInv'
<1>1. /\ batch' \in Seq(Actions) /\ Len(batch') <= MaxBatch
      /\ transitions' \in Seq(Transition) /\ transitions' # <<>>
      /\ chain' \in Seq(Transition)
      /\ UNCHANGED <<final, outcome>>
      /\ pc' = "batch" /\ steps' = steps + 1
  BY RecordType DEF IInv
<1>2. Shape' /\ Clocks' /\ Retries'
  BY <1>1 DEF IInv, Shape, Clocks, Retries, retryVars
<1>3. Counting'
  BY <1>1, EpisodeAssumption DEF IInv, Counting
<1>4. QED
  BY <1>2, <1>3 DEF IInv

\* A failure between two actions, within the agent deadline or the grader.
LEMMA FailureInv ==
  ASSUME IInv, pc' = "close", outcome' \in Outcome,
         outcome'.end = "drift" => run_config.replay /\ ~drift_retried,
         now' \in Nat, now' <= AgentBudget + VerifyBudget,
         UNCHANGED <<loopVars, stall, open, retryVars, disk, result, run_config>>
  PROVE  IInv'
BY DEF IInv, Shape, Clocks, Counting, Retries, retryVars, loopVars

LEMMA RunActionInv == IInv /\ RunAction /\ UNCHANGED run_config => IInv'
<1> SUFFICES ASSUME IInv, RunAction, UNCHANGED run_config PROVE IInv'
  OBVIOUS
<1>1. steps < MaxSteps /\ batch # <<>> /\ UNCHANGED <<stall, open, retryVars, disk, result>>
  BY DEF RunAction, Acting
<1>2. now' \in Nat /\ now' <= AgentBudget + VerifyBudget
  BY EpisodeAssumption DEF RunAction, IInv, Clocks
<1>3. CASE Record("ok") \/ Record("truncated_run")
  BY <1>1, <1>2, <1>3, RecordInv DEF Transition
<1>4. CASE (env_boundary \/ policy_boundary) /\ UNCHANGED loopVars
  BY <1>1, <1>2, <1>4, BoundaryEnds, FailureInv
<1>5. CASE Drifts /\ UNCHANGED loopVars
  BY <1>1, <1>2, <1>5, DriftEnds, FailureInv
<1>6. QED
  BY <1>3, <1>4, <1>5 DEF RunAction

LEMMA PrepareSubmitInv == IInv /\ PrepareSubmit /\ UNCHANGED run_config => IInv'
<1> SUFFICES ASSUME IInv, PrepareSubmit, UNCHANGED run_config PROVE IInv'
  OBVIOUS
<1>1. steps < MaxSteps /\ batch # <<>> /\ UNCHANGED <<stall, open, retryVars, disk, result>>
  BY DEF PrepareSubmit, Acting
<1>2. now' \in Nat /\ now' <= AgentBudget
  BY EpisodeAssumption DEF PrepareSubmit, IInv, Clocks
<1>3. now' <= AgentBudget + VerifyBudget
  BY <1>2, EpisodeAssumption
<1>4. CASE \E verdict \in Verdict : Record(verdict)
  BY <1>1, <1>2, <1>3, <1>4, RecordInv DEF Transition
<1>5. CASE pc' = "verify" /\ UNCHANGED outcome /\ UNCHANGED loopVars
  BY <1>1, <1>2, <1>3, <1>5 DEF IInv, Shape, Clocks, Counting, Retries, loopVars, retryVars
<1>6. CASE env_boundary /\ UNCHANGED loopVars
  BY <1>1, <1>2, <1>3, <1>6, BoundaryEnds, FailureInv
<1>7. CASE Drifts /\ UNCHANGED loopVars
  BY <1>1, <1>2, <1>3, <1>7, DriftEnds, FailureInv
<1>8. CASE End(Failure("task_timeout", "none")) /\ UNCHANGED loopVars
  BY <1>1, <1>2, <1>3, <1>8, EndsWith, FailureInv
<1>9. QED
  BY <1>4, <1>5, <1>6, <1>7, <1>8 DEF PrepareSubmit

LEMMA VerifyInv == IInv /\ Verify /\ UNCHANGED run_config => IInv'
<1> SUFFICES ASSUME IInv, Verify, UNCHANGED run_config PROVE IInv'
  OBVIOUS
<1>1. steps < MaxSteps /\ UNCHANGED <<stall, open, retryVars, disk, result>>
  BY DEF Verify, IInv, Counting
<1>2. now' \in Nat /\ now' <= AgentBudget + VerifyBudget
  BY EpisodeAssumption DEF Verify, IInv, Clocks
<1>3. CASE \E verdict \in Verdict \cup {"truncated_verify"} : Record(verdict)
  BY <1>1, <1>2, <1>3, RecordInv DEF Transition, Verdict
<1>4. CASE env_boundary /\ UNCHANGED loopVars
  BY <1>1, <1>2, <1>4, BoundaryEnds, FailureInv
<1>5. QED
  BY <1>3, <1>4 DEF Verify

LEMMA NoValidActionInv == IInv /\ NoValidAction /\ UNCHANGED run_config => IInv'
<1> SUFFICES ASSUME IInv, NoValidAction, UNCHANGED run_config PROVE IInv'
  OBVIOUS
<1> USE DEF IInv, NoValidAction, clockVars, retryVars
<1>1. steps' \in Nat /\ steps' <= MaxSteps
  BY EpisodeAssumption DEF BatchOver, Counting
<1>2. CASE steps' >= MaxSteps
  <2>1. outcome' = Ending("step_cap", final, steps') /\ pc' = "close"
    BY <1>2 DEF End
  <2>2. steps' \in Int /\ final \in Transition \cup {"none"}
    BY <1>1 DEF Shape
  <2>3. outcome' \in Outcome /\ outcome'.end = "step_cap"
    BY <2>1, <2>2, OutcomeType
  <2>4. QED
    BY <1>1, <2>1, <2>3 DEF Shape, Clocks, Counting, Retries
<1>3. CASE ~(steps' >= MaxSteps)
  BY <1>1, <1>3, EpisodeAssumption DEF Shape, Clocks, Counting, Retries
<1>4. QED
  BY <1>2, <1>3

LEMMA ObserveInv == IInv /\ Observe /\ UNCHANGED run_config => IInv'
<1> SUFFICES ASSUME IInv, Observe, UNCHANGED run_config PROVE IInv'
  OBVIOUS
<1> DEFINE last == Last(transitions)
<1>1. last \in Transition
  <2>1. transitions \in Seq(Transition) /\ transitions # <<>>
    BY DEF IInv, Shape, Observe
  <2>2. QED
    BY <2>1 DEF Last
<1>2. /\ transitions' = <<>> /\ batch' = <<>>
      /\ UNCHANGED <<now, steps, chain, open, retryVars, disk, result>>
  BY DEF Observe
<1>3. CASE policy_boundary /\ UNCHANGED <<final, stall>>
  BY <1>2, <1>3, BoundaryEnds, EpisodeAssumption
     DEF IInv, Shape, Clocks, Counting, Retries, retryVars
<1>4. CASE /\ final' = last /\ stall' = now + StallBudget
           /\ \/ \E end \in {"submitted", "budget", "step_cap"} : End(Ending(end, last, steps))
              \/ steps < MaxSteps /\ pc' = "act" /\ UNCHANGED outcome
  <2>1. Clocks'
    BY <1>2, <1>4, EpisodeAssumption DEF IInv, Clocks, End
  <2>2. CASE \E end \in {"submitted", "budget", "step_cap"} : End(Ending(end, last, steps))
    <3>1. outcome' \in Outcome /\ outcome'.end # "drift" /\ pc' = "close"
      BY <1>1, <2>2, OutcomeType DEF End, IInv, Counting
    <3>2. QED
      BY <1>1, <1>2, <1>4, <2>1, <3>1, EpisodeAssumption
         DEF IInv, Shape, Counting, Retries, retryVars
  <2>3. CASE steps < MaxSteps /\ pc' = "act" /\ UNCHANGED outcome
    BY <1>1, <1>2, <1>4, <2>1, <2>3, EpisodeAssumption
       DEF IInv, Shape, Counting, Retries, retryVars
  <2>4. QED
    BY <1>4, <2>2, <2>3
<1>5. QED
  BY <1>3, <1>4 DEF Observe

LEMMA CloseInv == IInv /\ Close /\ UNCHANGED run_config => IInv'
<1> SUFFICES ASSUME IInv, Close, UNCHANGED run_config PROVE IInv'
  OBVIOUS
<1>1. attempt \in Nat
  BY DEF IInv, Retries
<1>2. result' \in Result
  BY <1>1, ResultType DEF Close, IInv, Shape
<1>3. disk'.attempt \in Nat
  BY <1>1 DEF Close
<1>4. /\ pc' \in {"gone", "drifted", "returned"}
      /\ pc' = "drifted" => outcome.end = "drift"
      /\ UNCHANGED <<clockVars, loopVars, outcome, retryVars>>
  BY DEF Close
<1>5. QED
  BY <1>2, <1>3, <1>4 DEF IInv, Shape, Clocks, Counting, Retries, clockVars, loopVars, retryVars

\* Starting over.
LEMMA NewAttemptInv ==
  ASSUME IInv, NewAttempt, UNCHANGED <<disk, result, run_config>>
  PROVE  Shape' /\ Clocks' /\ Counting' /\ outcome'.end = "none" /\ pc' = "build"
<1>1. outcome' \in Outcome /\ outcome'.end = "none"
  BY OutcomeType DEF NewAttempt, NoOutcome
<1>2. Shape'
  BY <1>1, EpisodeAssumption DEF IInv, Shape, NewAttempt
<1>3. QED
  BY <1>1, <1>2, EpisodeAssumption DEF Clocks, Counting, NewAttempt

LEMMA RetryAfterDriftInv == IInv /\ RetryAfterDrift /\ UNCHANGED run_config => IInv'
<1> SUFFICES ASSUME IInv, RetryAfterDrift, UNCHANGED run_config PROVE IInv'
  OBVIOUS
<1>1. Shape' /\ Clocks' /\ Counting' /\ outcome'.end = "none" /\ pc' = "build"
  BY NewAttemptInv DEF RetryAfterDrift
<1>2. ~drift_retried /\ run_config.replay
  BY DEF IInv, Retries, RetryAfterDrift
<1>3. drift_retried' = TRUE /\ UNCHANGED slow_llm_retried /\ attempt' = attempt + 1
  BY DEF RetryAfterDrift, NewAttempt
<1>4. CASE slow_llm_retried
  <2>1. attempt' = 3
    BY <1>2, <1>3, <1>4 DEF IInv, Retries
  <2>2. QED
    BY <1>1, <1>2, <1>3, <1>4, <2>1 DEF IInv, Retries
<1>5. CASE ~slow_llm_retried
  <2>1. attempt' = 2
    BY <1>2, <1>3, <1>5 DEF IInv, Retries
  <2>2. QED
    BY <1>1, <1>2, <1>3, <1>5, <2>1 DEF IInv, Retries
<1>6. QED
  BY <1>4, <1>5

LEMMA RetrySlowLlmInv == IInv /\ RetrySlowLlm /\ UNCHANGED run_config => IInv'
<1> SUFFICES ASSUME IInv, RetrySlowLlm, UNCHANGED run_config PROVE IInv'
  OBVIOUS
<1>1. Shape' /\ Clocks' /\ Counting' /\ outcome'.end = "none" /\ pc' = "build"
  BY NewAttemptInv DEF RetrySlowLlm
<1>2. /\ ~slow_llm_retried /\ slow_llm_retried' = TRUE /\ UNCHANGED drift_retried
      /\ attempt' = attempt + 1 /\ run_config.is_deterministic
  BY DEF RetrySlowLlm, NewAttempt
<1>3. CASE drift_retried
  <2>1. attempt' = 3
    BY <1>2, <1>3 DEF IInv, Retries
  <2>2. QED
    BY <1>1, <1>2, <1>3, <2>1 DEF IInv, Retries
<1>4. CASE ~drift_retried
  <2>1. attempt' = 2
    BY <1>2, <1>4 DEF IInv, Retries
  <2>2. QED
    BY <1>1, <1>2, <1>4, <2>1 DEF IInv, Retries
<1>5. QED
  BY <1>3, <1>4

LEMMA ReturnInv == IInv /\ Return /\ UNCHANGED run_config => IInv'
<1> SUFFICES ASSUME IInv, Return, UNCHANGED run_config PROVE IInv'
  OBVIOUS
<1>1. result' \in Result
  BY DEF IInv, Shape, Return, Result, FailureMode
<1>2. pc' = "done" /\ UNCHANGED <<clockVars, loopVars, outcome, retryVars, disk>>
  BY DEF Return
<1>3. QED
  BY <1>1, <1>2 DEF IInv, Shape, Clocks, Counting, Retries, clockVars, loopVars, retryVars

LEMMA CancelledInv == IInv /\ Cancelled => IInv'
<1> SUFFICES ASSUME IInv, Cancelled PROVE IInv'
  OBVIOUS
<1>1. CASE Cancel
  <2>1. pc' = "close" /\ outcome' \in Outcome /\ outcome'.end # "drift"
    BY <1>1, EndsWith DEF Cancel
  <2>2. UNCHANGED <<clockVars, loopVars, open, retryVars, disk, result, run_config>>
    BY <1>1 DEF Cancel, Cancelled
  <2>3. QED
    BY <2>1, <2>2 DEF IInv, Shape, Clocks, Counting, Retries, clockVars, loopVars, retryVars
<1>2. CASE CancelOutsideLoop
  <2>1. pc' = "gone" /\ UNCHANGED <<clockVars, loopVars, outcome, retryVars, disk, result, run_config>>
    BY <1>2 DEF CancelOutsideLoop, Cancelled
  <2>2. QED
    BY <2>1 DEF IInv, Shape, Clocks, Counting, Retries, clockVars, loopVars, retryVars
<1>3. QED
  BY <1>1, <1>2 DEF Cancelled

LEMMA NextInv == IInv /\ [Next]_vars => IInv'
<1> SUFFICES ASSUME IInv, [Next]_vars PROVE IInv'
  OBVIOUS
<1>1. CASE Rollout
  BY <1>1, BuildInv, SetupInv, ActInv, ActTimesOutInv, RunActionInv, PrepareSubmitInv, VerifyInv,
     NoValidActionInv, ObserveInv, CloseInv, RetryAfterDriftInv, RetrySlowLlmInv, ReturnInv
     DEF Rollout, Loop
<1>2. CASE Cancelled
  BY <1>2, CancelledInv
<1>3. CASE UNCHANGED vars
  BY <1>3 DEF IInv, Shape, Clocks, Counting, Retries, vars, clockVars, loopVars, retryVars
<1>4. QED
  BY <1>1, <1>2, <1>3 DEF Next, Over

LEMMA Invariance == Spec => []IInv
<1>1. Init => IInv
  BY InitInv DEF IInv
<1>2. QED
  BY <1>1, NextInv, PTL DEF Spec

-----------------------------------------------------------------------------
(* Budgets and retries.                                                    *)

\* Time passes the agent deadline in the grader only, for every budget
\* (timeout_at(agent_deadline) around act, step_run and prepare_submit).
THEOREM BudgetSafe == Spec => AgentBudgetHolds
<1>1. IInv /\ [Next]_vars => [now' # now /\ now' > AgentBudget => pc = "verify"]_vars
  <2> SUFFICES ASSUME IInv, Next, now' # now, now' > AgentBudget
               PROVE  pc = "verify"
    BY DEF vars, clockVars
  <2>1. now \in Nat /\ stall \in Nat /\ AgentBudget \in Nat
    BY EpisodeAssumption DEF IInv, Clocks
  <2>2. ~(Build \/ Setup \/ NoValidAction \/ Observe \/ Close \/ Return \/ Cancelled \/ Over)
    BY DEF Build, Setup, NoValidAction, Observe, Close, Return, Cancelled, Cancel,
           CancelOutsideLoop, Over, vars, clockVars
  <2>3. ~(RetryAfterDrift \/ RetrySlowLlm)
    BY <2>1 DEF RetryAfterDrift, RetrySlowLlm, NewAttempt
  <2>4. ~(Act \/ ActTimesOut)
    BY <2>1 DEF Act, ActTimesOut, Earliest
  <2>5. ~(RunAction \/ PrepareSubmit)
    BY <2>1 DEF RunAction, PrepareSubmit
  <2>6. QED
    BY <2>2, <2>3, <2>4, <2>5 DEF Next, Rollout, Loop, Verify
<1>2. QED
  BY <1>1, Invariance, PTL DEF Spec, AgentBudgetHolds

\* What drifted is not replayed again (force_live=drift_retried).
THEOREM DriftSafe == Spec => []DriftsOnce
<1>1. IInv => DriftsOnce
  <2> SUFFICES ASSUME IInv, outcome.end = "drift" PROVE ~drift_retried /\ attempt <= 2
    BY DEF DriftsOnce
  <2>1. ~drift_retried
    BY DEF IInv, Retries
  <2>2. CASE slow_llm_retried
    BY <2>1, <2>2 DEF IInv, Retries
  <2>3. CASE ~slow_llm_retried
    BY <2>1, <2>3 DEF IInv, Retries
  <2>4. QED
    BY <2>1, <2>2, <2>3
<1>2. QED
  BY <1>1, Invariance, PTL

\* A nondeterministic model is asked once ("Nondeterministic retry would resample").
THEOREM SampleSafe == Spec => []NeverResamples
<1>1. IInv => NeverResamples
  <2> SUFFICES ASSUME IInv, ~run_config.is_deterministic PROVE attempt = 1
    BY DEF NeverResamples
  <2>1. ~run_config.replay
    BY DEF IInv, Shape, RunConfig
  <2>2. ~drift_retried /\ ~slow_llm_retried
    BY <2>1 DEF IInv, Retries
  <2>3. QED
    BY <2>2 DEF IInv, Retries
<1>2. QED
  BY <1>1, Invariance, PTL

-----------------------------------------------------------------------------
(* What is left open.                                                      *)

InLoop == pc \in {"build", "setup", "act", "batch", "verify"}

\* The loop leaves everything around it alone.
LEMMA LoopFrame ==
  ASSUME Loop
  PROVE  /\ InLoop
         /\ pc' \in {"setup", "act", "batch", "verify", "close"}
         /\ UNCHANGED <<open, retryVars, disk, result>>
<1>1. CASE Build \/ Setup
  BY <1>1 DEF Build, Setup, InLoop, policy_boundary, env_boundary, End
<1>2. CASE Act \/ ActTimesOut
  BY <1>2 DEF Act, ActTimesOut, InLoop, policy_boundary, End
<1>3. CASE RunAction \/ PrepareSubmit \/ Verify
  BY <1>3 DEF RunAction, PrepareSubmit, Verify, Acting, Record, InLoop, policy_boundary,
              env_boundary, Drifts, End
<1>4. CASE NoValidAction \/ Observe
  BY <1>4 DEF NoValidAction, Observe, BatchOver, InLoop, policy_boundary, End
<1>5. QED
  BY <1>1, <1>2, <1>3, <1>4 DEF Loop

\* How an attempt ends whose container start was given up.
GaveUp(o) ==
  \/ o.end \in {"setup_timeout", "task_timeout", "budget", "crash", "unscorable_infra",
               "escape", "drift"}
  \/ o.end = "submitted" /\ o.final = "truncated_verify"

Unclean == {"crash", "unscorable_infra", "hit_timeout", "verify_timeout"}

\* A given-up start ends the attempt: nothing is executed or asked after it.
Adrift ==
  /\ container \in {"none", "up", "adrift"}
  /\ container = "adrift" =>
       /\ pc \notin {"build", "setup", "act", "verify"}
       /\ pc = "batch" =>
            /\ batch = <<>> /\ transitions # <<>>
            /\ Last(transitions) \in {"truncated_run", "truncated_verify"}
       /\ pc = "close" => GaveUp(outcome)
       /\ pc \in {"returned", "done"} => result.mode \in Unclean

LEMMA NotAdrift == ASSUME container' \in {"none", "up"} PROVE Adrift'
BY DEF Adrift

\* The attempt ends with a failure, wherever its container stands.
LEMMA FailsAdrift ==
  ASSUME Adrift, pc' = "close", container' \in {"none", "up", "adrift"},
         outcome'.end \in {"setup_timeout", "task_timeout", "crash", "unscorable_infra", "escape",
                          "drift"}
  PROVE  Adrift'
BY DEF Adrift, GaveUp

\* The last action of the attempt is cut short.
LEMMA RecordAdrift ==
  ASSUME IInv, Adrift, NEW transition \in {"truncated_run", "truncated_verify"},
         Record(transition), container' \in {"none", "up", "adrift"}
  PROVE  Adrift'
<1>1. transitions \in Seq(Transition) /\ transitions' = Append(transitions, transition)
  BY DEF IInv, Shape, Record
<1>2. transitions' # <<>> /\ Last(transitions') = transition
  BY <1>1 DEF Last, Transition
<1>3. pc' = "batch" /\ batch' = <<>>
  BY DEF Record
<1>4. QED
  BY <1>2, <1>3 DEF Adrift

LEMMA LoopAdrift ==
  ASSUME IInv, Adrift, Loop
  PROVE  Adrift'
<1> USE DEF Starts, GivesUp
<1>1. CASE Build
  BY <1>1, NotAdrift DEF Build, Adrift
<1>2. CASE Setup
  <2>1. container \in {"none", "up"}
    BY <1>2 DEF Setup, Adrift
  <2>2. CASE container' \in {"up"} \cup (IF Replaying THEN {"none"} ELSE {})
    BY <2>2, NotAdrift
  <2>3. CASE (End(Failure("setup_timeout", "none")) \/ env_boundary) /\ GivesUp
    BY <2>1, <2>3, EndsWith, BoundaryEnds, FailsAdrift
  <2>4. QED
    BY <1>2, <2>2, <2>3 DEF Setup
<1>3. CASE Act \/ ActTimesOut
  BY <1>3, NotAdrift DEF Act, ActTimesOut, Adrift
<1>4. CASE RunAction
  <2>1. container \in {"none", "up"}
    BY <1>4 DEF RunAction, Acting, Adrift
  <2>2. CASE Starts \/ UNCHANGED container
    BY <2>1, <2>2, NotAdrift
  <2>3. CASE env_boundary /\ GivesUp
    BY <2>1, <2>3, BoundaryEnds, FailsAdrift
  <2>4. CASE Drifts
    BY <2>4, DriftEnds, NotAdrift
  <2>5. CASE Record("truncated_run") /\ GivesUp
    BY <2>1, <2>5, RecordAdrift
  <2>6. QED
    BY <1>4, <2>2, <2>3, <2>4, <2>5 DEF RunAction
<1>5. CASE PrepareSubmit
  <2>1. container \in {"none", "up"}
    BY <1>5 DEF PrepareSubmit, Acting, Adrift
  <2>2. CASE Starts \/ UNCHANGED container
    BY <2>1, <2>2, NotAdrift
  <2>3. CASE (env_boundary \/ End(Failure("task_timeout", "none"))) /\ GivesUp
    BY <2>1, <2>3, BoundaryEnds, EndsWith, FailsAdrift
  <2>4. CASE Drifts
    BY <2>4, DriftEnds, NotAdrift
  <2>5. QED
    BY <1>5, <2>2, <2>3, <2>4 DEF PrepareSubmit
<1>6. CASE Verify
  <2>1. container \in {"none", "up"}
    BY <1>6 DEF Verify, Adrift
  <2>2. CASE Starts
    BY <2>1, <2>2, NotAdrift
  <2>3. CASE env_boundary /\ GivesUp
    BY <2>1, <2>3, BoundaryEnds, FailsAdrift
  <2>4. CASE Record("truncated_verify") /\ GivesUp
    BY <2>1, <2>4, RecordAdrift
  <2>5. QED
    BY <1>6, <2>2, <2>3, <2>4 DEF Verify
<1>7. CASE NoValidAction
  BY <1>7, NotAdrift DEF NoValidAction, BatchOver, Adrift
<1>8. CASE Observe
  <2>1. container' = container /\ (container = "adrift" =>
                                    Last(transitions) \in {"truncated_run", "truncated_verify"})
    BY <1>8 DEF Observe, BatchOver, Adrift
  <2>2. CASE container # "adrift"
    BY <2>1, <2>2, NotAdrift DEF Adrift
  <2>3. CASE container = "adrift" /\ policy_boundary
    BY <2>1, <2>3, BoundaryEnds, FailsAdrift
  <2>4. CASE container = "adrift" /\ ~policy_boundary
    <3>1. \/ End(Ending("submitted", "truncated_verify", steps))
          \/ End(Ending("budget", "truncated_run", steps))
      BY <1>8, <2>1, <2>4 DEF Observe, Verdict
    <3>2. pc' = "close" /\ GaveUp(outcome')
      BY <3>1 DEF End, Ending, GaveUp
    <3>3. QED
      BY <2>1, <2>4, <3>2 DEF Adrift, GaveUp
  <2>5. QED
    BY <2>2, <2>3, <2>4
<1>9. QED
  BY <1>1, <1>2, <1>3, <1>4, <1>5, <1>6, <1>7, <1>8 DEF Loop

LEMMA AdriftInvariant == Spec => []Adrift
<1>1. Init => Adrift
  BY DEF Init, Adrift
<1>2. IInv /\ Adrift /\ [Next]_vars => Adrift'
  <2> SUFFICES ASSUME IInv, Adrift, [Next]_vars PROVE Adrift'
    OBVIOUS
  <2>1. CASE Loop
    BY <2>1, LoopAdrift
  <2>2. CASE Cancel
    BY <2>2, EndsWith, FailsAdrift DEF Cancel, GivesUp, Adrift
  <2>3. CASE CancelOutsideLoop
    BY <2>3 DEF CancelOutsideLoop, Adrift
  <2>4. CASE Close
    <3>1. PICK close_error \in BOOLEAN :
            pc' = "returned" => /\ result' = RolloutResult(outcome, close_error)
                                /\ outcome.end \notin {"escape", "drift"}
      BY <2>4 DEF Close
    <3>2. GaveUp(outcome) /\ outcome.end \notin {"escape", "drift"} =>
            classify(outcome) \in Unclean
      BY DEF GaveUp, classify, Unclean
    <3>3. pc' = "returned" /\ GaveUp(outcome) => result'.mode \in Unclean
      BY <3>1, <3>2 DEF RolloutResult, Unclean
    <3>4. QED
      BY <2>4, <3>3 DEF Close, Adrift
  <2>5. CASE RetryAfterDrift \/ RetrySlowLlm
    BY <2>5, NotAdrift DEF RetryAfterDrift, RetrySlowLlm, NewAttempt
  <2>6. CASE Return
    <3>1. result.mode \in Unclean => result'.mode \in Unclean
      BY <2>6 DEF Return, IInv, Shape, Result, Unclean
    <3>2. QED
      BY <2>6, <3>1 DEF Return, Adrift
  <2>7. CASE UNCHANGED vars
    BY <2>7 DEF vars, loopVars, Adrift, GaveUp
  <2>8. QED
    BY <2>1, <2>2, <2>3, <2>4, <2>5, <2>6, <2>7 DEF Next, Rollout, Cancelled, Over
<1>3. QED
  BY <1>1, <1>2, Invariance, PTL DEF Spec

Leak == [attempt: Nat, why: {"close", "start"}]

\* What an attempt may leave shows in its result; a failed close that does not is the
\* drifted attempt's.
Leaks ==
  /\ open \subseteq Leak
  /\ \A o \in open : 1 <= o.attempt /\ o.attempt <= attempt
  /\ InLoop \/ pc = "close" => \A o \in open : o.attempt # attempt
  /\ \A o, p \in open : o.why = "close" /\ o.attempt # attempt
                     /\ p.why = "close" /\ p.attempt # attempt => o = p
  /\ \A o \in open : o.why = "close" /\ o.attempt # attempt => drift_retried
  /\ pc = "returned" =>
       \A o \in open : o.why = "close" /\ o.attempt = attempt => result.mode = "crash"
  /\ pc = "done" =>
       \A o \in open : o.why = "close" /\ o.attempt = attempt =>
         result.mode \in {"crash", "unscorable_infra"}
  /\ pc \in {"returned", "done"} =>
       \A o \in open : o.why = "start" /\ o.attempt = attempt => container = "adrift"

LEMMA LeaksInvariant == Spec => []Leaks
<1>1. Init => Leaks
  BY DEF Init, Leaks
<1>2. IInv /\ Leaks /\ [Next]_vars => Leaks'
  <2> SUFFICES ASSUME IInv, Leaks, [Next]_vars PROVE Leaks'
    OBVIOUS
  <2>1. attempt \in 1..3
    BY DEF IInv, Retries
  <2>2. CASE Loop \/ Cancel
    <3>1. /\ InLoop /\ pc' \in {"setup", "act", "batch", "verify", "close"}
          /\ UNCHANGED <<open, retryVars, result>>
      BY <2>2, LoopFrame DEF Cancel, InLoop, End
    <3>2. QED
      BY <3>1 DEF Leaks, InLoop, retryVars
  <2>3. CASE Close
    <3>1. /\ pc = "close" /\ UNCHANGED <<container, retryVars>>
          /\ pc' \in {"gone", "drifted", "returned"}
      BY <2>3 DEF Close
    <3>2. PICK close_error \in BOOLEAN :
            /\ open' \in {open} \cup (IF close_error THEN {Left("close")} ELSE {})
                               \cup (IF container = "adrift" THEN {Left("start")} ELSE {})
            /\ result' = IF outcome.end \in {"escape", "drift"} THEN result
                         ELSE RolloutResult(outcome, close_error)
      BY <2>3 DEF Close
    <3>3. pc' = "returned" => outcome.end \notin {"escape", "drift"}
      BY <2>3 DEF Close
    <3>4. pc' = "returned" /\ close_error => result'.mode = "crash"
      BY <3>2, <3>3 DEF RolloutResult
    <3>5. CASE open' = open
      BY <3>1, <3>5 DEF Leaks, InLoop, retryVars
    <3>6. CASE close_error /\ open' = Left("close")
      BY <2>1, <3>1, <3>4, <3>6 DEF Leaks, Leak, Left, InLoop, retryVars
    <3>7. CASE container = "adrift" /\ open' = Left("start")
      BY <2>1, <3>1, <3>7 DEF Leaks, Leak, Left, InLoop, retryVars
    <3>8. QED
      BY <3>2, <3>5, <3>6, <3>7
  <2>4. CASE RetryAfterDrift
    <3>1. ~drift_retried /\ drift_retried'
      BY <2>4 DEF RetryAfterDrift, IInv, Retries
    <3>2. pc' = "build" /\ attempt' = attempt + 1 /\ UNCHANGED open
      BY <2>4 DEF RetryAfterDrift, NewAttempt
    <3>3. \A o \in open : o.why = "close" => o.attempt = attempt
      BY <3>1 DEF Leaks
    <3>4. \A o, p \in open : o.why = "close" /\ p.why = "close" => o = p
      BY <3>3 DEF Leaks, Leak
    <3>5. \A o \in open : 1 <= o.attempt /\ o.attempt <= attempt' /\ o.attempt # attempt'
      BY <2>1, <3>2 DEF Leaks, Leak
    <3>6. QED
      BY <3>1, <3>2, <3>4, <3>5 DEF Leaks, InLoop
  <2>5. CASE RetrySlowLlm
    <3>1. \A o \in open : o.why = "close" => o.attempt # attempt
      BY <2>5 DEF RetrySlowLlm, slow_llm_timeout, Leaks
    <3>2. pc' = "build" /\ attempt' = attempt + 1 /\ UNCHANGED <<open, drift_retried>>
      BY <2>5 DEF RetrySlowLlm, NewAttempt
    <3>3. \A o \in open : 1 <= o.attempt /\ o.attempt <= attempt' /\ o.attempt # attempt'
      BY <2>1, <3>2 DEF Leaks, Leak
    <3>4. QED
      BY <3>1, <3>2, <3>3 DEF Leaks, InLoop
  <2>6. CASE Return
    <3>1. /\ pc = "returned" /\ pc' = "done" /\ UNCHANGED <<container, open, retryVars>>
          /\ result.mode = "crash" => result'.mode \in {"crash", "unscorable_infra"}
      BY <2>6 DEF Return, IInv, Shape, Result
    <3>2. QED
      BY <3>1 DEF Leaks, InLoop, retryVars
  <2>7. CASE CancelOutsideLoop
    <3>1. pc' = "gone" /\ UNCHANGED retryVars /\ (open' = open \/ open' = Left("close"))
          /\ (open' # open => pc = "close")
      BY <2>7 DEF CancelOutsideLoop
    <3>2. QED
      BY <2>1, <3>1 DEF Leaks, Leak, Left, InLoop, retryVars
  <2>8. CASE UNCHANGED vars
    BY <2>8 DEF Leaks, InLoop, vars, retryVars
  <2>9. QED
    BY <2>2, <2>3, <2>4, <2>5, <2>6, <2>7, <2>8 DEF Next, Rollout, Cancelled, Over
<1>3. QED
  BY <1>1, <1>2, Invariance, PTL DEF Spec

\* What a recorded rollout leaves to the owner sweep shows in its result, but for the close
\* of its drifted attempt; a container whose start was given up is only left behind a
\* timeout or a failure (_close_resources, DockerShellSession.close).
THEOREM OpenSafe == Spec => []NothingLeftOpen
<1>1. Adrift /\ Leaks => NothingLeftOpen
  <2> SUFFICES ASSUME Adrift, Leaks, pc = "done"
               PROVE  /\ \A o \in open :
                           IF o.attempt = attempt
                           THEN result.mode \in {"crash", "unscorable_infra"}
                                  \cup (IF o.why = "start" THEN {"hit_timeout", "verify_timeout"}
                                        ELSE {})
                           ELSE o.why = "close" => drift_retried
                      /\ \A o, p \in {q \in open : q.why = "close" /\ q.attempt # attempt} :
                           o = p
    BY DEF NothingLeftOpen
  <2>1. \A o \in open : o.why \in {"close", "start"}
    BY DEF Leaks, Leak
  <2>2. \A o \in open : o.attempt = attempt /\ o.why = "start" => result.mode \in Unclean
    BY DEF Leaks, Adrift
  <2>3. \A o \in open : o.attempt = attempt /\ o.why = "close" =>
          result.mode \in {"crash", "unscorable_infra"}
    BY DEF Leaks
  <2>4. QED
    BY <2>1, <2>2, <2>3 DEF Leaks, Unclean
<1>2. QED
  BY <1>1, AdriftInvariant, LeaksInvariant, PTL

\* Type correctness, the step cap and the bound on retries included.
THEOREM TypeCorrect == Spec => []TypeOK
<1>1. IInv /\ Adrift /\ Leaks => TypeOK
  <2> SUFFICES ASSUME IInv, Adrift, Leaks PROVE TypeOK
    OBVIOUS
  <2>1. /\ now \in 0..(AgentBudget + VerifyBudget)
        /\ stall \in 0..(AgentBudget + VerifyBudget + StallBudget)
        /\ steps \in 0..MaxSteps
    BY EpisodeAssumption DEF IInv, Clocks, Counting
  <2>2. attempt \in 1..3
    BY DEF IInv, Retries
  <2>3. outcome.origin \in {"none", "policy", "env"} /\ result.mode \in FailureMode \cup {"none"}
    BY DEF IInv, Shape, Outcome, Result
  <2>4. {drift_retried, slow_llm_retried} \subseteq BOOLEAN
    BY DEF IInv, Retries
  <2>5. open \subseteq [attempt: 1..attempt, why: {"close", "start"}]
    BY <2>2 DEF Leaks, Leak
  <2>6. QED
    BY <2>1, <2>2, <2>3, <2>4, <2>5 DEF TypeOK, IInv, Shape, Adrift, Actions
<1>2. QED
  BY <1>1, Invariance, AdriftInvariant, LeaksInvariant, PTL

-----------------------------------------------------------------------------
(* What a result says.                                                     *)

\* Every path to a RolloutResult satisfies its validator (RolloutResult, records.py).
THEOREM ResultSafe == Spec => []ResultsAreValid
<1>1. Init => ResultsAreValid
  BY DEF Init, ResultsAreValid
<1>2. IInv /\ ResultsAreValid /\ [Next]_vars => ResultsAreValid'
  <2> SUFFICES ASSUME IInv, ResultsAreValid, [Next]_vars PROVE ResultsAreValid'
    OBVIOUS
  <2>1. CASE UNCHANGED result
    BY <2>1 DEF ResultsAreValid
  <2>2. CASE Close
    <3>1. \A close_error \in BOOLEAN :
            LET r == RolloutResult(outcome, close_error)
            IN /\ r.mode = "crash" <=> r.origin # "none"
               /\ r.error => r.mode # "solved"
      BY DEF RolloutResult, crash_origin, classify, has_error
    <3>2. QED
      BY <2>2, <3>1 DEF Close, ResultsAreValid
  <2>3. CASE Return
    BY <2>3 DEF Return, ResultsAreValid, IInv, Shape, Result, NoResult
  <2>4. CASE Loop \/ RetryAfterDrift \/ RetrySlowLlm \/ Cancelled \/ UNCHANGED vars
    BY <2>1, <2>4, LoopFrame
       DEF RetryAfterDrift, RetrySlowLlm, Cancelled, Cancel, CancelOutsideLoop, vars
  <2>5. QED
    BY <2>2, <2>3, <2>4 DEF Next, Rollout, Over
<1>3. QED
  BY <1>1, <1>2, Invariance, PTL DEF Spec

\* The actions of the chain up to position n all went on.
OkUpTo(n) == \A i \in 1..n : chain[i] = "ok"

Earned ==
  /\ chain # <<>> /\ Last(chain) = "passed" /\ OkUpTo(Len(chain) - 1)
  /\ outcome.steps = steps

\* The chain goes on only from "ok" to "ok"; what waits to be observed is its end; a
\* passing submission is earned, and a result tells the outcome of its attempt.
Chains ==
  /\ Len(chain) <= steps
  /\ pc \in {"build", "setup", "act", "verify"} => OkUpTo(Len(chain))
  /\ pc \in {"build", "setup", "act"} => transitions = <<>>
  /\ pc = "batch" =>
       /\ OkUpTo(Len(chain) - 1)
       /\ batch # <<>> \/ transitions = <<>> => OkUpTo(Len(chain))
       /\ transitions # <<>> => chain # <<>> /\ Last(chain) = Last(transitions)
  /\ pc \in {"close", "returned", "done"} =>
       (outcome.end = "submitted" /\ outcome.final = "passed" => Earned)
  /\ pc \in {"returned", "done"} =>
       /\ disk = [attempt |-> attempt, chain |-> chain]
       /\ result.attempt = attempt
       /\ result.mode = "solved" =>
            /\ outcome.end = "submitted" /\ outcome.final = "passed"
            /\ result.steps = outcome.steps

\* Executing one more action.
LEMMA RecordChains ==
  ASSUME IInv, Chains, NEW transition \in Transition, Record(transition),
         OkUpTo(Len(chain)), transition = "ok" => batch # <<>>
  PROVE  Chains'
<1>1. /\ chain \in Seq(Transition) /\ transitions \in Seq(Transition)
      /\ Len(chain) \in Nat /\ steps \in Nat
  BY DEF IInv, Shape, Counting
<1>2. /\ chain' = Append(chain, transition) /\ transitions' = Append(transitions, transition)
      /\ steps' = steps + 1 /\ pc' = "batch"
      /\ transition # "ok" => batch' = <<>>
  BY DEF Record
<1>3. /\ Len(chain') = Len(chain) + 1 /\ chain' # <<>> /\ transitions' # <<>>
      /\ Last(chain') = transition /\ Last(transitions') = transition
      /\ \A i \in 1..Len(chain) : chain'[i] = chain[i]
      /\ chain'[Len(chain')] = transition
  BY <1>1, <1>2 DEF Last
<1>4. OkUpTo(Len(chain) - 1)'
  BY <1>1, <1>3 DEF OkUpTo
<1>5. transition = "ok" => OkUpTo(Len(chain))'
  BY <1>1, <1>3 DEF OkUpTo
<1>6. QED
  BY <1>1, <1>2, <1>3, <1>4, <1>5 DEF Chains

\* The attempt ends otherwise than by a submission.
LEMMA EndChains ==
  ASSUME Chains, pc' = "close", outcome'.end # "submitted",
         UNCHANGED <<steps, chain>>
  PROVE  Chains'
BY DEF Chains

LEMMA LoopChains ==
  ASSUME IInv, Chains, Loop
  PROVE  Chains'
<1>1. CASE Build \/ Setup
  <2>1. UNCHANGED loopVars
    BY <1>1 DEF Build, Setup
  <2>2. CASE pc' \in {"setup", "act"}
    BY <1>1, <2>1, <2>2 DEF Build, Setup, Chains, OkUpTo, loopVars
  <2>3. CASE policy_boundary \/ env_boundary \/ End(Failure("setup_timeout", "none"))
    BY <2>1, <2>3, BoundaryEnds, EndsWith, EndChains DEF loopVars
  <2>4. QED
    BY <1>1, <2>2, <2>3 DEF Build, Setup
<1>2. CASE Act
  <2>1. UNCHANGED <<steps, transitions, final, chain>>
    BY <1>2 DEF Act
  <2>2. CASE pc' = "batch"
    BY <1>2, <2>1, <2>2 DEF Act, Chains, OkUpTo, IInv, Shape
  <2>3. CASE policy_boundary
    BY <2>1, <2>3, BoundaryEnds, EndChains
  <2>4. CASE End(Ending("gave_up", final, steps))
    <3>1. pc' = "close" /\ outcome'.end # "submitted"
      BY <2>4, OutcomeType DEF End, IInv, Shape, Counting
    <3>2. QED
      BY <2>1, <3>1, EndChains
  <2>5. QED
    BY <1>2, <2>2, <2>3, <2>4 DEF Act
<1>3. CASE ActTimesOut
  <2>1. pc' = "close" /\ outcome'.end # "submitted"
    BY <1>3, EndsWith DEF ActTimesOut
  <2>2. QED
    BY <1>3, <2>1, EndChains DEF ActTimesOut, loopVars
<1>4. CASE RunAction \/ PrepareSubmit
  <2>1. OkUpTo(Len(chain)) /\ batch # <<>>
    BY <1>4 DEF RunAction, PrepareSubmit, Acting, Chains
  <2>2. CASE \E transition \in Transition : Record(transition)
    BY <2>1, <2>2, RecordChains
  <2>3. CASE /\ env_boundary \/ policy_boundary \/ Drifts \/ End(Failure("task_timeout", "none"))
             /\ UNCHANGED loopVars
    BY <2>3, BoundaryEnds, DriftEnds, EndsWith, EndChains DEF loopVars
  <2>4. CASE pc' = "verify" /\ UNCHANGED loopVars
    BY <2>1, <2>4 DEF Chains, OkUpTo, loopVars
  <2>5. QED
    BY <1>4, <2>2, <2>3, <2>4 DEF RunAction, PrepareSubmit, Transition, Verdict
<1>5. CASE Verify
  <2>1. OkUpTo(Len(chain))
    BY <1>5 DEF Verify, Chains
  <2>2. CASE \E transition \in Transition \ {"ok"} : Record(transition)
    BY <2>1, <2>2, RecordChains
  <2>3. CASE env_boundary /\ UNCHANGED loopVars
    BY <2>3, BoundaryEnds, EndChains DEF loopVars
  <2>4. QED
    BY <1>5, <2>2, <2>3 DEF Verify, Transition, Verdict
<1>6. CASE NoValidAction
  <2>1. /\ transitions = <<>> /\ OkUpTo(Len(chain)) /\ UNCHANGED <<transitions, chain>>
        /\ steps' = steps + 1
    BY <1>6 DEF NoValidAction, BatchOver, Chains
  <2>2. Len(chain) \in Nat /\ steps \in Nat
    BY DEF IInv, Shape, Counting
  <2>3. CASE pc' = "act"
    BY <2>1, <2>2, <2>3 DEF Chains, OkUpTo
  <2>4. CASE pc' = "close" /\ outcome' = Ending("step_cap", final, steps')
    BY <2>1, <2>2, <2>4 DEF Chains, Ending
  <2>5. QED
    BY <1>6, <2>3, <2>4 DEF NoValidAction, End
<1>7. CASE Observe
  <2> DEFINE last == Last(transitions)
  <2>1. /\ transitions # <<>> /\ transitions' = <<>> /\ UNCHANGED <<steps, chain>>
        /\ OkUpTo(Len(chain) - 1) /\ chain # <<>> /\ Last(chain) = last
    BY <1>7 DEF Observe, BatchOver, Chains
  <2>2. chain \in Seq(Transition) /\ Len(chain) \in Nat
    BY DEF IInv, Shape
  <2>3. CASE policy_boundary
    BY <2>1, <2>3, BoundaryEnds, EndChains
  <2>4. CASE End(Ending("submitted", last, steps))
    <3>1. outcome'.final = last /\ outcome'.steps = steps /\ pc' = "close"
      BY <2>4 DEF End, Ending
    <3>2. QED
      BY <2>1, <3>1 DEF Chains, Earned, OkUpTo
  <2>5. CASE End(Ending("budget", last, steps)) \/ End(Ending("step_cap", last, steps))
    <3>1. pc' = "close" /\ outcome'.end # "submitted"
      BY <2>5 DEF End, Ending
    <3>2. QED
      BY <2>1, <3>1, EndChains
  <2>6. CASE last = "ok" /\ pc' = "act"
    <3>1. chain[Len(chain)] = "ok"
      BY <2>1, <2>6 DEF Last
    <3>2. OkUpTo(Len(chain))
      BY <2>1, <2>2, <3>1 DEF OkUpTo
    <3>3. QED
      BY <2>1, <2>6, <3>2 DEF Chains, OkUpTo
  <2>7. QED
    BY <1>7, <2>3, <2>4, <2>5, <2>6 DEF Observe
<1>8. QED
  BY <1>1, <1>2, <1>3, <1>4, <1>5, <1>6, <1>7 DEF Loop

LEMMA ChainsInvariant == Spec => []Chains
<1>1. Init => Chains
  BY DEF Init, Chains, OkUpTo
<1>2. IInv /\ Chains /\ [Next]_vars => Chains'
  <2> SUFFICES ASSUME IInv, Chains, [Next]_vars PROVE Chains'
    OBVIOUS
  <2>1. CASE Loop
    BY <2>1, LoopChains
  <2>2. CASE Cancel
    BY <2>2, EndsWith, EndChains DEF Cancel, loopVars
  <2>3. CASE CancelOutsideLoop
    BY <2>3 DEF CancelOutsideLoop, Chains, loopVars
  <2>4. CASE Close
    <3>1. /\ UNCHANGED <<loopVars, outcome, retryVars>>
          /\ disk' = [attempt |-> attempt, chain |-> chain]
          /\ pc' \in {"gone", "drifted", "returned"}
          /\ outcome.end = "submitted" /\ outcome.final = "passed" => Earned
      BY <2>4 DEF Close, Chains
    <3>2. PICK close_error \in BOOLEAN :
            pc' = "returned" => result' = RolloutResult(outcome, close_error)
      BY <2>4 DEF Close
    <3>3. pc' = "returned" => /\ result'.attempt = attempt /\ result'.steps = outcome.steps
                              /\ result'.mode = "solved" => classify(outcome) = "solved"
      BY <3>2 DEF RolloutResult
    <3>4. classify(outcome) = "solved" => outcome.end = "submitted" /\ outcome.final = "passed"
      BY DEF classify
    <3>5. QED
      BY <3>1, <3>3, <3>4 DEF Chains, Earned, OkUpTo, loopVars, retryVars
  <2>5. CASE RetryAfterDrift \/ RetrySlowLlm
    <3>1. pc' = "build" /\ steps' = 0 /\ transitions' = <<>> /\ chain' = <<>>
      BY <2>5 DEF RetryAfterDrift, RetrySlowLlm, NewAttempt
    <3>2. QED
      BY <3>1 DEF Chains, OkUpTo
  <2>6. CASE Return
    <3>1. /\ pc = "returned" /\ pc' = "done"
          /\ UNCHANGED <<loopVars, outcome, retryVars, disk>>
      BY <2>6 DEF Return
    <3>2. /\ result'.attempt = result.attempt /\ result'.steps = result.steps
          /\ result'.mode = "solved" => result.mode = "solved"
      BY <2>6 DEF Return, IInv, Shape, Result
    <3>3. QED
      BY <3>1, <3>2 DEF Chains, Earned, OkUpTo, loopVars, retryVars
  <2>7. CASE UNCHANGED vars
    BY <2>7 DEF Chains, Earned, OkUpTo, vars, loopVars, retryVars
  <2>8. QED
    BY <2>1, <2>2, <2>3, <2>4, <2>5, <2>6, <2>7 DEF Next, Rollout, Cancelled, Over
<1>3. QED
  BY <1>1, <1>2, Invariance, PTL DEF Spec

\* A recorded solve is earned by the attempt it names, whose chain is the one on disk
\* (run_task_loop, write_chain, _classify_loop_result).
THEOREM SolveSafe == Spec => []SolvedIsEarned
<1>1. IInv /\ Chains => SolvedIsEarned
  BY DEF IInv, Counting, Chains, Earned, OkUpTo, SolvedIsEarned
<1>2. QED
  BY <1>1, Invariance, ChainsInvariant, PTL
=============================================================================
