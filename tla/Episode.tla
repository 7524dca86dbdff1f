------------------------------ MODULE Episode ------------------------------
(***************************************************************************)
(* One task's rollout: the retry envelope of src/rollout/sampler.py around *)
(* RolloutRunner.run and run_task_loop (src/rollout/episode.py).  Policy   *)
(* and environment may answer, raise or take any time the budgets leave    *)
(* them; a sibling's failure may cancel the rollout at any point.          *)
(*                                                                         *)
(* Time is counted in ticks from the start of the attempt's agent budget.  *)
(***************************************************************************)
EXTENDS Integers, Sequences, FiniteSets, SequencesExt

CONSTANTS
  MaxSteps,      \* max_steps
  MaxBatch,      \* bound: actions of one decision
  AgentBudget,   \* agent_timeout_sec
  StallBudget,   \* stall_timeout_sec
  VerifyBudget   \* verify_timeout_sec and its backstop

ASSUME EpisodeAssumption ==
  {MaxSteps, MaxBatch, AgentBudget, StallBudget, VerifyBudget} \subseteq Nat \ {0}

\* plugins.execution = "replay" and llm_provider_config.is_deterministic; config
\* validation refuses to replay a nondeterministic provider.
RunConfig ==
  {c \in [replay: BOOLEAN, is_deterministic: BOOLEAN] : c.replay => c.is_deterministic}

VARIABLES
  run_config,
  pc,
  now,           \* ticks since agent_deadline was set
  stall,         \* stall_deadline
  steps,         \* step_index
  batch,         \* actions of the decision still to execute
  transitions,   \* what this decision's actions returned
  final,         \* the last observed transition
  chain,         \* action_chain: what each executed action returned
  outcome,       \* the LoopOutcome, or the exception that escapes the loop
  container,     \* of this attempt; "adrift": its start was given up, the thread goes on
  open,          \* attempts that may have left something running, and why
  attempt,       \* attempts started
  drift_retried, slow_llm_retried,
  disk,          \* the chain file, and the attempt that wrote it
  result         \* the RolloutResult

clockVars == <<now, stall>>
loopVars == <<steps, batch, transitions, final, chain>>
retryVars == <<attempt, drift_retried, slow_llm_retried>>
vars == <<run_config, pc, clockVars, loopVars, outcome, container, open, retryVars, disk, result>>

-----------------------------------------------------------------------------
\* StepResults: a run answers "ok", a verify one of the verdicts; both may be
\* truncated by their budget.
Verdict == {"passed", "failed", "incomplete"}
Transition == {"ok", "truncated_run", "truncated_verify"} \cup Verdict

NoOutcome == [end |-> "none", final |-> "none", steps |-> -1, origin |-> "none"]

\* Failure endings carry no final transition and no step count.
Failure(end, origin) == [end |-> end, final |-> "none", steps |-> -1, origin |-> origin]

Ending(end, last, count) == [end |-> end, final |-> last, steps |-> count, origin |-> "none"]

NoResult == [mode |-> "none", origin |-> "none", error |-> FALSE, steps |-> -1, attempt |-> 0]

Init ==
  /\ run_config \in RunConfig
  /\ pc = "build"
  /\ now = 0 /\ stall = StallBudget
  /\ steps = 0 /\ batch = <<>> /\ transitions = <<>> /\ final = "none" /\ chain = <<>>
  /\ outcome = NoOutcome /\ container = "none" /\ open = {}
  /\ attempt = 1 /\ drift_retried = FALSE /\ slow_llm_retried = FALSE
  /\ disk = [attempt |-> 0, chain |-> <<>>]
  /\ result = NoResult

-----------------------------------------------------------------------------
(* How an attempt ends.                                                    *)

End(o) == outcome' = o /\ pc' = "close"

\* _policy_boundary: the policy's own failures are its crash, an LLM that cannot
\* be reached is the environment's, a framework defect escapes.
policy_boundary ==
  \/ End(Failure("crash", "policy"))
  \/ End(Failure("crash", "env"))
  \/ End(Failure("escape", "none"))

\* _env_boundary and the exception ladder of execute_env_action.
env_boundary ==
  \/ End(Failure("unscorable_infra", "none"))
  \/ End(Failure("crash", "env"))

\* Slip: force_live is ignored.
AlwaysReplaying == run_config.replay

\* The executor of this attempt replays: force_live after a drift.
Replaying == run_config.replay /\ ~drift_retried

\* ExecutionDriftError, only raised by the replaying executor, whose container is up by
\* then; or the RuntimeError of a recorded payload that cannot be read for its report.
Drifts ==
  /\ Replaying /\ container' = "up"
  /\ End(Failure("drift", "none")) \/ End(Failure("escape", "none"))

\* DockerShellSession.start: idempotent, and for a replaying executor part of the first
\* live work.  An await that is given up before start returns leaves _started unset, while
\* the thread that creates the container goes on.
Starts == container' \in IF container = "none" THEN {"none", "up"} ELSE {container}
GivesUp == container' \in IF container = "none" THEN {"none", "up", "adrift"} ELSE {container}

-----------------------------------------------------------------------------
(* run_task_loop                                                           *)

\* The candidate's module is imported and its policy built.
Build ==
  /\ pc = "build"
  /\ \/ pc' = "setup" /\ UNCHANGED outcome
     \/ policy_boundary
  /\ UNCHANGED <<clockVars, loopVars, container, open, retryVars, disk, result>>

\* env.reset and executor.provision under the setup timeout, then policy.reset;
\* both deadlines start here.  A replaying executor provisions nothing yet, unless its
\* task has no replay scope and runs live.
Setup ==
  /\ pc = "setup"
  /\ \/ /\ (pc' = "act" /\ UNCHANGED outcome) \/ policy_boundary
        /\ container' \in {"up"} \cup (IF Replaying THEN {"none"} ELSE {})
     \/ End(Failure("setup_timeout", "none")) /\ GivesUp
     \/ env_boundary /\ GivesUp
  /\ UNCHANGED <<clockVars, loopVars, open, retryVars, disk, result>>

Earliest(a, b) == IF a < b THEN a ELSE b

\* policy.act() answers in time with a batch, nothing valid (an empty batch), or
\* gives up.
Act ==
  /\ pc = "act"
  /\ now' \in now..Earliest(AgentBudget, stall)
  /\ \/ /\ batch' \in SeqOf({"run", "submit"}, MaxBatch)
        /\ pc' = "batch"
        /\ UNCHANGED outcome
     \/ End(Ending("gave_up", final, steps)) /\ UNCHANGED batch
     \/ policy_boundary /\ UNCHANGED batch
  /\ UNCHANGED <<stall, steps, transitions, final, chain, container, open, retryVars, disk,
                 result>>

\* timeout_at(min(agent_deadline, stall_deadline)) expires.
ActTimesOut ==
  /\ pc = "act"
  /\ now' = Earliest(AgentBudget, stall)
  /\ End(Failure(IF now' >= AgentBudget THEN "task_timeout" ELSE "stall_timeout", "none"))
  /\ UNCHANGED <<stall, loopVars, container, open, retryVars, disk, result>>

\* The batch goes on with an action of this kind.
Acting(kind) == pc = "batch" /\ batch # <<>> /\ steps < MaxSteps /\ Head(batch) = kind

\* An executed action goes to the chain; a terminal one ends its batch.
Record(transition) ==
  /\ chain' = Append(chain, transition)
  /\ transitions' = Append(transitions, transition)
  /\ steps' = steps + 1
  /\ batch' = IF transition = "ok" THEN Tail(batch) ELSE <<>>
  /\ pc' = "batch"
  /\ UNCHANGED <<final, outcome>>

\* Slip: a command may run for its own timeout, whatever is left of the budget.
RunActionOwnTimeout ==
  /\ Acting("run")
  /\ \/ now' \in now..(AgentBudget + 1) /\ Record("ok") /\ Starts
     \/ /\ now' \in now..AgentBudget
        /\ \/ env_boundary /\ GivesUp
           \/ policy_boundary /\ UNCHANGED container
           \/ Drifts
        /\ UNCHANGED loopVars
     \/ now' = AgentBudget + 1 /\ Record("truncated_run") /\ GivesUp
  /\ UNCHANGED <<stall, open, retryVars, disk, result>>

\* build_env_action, then executor.step_run under the agent deadline.
RunAction ==
  /\ Acting("run")
  /\ \/ now' \in now..AgentBudget /\ Record("ok") /\ Starts
     \/ /\ now' \in now..AgentBudget
        /\ \/ env_boundary /\ GivesUp
           \/ policy_boundary /\ UNCHANGED container
           \/ Drifts
        /\ UNCHANGED loopVars
     \/ now' = AgentBudget /\ Record("truncated_run") /\ GivesUp
  /\ UNCHANGED <<stall, open, retryVars, disk, result>>

\* executor.prepare_submit under the agent deadline: a recorded verdict is served,
\* or the environment is brought to the state it will be graded in.
PrepareSubmit ==
  /\ Acting("submit")
  /\ \/ /\ Replaying /\ now' \in now..AgentBudget
        /\ \E verdict \in Verdict : Record(verdict)
        /\ UNCHANGED container
     \/ /\ now' \in now..AgentBudget
        /\ \/ pc' = "verify" /\ UNCHANGED outcome /\ Starts
           \/ env_boundary /\ GivesUp
           \/ Drifts
        /\ UNCHANGED loopVars
     \/ /\ now' = AgentBudget
        /\ End(Failure("task_timeout", "none")) /\ GivesUp
        /\ UNCHANGED loopVars
  /\ UNCHANGED <<stall, open, retryVars, disk, result>>

\* executor.step_verify under the verify budget, which starts now.
Verify ==
  /\ pc = "verify"
  /\ \/ /\ now' \in now..(now + VerifyBudget)
        /\ \/ \E verdict \in Verdict : Record(verdict) /\ Starts
           \/ env_boundary /\ GivesUp /\ UNCHANGED loopVars
     \/ now' = now + VerifyBudget /\ Record("truncated_verify") /\ GivesUp
  /\ UNCHANGED <<stall, open, retryVars, disk, result>>

BatchOver == pc = "batch" /\ (batch = <<>> \/ steps >= MaxSteps)

\* Slip: a decision without a valid action is not a step.
NoValidActionFree ==
  /\ BatchOver /\ transitions = <<>>
  /\ pc' = "act"
  /\ UNCHANGED <<clockVars, loopVars, outcome, container, open, retryVars, disk, result>>

\* A decision without any action still is a step, and does not renew the stall
\* deadline.
NoValidAction ==
  /\ BatchOver /\ transitions = <<>>
  /\ steps' = steps + 1
  /\ IF steps' >= MaxSteps THEN End(Ending("step_cap", final, steps'))
     ELSE pc' = "act" /\ UNCHANGED outcome
  /\ UNCHANGED <<clockVars, batch, transitions, final, chain, container, open, retryVars, disk,
                 result>>

\* The whole batch ran; now each transition is observed by the policy.  A
\* terminal one ends the loop, else the next decision or the step cap.
Observe ==
  /\ BatchOver /\ transitions # <<>>
  /\ \/ LET last == Last(transitions)
        IN /\ final' = last
           /\ stall' = now + StallBudget
           /\ \/ last \in Verdict \cup {"truncated_verify"}
                   /\ End(Ending("submitted", last, steps))
              \/ last = "truncated_run" /\ End(Ending("budget", last, steps))
              \/ last = "ok" /\ steps >= MaxSteps /\ End(Ending("step_cap", last, steps))
              \/ last = "ok" /\ steps < MaxSteps /\ pc' = "act" /\ UNCHANGED outcome
     \/ policy_boundary /\ UNCHANGED <<final, stall>>
  /\ transitions' = <<>> /\ batch' = <<>>
  /\ UNCHANGED <<now, steps, chain, container, open, retryVars, disk, result>>

\* The task of this rollout is cancelled: a sibling failed, or the process is
\* interrupted.  The cleanup still runs.
Cancel ==
  /\ \/ pc \in {"build", "act"} /\ UNCHANGED container
     \/ pc \in {"setup", "batch", "verify"} /\ GivesUp
  /\ End(Failure("escape", "none"))
  /\ UNCHANGED <<clockVars, loopVars, open, retryVars, disk, result>>

Left(why) == open \cup {[attempt |-> attempt, why |-> why]}

\* Cancelled while it is closing, or while its executor is being made (nothing is
\* started yet): the chain is not written.
CancelOutsideLoop ==
  /\ \/ pc = "close" /\ open' \in {open, Left("close")}
     \/ pc = "build" /\ UNCHANGED open
  /\ pc' = "gone"
  /\ UNCHANGED <<clockVars, loopVars, outcome, container, retryVars, disk, result>>

-----------------------------------------------------------------------------
(* RolloutRunner.run, after the loop.                                      *)

\* _classify_loop_result
classify(o) ==
  CASE o.end = "submitted" /\ o.final = "truncated_verify" -> "verify_timeout"
    [] o.end = "submitted" /\ o.final = "incomplete" -> "crash"
    [] o.end = "submitted" /\ o.final = "passed" -> "solved"
    [] o.end = "submitted" /\ o.final = "failed" -> "verified_rejected"
    [] o.end \in {"budget", "task_timeout", "stall_timeout"} -> "hit_timeout"
    [] o.end = "gave_up" \/ (o.end = "step_cap" /\ o.final = "none") -> "no_valid_action"
    [] o.end = "step_cap" /\ o.final # "none" -> "hit_step_cap"
    [] o.end = "unscorable_infra" -> "unscorable_infra"
    [] OTHER -> "crash"

crash_origin(o) == IF o.origin = "none" THEN "env" ELSE o.origin

\* Which endings carry an error text; a setup, task, agent or verify timeout does not.
has_error(o) ==
  \/ o.end \in {"crash", "unscorable_infra", "stall_timeout", "gave_up"}
  \/ o.end = "submitted" /\ o.final = "incomplete"

\* Slip: a failed close is ignored.
ResultIgnoringClose(o, close_error) ==
  LET mode == classify(o)
  IN [mode |-> mode,
      origin |-> IF mode = "crash" THEN crash_origin(o) ELSE "none",
      error |-> has_error(o),
      steps |-> o.steps, attempt |-> attempt]

\* The RolloutResult: an error while closing makes any outcome an env crash.
RolloutResult(o, close_error) ==
  LET mode == IF close_error THEN "crash" ELSE classify(o)
  IN [mode |-> mode,
      origin |-> IF close_error THEN "env"
                 ELSE IF mode = "crash" THEN crash_origin(o) ELSE "none",
      error |-> close_error \/ has_error(o),
      steps |-> o.steps, attempt |-> attempt]

\* The finally: close env and backend within their budget (an error or a timeout
\* may leave them open; a container whose start was given up is not _started and is
\* passed over), write the chain; then the exception goes on, or the outcome is
\* classified.
Close ==
  /\ pc = "close"
  /\ \E close_error \in BOOLEAN :
       /\ open' \in {open} \cup (IF close_error THEN {Left("close")} ELSE {})
                          \cup (IF container = "adrift" THEN {Left("start")} ELSE {})
       /\ result' = IF outcome.end \in {"escape", "drift"} THEN result
                    ELSE RolloutResult(outcome, close_error)
  /\ disk' = [attempt |-> attempt, chain |-> chain]
  /\ pc' = CASE outcome.end = "escape" -> "gone"
             [] outcome.end = "drift" -> "drifted"
             [] OTHER -> "returned"
  /\ UNCHANGED <<clockVars, loopVars, outcome, container, retryVars>>

-----------------------------------------------------------------------------
(* _run_rollout_with_infra_retries                                         *)

\* Slip: the action chain outlives its attempt.
NewAttemptSameChain ==
  /\ pc' = "build" /\ now' = 0 /\ stall' = StallBudget
  /\ steps' = 0 /\ batch' = <<>> /\ transitions' = <<>> /\ final' = "none"
  /\ outcome' = NoOutcome /\ container' = "none" /\ attempt' = attempt + 1
  /\ UNCHANGED <<open, chain>>

\* A fresh env, executor, backend and telemetry; the trace was archived.
NewAttempt ==
  /\ pc' = "build" /\ now' = 0 /\ stall' = StallBudget
  /\ steps' = 0 /\ batch' = <<>> /\ transitions' = <<>> /\ final' = "none" /\ chain' = <<>>
  /\ outcome' = NoOutcome /\ container' = "none" /\ attempt' = attempt + 1
  /\ UNCHANGED open

\* except ExecutionDriftError: retry live-only.
RetryAfterDrift ==
  /\ pc = "drifted"
  /\ NewAttempt
  /\ drift_retried' = TRUE
  /\ UNCHANGED <<slow_llm_retried, disk, result>>

\* _slow_llm_timeout_retry: latency statistics that may or may not blame the
\* provider for a timeout.
slow_llm_timeout == result.mode = "hit_timeout"

\* Slip: any provider may be asked again.
RetryAnySlowLlm ==
  /\ pc = "returned" /\ slow_llm_timeout /\ ~slow_llm_retried
  /\ NewAttempt
  /\ slow_llm_retried' = TRUE
  /\ UNCHANGED <<drift_retried, disk, result>>

\* "Nondeterministic retry would resample, forging the measurement."
RetrySlowLlm ==
  /\ pc = "returned" /\ run_config.is_deterministic /\ slow_llm_timeout /\ ~slow_llm_retried
  /\ NewAttempt
  /\ slow_llm_retried' = TRUE
  /\ UNCHANGED <<drift_retried, disk, result>>

\* The result goes to log_rollout; after a drift an env crash is nobody's.
Return ==
  /\ pc = "returned"
  /\ result' = IF drift_retried /\ result.mode = "crash" /\ result.origin = "env"
               THEN [result EXCEPT !.mode = "unscorable_infra", !.origin = "none"]
               ELSE result
  /\ pc' = "done"
  /\ UNCHANGED <<clockVars, loopVars, outcome, container, open, retryVars, disk>>

\* The rollout is over: recorded, or gone with its experiment.
Over == pc \in {"done", "gone"} /\ UNCHANGED vars

-----------------------------------------------------------------------------
Loop ==
  \/ Build \/ Setup \/ Act \/ ActTimesOut \/ RunAction \/ PrepareSubmit \/ Verify
  \/ NoValidAction \/ Observe

Rollout ==
  /\ Loop \/ Close \/ RetryAfterDrift \/ RetrySlowLlm \/ Return
  /\ UNCHANGED run_config

Cancelled == (Cancel \/ CancelOutsideLoop) /\ UNCHANGED run_config

Next == Rollout \/ Cancelled \/ Over

Spec == Init /\ [][Next]_vars

\* Every await of the loop is under a timeout, and the loop itself is one task.
FairSpec == Spec /\ WF_vars(Rollout)

-----------------------------------------------------------------------------
(* Properties.                                                             *)

FailureMode ==
  {"solved", "verified_rejected", "hit_step_cap", "hit_timeout", "verify_timeout",
   "no_valid_action", "crash", "unscorable_infra"}

TypeOK ==
  /\ run_config \in RunConfig
  /\ pc \in {"build", "setup", "act", "batch", "verify", "close", "returned", "drifted",
             "done", "gone"}
  /\ now \in 0..(AgentBudget + VerifyBudget)
  /\ stall \in 0..(AgentBudget + VerifyBudget + StallBudget)
  /\ steps \in 0..MaxSteps
  /\ batch \in Seq({"run", "submit"}) /\ Len(batch) <= MaxBatch
  /\ transitions \in Seq(Transition) /\ chain \in Seq(Transition)
  /\ final \in Transition \cup {"none"}
  /\ outcome.origin \in {"none", "policy", "env"}
  /\ {drift_retried, slow_llm_retried} \subseteq BOOLEAN
  /\ attempt \in 1..3
  /\ container \in {"none", "up", "adrift"}
  /\ open \subseteq [attempt: 1..attempt, why: {"close", "start"}]
  /\ result.mode \in FailureMode \cup {"none"}

\* A solve is earned by the attempt that is recorded: its chain, the one left on
\* disk for the audit, ends with the passing verify, nothing in it was cut short,
\* its step count is published, and the step cap was respected.
SolvedIsEarned ==
  pc = "done" /\ result.mode = "solved" =>
    /\ disk.attempt = result.attempt /\ disk.chain # <<>>
    /\ Last(disk.chain) = "passed"
    /\ \A i \in 1..(Len(disk.chain) - 1) : disk.chain[i] = "ok"
    /\ result.steps >= Len(disk.chain) /\ result.steps <= MaxSteps

\* The agent never spends more than its budget: as long as it yields to the event
\* loop, whatever the policy, a command or the catch-up of a replay does, time only
\* passes the agent deadline in the grader.
AgentBudgetHolds == [][now' # now /\ now' > AgentBudget => pc = "verify"]_vars

\* The result survives RolloutResult's validator on every path: an origin exactly
\* for crashes, and no solved rollout with an error.
ResultsAreValid ==
  result # NoResult =>
    /\ result.mode = "crash" <=> result.origin # "none"
    /\ result.error => result.mode # "solved"

\* What drifted is never replayed again: at most one attempt of a rollout drifts,
\* and an attempt after it has nothing to drift from.
DriftsOnce == outcome.end = "drift" => ~drift_retried /\ attempt <= 2

\* A nondeterministic model is asked once: no retry resamples the measurement.
NeverResamples == ~run_config.is_deterministic => attempt = 1

\* What a recorded rollout may leave to the owner sweep.  A close that failed shows in the
\* result, unless it was that of the attempt that drifted, of which there is one; the only
\* other thing is a container whose start was given up, and then the rollout timed out or
\* failed: nothing runs on behind a solve, a rejection, a step cap or a policy that gave up.
NothingLeftOpen ==
  pc = "done" =>
    /\ \A o \in open :
         IF o.attempt = attempt
         THEN result.mode \in {"crash", "unscorable_infra"}
                \cup (IF o.why = "start" THEN {"hit_timeout", "verify_timeout"} ELSE {})
         ELSE o.why = "close" => drift_retried
    /\ \A o, p \in {q \in open : q.why = "close" /\ q.attempt # attempt} : o = p

\* Every rollout comes to its end.
RolloutEnds == <>(pc \in {"done", "gone"})
=============================================================================
