# A TLA+ verification of harness-training

harness-training improves an agent harness (the code around a language model) by
"training" it: each epoch measures the current harness on a panel of tasks, asks an
estimator for one change, measures the changed harness on the same panel, and
fast-forwards the harness branch only if the change is a strict improvement.
What the program promises is therefore mostly about *evidence*: that the runs a
promotion was decided on exist, are complete, are comparable and say what the
verdict says, whatever the user's loop, the worker process, the container, the
clock, the operator or a crash did in between. That is what the modules in this
directory model. Paths below are relative to the repository root (`src/...`, in
PROJECT.json with the checkout directory in front).

## 1. Inventory

| Component | State | Operations | Hard behaviour |
| --- | --- | --- | --- |
| Promotion criterion (`trainer/loss.py`, `trainer/optim.py`, `rollout/metrics.py`) | none | `StrictPareto.__call__`, `decision`, `_compare`, `_loss_value`, `GreedyMonotonic._should_promote` | tasks whose failure may be the infrastructure's fault: only two extreme gradings are compared |
| Training session (`trainer/trainer.py`, `trainer/parameter.py`) | HEAD, the harness's `grad` and `applied`, the epoch's baseline, panel, candidate, skip counter | the `epochs` generator (baseline, certify, propose, validate, measure twice at most, window, conclude, diagnose), `backward`, `step` | the user owns the loop body; process death between any two writes; commits by others |
| Run store (`rollout/store.py`, `rollout/records.py`) | `experiment.json` per run, `runs.jsonl` | `save_experiment`, `log_rollout`, `mark_crashed`, `record_finalized_run`, `latest_completed_baseline` | two writes that are not atomic together |
| Isolated measurement (`measurement.py`, `worker.py`) | a worker process, a pipe, the time of last activity, the reported id | spawn, poll, forward, watchdog, drain, SIGINT, kill, sweep, conclude | the worker dies, blocks, raises or is slow at any point; interrupts while unwinding |
| Sampler (`rollout/sampler.py`) | the run's tasks, one retry flag per kind | `run_experiment`, `run_one`, `_run_rollout_with_infra_retries` | siblings cancelled by a failure, retries that share one directory |
| Episode loop (`rollout/episode.py`, `rollout/execution.py`) | deadlines, step index, batch, action chain | setup, act, run, prepare_submit, verify, observe, close, classify | timeouts inside every await, failures of policy, environment, model and framework told apart |
| Admission and task locks (`concurrency.py`) | slots, admission lock, a flock per task | enter, exit, lock, wait | several processes on one host, a bounded thread pool, cancellation |
| Docker shell (`env/docker_shell.py`) | container, network on the task's fixed subnet, owner labels | start with retries, exec, close, sweep | calls that outlive the await on them, partial starts, orphans of a killed process |
| Replay plugin (`plugins/replay/*`, `rollout/certification.py`) | a digest per action chain, recorded results, blocked keys, epochs, certificates | serve, go live, materialize, record, block, audit, inherit, bump | recordings of other rollouts, drift, a half-recordable chain |
| Cache store (`plugins/caching/*`) | one row per key, a counter per namespace | `get`, `put` (first write wins, both fail open), counters; the completion cache | concurrent writers, operations that fail open |
| Shipped policy (`policy/core.py`) | trajectory, calibration, thinking switch | `reset`, `act` (assemble, fit, retrim, repair), `observe` | estimates that are wrong, repair turns that no longer fit, completions cut off while thinking |
| LLM backends (`llm/*`) | none | `complete` with cache key, transport retries and a client-side reasoning budget | a stream cut by the client, transient failures |
| Benchmarks (`env/swe.py`, `env/swebench_verify.py`, `env/terminal_bench.py`, `env/base.py`) | a grader lock, the grader's module-wide log directory, `reward.txt` | `verify` | grader threads that outlive their deadline, lost output, stale rewards |
| Network cache (`env/netcache/*`) | one directory per snapshot key, scopes of connections, a mirror of Python builds | the addon's hooks, `do_GET` | hooks of many connections interleaved, restarts between file operations, pinned hosts |
| Estimator (`trainer/estimator.py`) | an agent in the candidate's worktree | `propose`, `diagnose` | failures after the verdict is final |
| Scrubbing, telemetry, configuration, logger, command-line agent | | | see section 8 |

How they interact: the user's `for loss in trainer.epochs(n)` drives the trainer's
generator; the trainer calls `run_isolated_experiment`, which spawns a worker and reads
its events from a pipe; the worker runs `run_experiment`, one rollout per task, each an
episode loop around the policy (code under training) and an environment, with an
executor that is either live or replays recordings; worker and supervisor share
`experiment.json`; the trainer appends `runs.jsonl` and moves the git branch. Rollouts
of several processes meet at the flock of a task and in docker; rollouts of one process
share its slots, its pool threads and the grader's lock; rollouts of different
experiments share the cache tables (steps, verdicts, completions), the epoch counters
and the network snapshots.

What makes each part correct, in one line: the criterion never promotes a
regression nor decides on infrastructure noise; the session promotes only what it
measured, completely and against the right baseline, and its two records (git and
the index) agree; the the supervisor returns only complete runs, finalizes the failures it concludes
and sweeps what the worker left; a rollout ends, stays within its budgets, and its result is
the truth about the attempt it names; a rollout that replays sees what one environment
showed; exclusive tasks stay exclusive and nobody waits for ever; a request depends on
the rollout's own history only and fits the window; a snapshot of the network, once
taken, is what every later client is given; a grade is that of the diff it is given for.

## 2. Plan

Done, most important behaviour first:

1. `Judge` (the criterion as operators), `Verdict` (one judgment), proved about in `TrainerProofs`.
2. `Trainer` (composes `Judge` with the session, the harness repository and the store), `TrainerProofs`.
3. `Measurement` (supervisor and worker), `MeasurementProofs`.
4. `Episode` (one rollout with its retries), `EpisodeProofs`.
5. `Replay` (recording, replay, drift, audit and inheritance over the fail-open store), `ReplayProofs`.
6. `Host` (several processes: slots, flocks, pool threads, docker sessions), `HostProofs`.
7. `Agent` (the shipped policy's step over a completion call and its cache), `AgentProofs`.
8. `FrozenNetwork` (an abstract snapshot) and `NetCache` (the proxy addon, shown to implement it; the mirror),
   `NetCacheProofs`.
9. `Grading` (concurrent submits and the grader they share), `GradingProofs`.

Next:

10. `Candidate`: worktree, capture, patch-surface validation and the trusted suite, which are one
    refusal in `Trainer`.
11. A torn last line of `runs.jsonl`; `publish_learning`.
12. A `Measurement`-level abstraction for `Trainer` (a measurement returns a complete run, a crashed run
    or nothing) that `Measurement` is shown to implement, and likewise `Episode` for one task of it.

## 3. Modules

### Judge, Verdict

`Judge` holds `StrictPareto` as operators on runs, functions from tasks to rollouts.
A rollout is `[mode, invalid, steps]`: its failure mode and what the two shipped
secondary metrics read. `judged` restricts the baseline to the candidate's panel
(`_restrict_to_panel`); `Comparison` is `_compare` with an explicit solved set and a
set of tasks whose regression is ignored; `pessimistic_report` and
`optimistic_report` are the two bracketed views, `measured_report` the one that is
published; `loss_value` is `_loss_value` in units of a quarter (`LossUnit`), so that the
tie-breakers' fractions are exact integers: a half and a quarter for the two shipped metrics (`weight`); `Selects` is the sign test of
`GreedyMonotonic`. `Verdict` is the one-step machine "the criterion is called on any
pair of runs" (`baselineRun`, `candidateRun`), whose `judgment` is a loss or unmeasurable.

### Trainer

State follows the code: `head`/`anc` (the harness branch and the ancestors of every
commit, candidates pinned under `refs/candidates` included), `experiments`/`index`
(the store's two files), `regime` (the replay epochs inside the measurement
identity), `baseCommit`, `baseline`, `panel`, `candidate`, `attempt`, `skips` (locals of the
generator), `grad`, `applied` (the harness), `held` (every Loss the user's loop may
still refer to). `pc` says where the generator is suspended or between which two of
its writes it stands. One action per step of the generator that reads or writes
shared state: `record_finalized_run` is two actions (`SaveFinalized` inside the action
that finishes the run, then `AppendRow`), because a kill may fall between them.
`Kill`, `Drift` (a commit by someone else) and `BumpEpoch` may interleave anywhere.
`Spec` lets the loop body do anything with any Loss it ever got (`AnyLoop`);
`DocumentedSpec` is the loop of the README, `loss.backward(); optimizer.step()`.
What a measurement returns is any complete run, a crashed one, or none; `validate_candidate` and
the suite may refuse.

### Measurement

One call of `run_isolated_experiment`. `child` is where the worker stands in
`run_experiment`, `record` the `experiment.json` both sides write, `pipe` the events under way,
`due`/`quiet` the two clocks (heartbeat and inactivity), `parent` where the supervisor
is, `swept` how its own sweep of docker went. The worker may raise (it marks the run crashed itself; a
`SystemExit` ends it with code 0 all the same), quit with `os._exit(0)` at any point, die, block (no step and no
heartbeat any more), or send something invalid. `AtExit`, the worker's own sweep, and `Sweep`, the supervisor's, both fail in
silence when docker does. The operator may interrupt the supervisor while it polls, while it waits for the worker to obey a SIGINT
(there the interrupt only shortens the wait), and in the clean-up after the kill, the sweep or the conclusion, where nothing catches
it (`InterruptCleanup`). `Conclude` has the four ways the call ends on its own: no id, a record marked crashed, a record that
could not be marked, a complete run.

### Episode

One task's rollout: up to three attempts (one retry for drift, one for a slow model),
each from building the policy to `RolloutResult`. Time is in ticks from the start of the agent
budget; an await takes any time its timeout leaves it and either answers, raises what
the code distinguishes, or times out. `run_config` holds the two settings that matter, chosen once. `chain` is `action_chain`, `disk` the chain file (shared by all
attempts) and who wrote it. `container` is this attempt's: a live executor starts it in `Setup`, a replaying one with its
first live work, and an await that is given up inside the start leaves it "adrift" (the thread goes on, `_started` stays
unset, `close` passes over it). `open` is what the attempts may have left running, and why: a close that failed, or such a start.
A drift may end in an escaping `RuntimeError` instead, when the recorded payload cannot be read for its report.
`policy_boundary` and `env_boundary` are the two context managers that turn exceptions
into origins; `classify` is `_classify_loop_result`. `Cancel` is the cancellation of the rollout's
asyncio task at any await, `CancelOutsideLoop` the one that hits the cleanup itself.

### Replay

One task and the experiments that measure it one after the other (the host-wide lock makes its rollouts
sequential). `store` holds the rows `[key, out]` of the step cache, a key being the scope and the chain of actions up
to and including the step, as the chained digest is; `blocked` the live-only markers; `epoch`
the namespace's counter. `at` is the attempt under way: what it has `seen`, the `world` its own environment
has shown so far, whether it went live, whether it may still record. `Serve` is `step_run`/`prepare_submit` with
`_serve_replay`; a miss or a marker leads to `CatchUp`, the re-execution of the served prefix, step by step,
which ends in `CaughtUp` or `Drift`; `Execute` and `Put` are a live step and its recording. Store operations may fail
open (`ReadFails`, a dropped put); and a put whose await was cancelled goes on in its thread, so that its row, in `late` from then on, may
land at any later moment (`LatePut`). Both are counted in `faults`. The chain of an attempt that timed out ends with the row of the action that was cut
(`Rows`, an event without an output), as its digest does; a submission that timed out in its catch-up has none (`Preparing`). `Audit` re-executes the chain on disk in a new
environment under the scope it resolves itself, or inherits a certificate from `prior`. `worlds` is a history variable:
every execution that really happened, against which `SeenByOneEnvironment` is stated.

### Host

Processes with the same panel on one host. `free`/`active` are a process's limiter, `lock` the kernel's view of a task's
flock, `parked` the pool threads a blocking `flock` occupies (one of a cancelled rollout included: its
file is closed, the thread is not), `starter` the thread inside `_run_container_sync`, which goes on when `wait_for`
gave up on it, `networks` and `containers` what docker holds. An audit (`Auditors`) starts environments without the lock.
Assumed of the world outside: a docker call of a killed process lands before its sweep, and the sweep by owner label
itself succeeds.

### Agent

One rollout after the other with `LlmAgent`, over one completion cache. A text is a pair of sizes, estimated and
real; the history is a sequence of step groups, real or failed. `Floor`, `Fits` and `Dropped` are `assemble`'s retention
floor and `fit`, `Fitted` adds the note on omitted steps; an overflow reply calibrates the window and retrims; a reply that does not parse adds a repair turn; a completion cut
off while thinking switches thinking off where the deployment has a switch. Below it the cache key (the provider's
revision, the body, and the budget where there is one), transport retries, and a stream the client cuts when its reasoning
budget is used up. Several deployments share the cache; `Informs` and `Reports` are the revisions whose overflow message
tells the input tokens, and whose stream ends with the usage: what `Shrunk` and `Calibrated` go by. An endpoint is deterministic (one reply per revision and body,
chosen when first asked), which is the premise of the cache; `log` and `past` are history variables of what a rollout was told and asked.

### FrozenNetwork, NetCache

`FrozenNetwork` is the abstract specification: a key takes one value, the one a client of that key was about to be given; who asks
afterwards is given it. `NetCache` is the addon with its hooks (`http_connect`, `request`, `responseheaders`,
`response`), the two files of an entry, the temporary directory and the rename, per-connection scopes, pinned
hosts, signed queries, ranges and bodies in the key, and a proxy that restarts anywhere; and the mirror with its
per-build lock. The property `FrozenSnapshot` is `INSTANCE FrozenNetwork WITH` a mapping: `frozen` is what the whole entries
would show, `sight` what a hit or a completed rename binds the client to, `given` what a flow that was answered shows. Assumed: hooks are
synchronous (they are), one proxy per volume (so the `EEXIST` branch of the rename is out of reach), a restart of the process and
not a power failure, connection ids that are not reused, apt sending its credentials with every plain
request while everything else comes through a tunnel.

### Grading

The submits of one worker's concurrent rollouts, all of one benchmark. SWE-bench: capture of the diff, the memo, the
`asyncio.Lock` with its queue, the module-wide log directory set and restored around `run_instance`, which runs in a thread that
nobody can stop: the rollout may expire at any await while the thread has not started, runs, or
ends after everybody left. `run_instance` is external: it reads the log directory once, when it starts. Terminal-Bench: the
stale reward is removed, the verifier runs, its output may be lost, the reward is read twice at most. How long things take is not modelled:
a deadline may pass at any await.

### Slips

Each module also holds operators marked "Slip": a definition with one plausible
mistake (a dropped guard, a missing reset, a swapped order). No specification uses
them; PROJECT.json's `mutants` name, for every property, the slip that
breaks it, so that every property is known to depend on the code it is about.

## 4. Runs

| Run | Shows | Bounds |
| --- | --- | --- |
| `verdict` | sign, reason and bracket agree for every pair of runs | 3 tasks, a candidate panel of 1 to 3, rollouts that cover every class of failure mode and both metrics |
| `session` | promotions are justified by the records, reused baselines are right, HEAD only follows selections, no verdict leaks into a later epoch; any loop body | 2 tasks, solved or rejected, 2 epochs, 1 epoch bump |
| `session_documented` | the index is never ahead of the records, one row per candidate, git history and index agree | documented loop, 1 task, solved or crashed, 2 epochs, 1 kill, 1 foreign commit |
| `measurement` | only complete runs are returned, finished ones are not lost, concluded failures are finalized, the watchdog spares a living worker, only a spoiled sweep leaves anything behind, the call ends | 2 tasks, 3 events in the pipe, heartbeat 1 tick, watchdog 3, 2 interrupts |
| `episode` | results are valid and earned, budgets hold, drift happens once, a nondeterministic model is asked once, what stays open is accounted for, the rollout ends | live and replay: 3 steps, batches of 2, agent budget 3 ticks, stall 2, verify 1 |
| `replay` | a rollout sees what one environment showed, recorded chains have no gaps, no step drifts twice, inherited verdicts of an audit cover the outputs | 3 experiments, a flaky command and a flaky grader, 1 command before the submit, 1 trouble (failed operation, late write, bump, slow model) |
| `host` | exclusive tasks, an exact limiter, locks that span environments, nothing left in docker, every process ends | 2 processes, 2 tasks, 2 slots, 2 threads, 1 start retry, 1 trouble |
| `agent` | the newest step is shown, accurate requests fit, one runaway at most, no leak between rollouts, completions are the deployment's own | 3 deployments, 2 rollouts of 2 steps, room for 100 tokens, one dense and one accurate step size, 2 mishaps |
| `netcache` | the addon implements the snapshot; entries whole, unscoped clients live, keys not too coarse, builds published once | 2 connections, 2 scopes, 3 requests out of 5 kinds, 2 versions of the network, 1 trouble |
| `grading` | grades are own, no completed grading is lost, the log directory is restored, the memo is earned, the lock moves on | 3 SWE-bench rollouts or 1 of Terminal-Bench, 2 diffs, 1 instance with a memo |
| `measurement_marks`, `replay_forked` | violations: where a docstring or a doc says something the code does not do (section 7) | small |

A run checks what belongs together as one invariant, a conjunction of named parts that each module states and
comments one by one: `DecisionsAreTrue` (Verdict), `RecordsAgree` (Trainer), `OutcomeIsTrue` (Measurement),
`ReplayIsReal` (Replay), `SlotsAreExact` and `TasksAreExclusive` (Host), `TrimmingIsRight` and `ThinkingEndsOnce`
(Agent), `EntriesAreKept` and `AnswersAreRight` (NetCache), `GradesAreOwn` and `LogDirIsOwn` (Grading). The type
invariants are among their parts; `TypeOK` and `ResultsAreValid` of Episode are proved (section 6) and in no run.

Why the bounds are enough to meet the interesting cases: two tasks let one regress
while the other improves and let certification leave one out, and three are needed to
have an untrusted task, a regression and a gain together; two epochs let an abandoned
or killed epoch be followed by one that could inherit its verdict or its baseline;
three pipe slots hold the events a dying worker leaves (started, task, task); a watchdog of
three heartbeats is the code's order of magnitude (the ratio matters, not the seconds); three
steps with batches of two put the step cap inside a batch; three ticks of agent budget
with a stall budget of two make either deadline the earlier one. A recorder, a second recorder and
a reader are the fewest that can mix a chain, and a command with the submit behind it is the shortest
chain with a middle. Two processes that each wait for what the other holds, with every pool
thread parked, are the deadlock `host` is about. Two steps are needed to drop one and keep
one, a second rollout to meet what the first one learnt. A grading thread, one that took over the lock
and one in the queue need three submits. Two connections with three requests let a miss
overlap a miss and a third client come after both; troubles are limited to one because each is a
different kind of failure at every point, and the properties speak of what one failure must not break.

The pure bounds (`MaxEpochs`, `MaxTroubles`, `MaxRuns`, ...) are marked "bound" where they are declared; the other
constants are parameters of the program. `session` and `netcache` use symmetry (of tasks; of connections and scopes), no liveness is
checked in them.

## 5. Fairness

`FairSpec` (Measurement): weak fairness of the supervisor's steps, of time, and of the
worker's own steps. A step of a worker that is blocked or dead is not enabled, so nothing is assumed of it;
a healthy worker's tasks come to an end because rollouts do (`RolloutEnds`).

`FairSpec` (Episode): weak fairness of the rollout as a whole, not of any particular outcome.
It is justified because every await in the loop is under a timeout: setup, `act`, commands
and `prepare_submit` (agent deadline), verify (its budget and a backstop), close. Synchronous
policy code that never yields is outside it; there the supervisor's watchdog is the answer
(`measurement`).

`FairSpec` (Host): weak fairness of "some rollout makes an ordinary step, or some process exits or is swept". It is one
condition for all, which is enough because no step can be repeated for ever; starvation by overtaking is
not hidden. That the CPU ever becomes idle while other rollouts are active is not assumed: only an
admission with nothing active is. Trouble is never forced.

`Spec` (Grading): for each SWE-bench rollout, weak fairness of `WokenUp`, the event loop running a waiter that `release` woke, and
of `Expire` of a rollout that is grading, the deadline around `verify`. No thread and no container is trusted to go on, and nobody
who waits is made to give up: `LockMovesOn`, that every waiter leaves the queue, rests on the holder leaving, by its deadline at the latest,
on the hand-over, and on nothing else.

`Trainer`, `Replay`, `Agent` and `NetCache` state no liveness; an epoch is a bounded loop (two attempts, a limited number of epochs) around
calls that return.

## 6. Proofs

Eight modules hold theorems, each for every value of the constants that the named assumption allows; the bounds of
section 4 (epochs, kills, runs, troubles, versions, ...) are any natural numbers there. A safety invariant of a run is
seldom inductive; each module starts with the inductive invariant its theorems rest on, has one lemma per action, and
ends with the theorems. Each `IInv`, `DocumentedInv` and the three invariants of `Agent` also
passes TLC on the instance of the component's run (with a bounded form of `Numbered`, for `Trainer`, and `HistoryInv` with the states its log
gives computed rather than guessed).

| Module | Theorems |
| --- | --- |
| `TrainerProofs` | `SelectionSafe`, `NoiseSafe`, `DecisionsSafe` (one judgment); `BreakerSafe`, `RecordsSafe`, `BaselineSafe`, `PromotionsSafe`, `HeadSafe`, `VerdictsSafe` (any loop body); `HistorySafe` (documented loop) |
| `MeasurementProofs` | `OutcomeSafe`, `WatchdogSafe`, `SweepSafe` |
| `EpisodeProofs` | `TypeCorrect`, `ResultSafe`, `SolveSafe`, `OpenSafe`, `BudgetSafe`, `DriftSafe`, `SampleSafe` |
| `ReplayProofs` | `LiveSafe`, `ReplaySafe`, `CertificatesSafe`, `DriftsSafe` |
| `HostProofs` | `SlotsSafe`, `TaskLockSafe`, `OwnersSafe` |
| `GradingProofs` | `GradesSafe`, `LogDirSafe` |
| `AgentProofs` | `CompletionSafe`, `TrimmingSafe`, `ThinkingSafe`, `HistorySafe` |
| `NetCacheProofs` | `EntriesSafe`, `AnswersSafe`, `MirrorSafe`, `SnapshotSafe` (the refinement) |

### TrainerProofs: one judgment

Assumptions: `TasksAssumption` (the panel is finite and not empty) and `RolloutsAssumption`. Nothing in the state says *why* the
criterion returned a Loss, so the properties are not inductive on their own. The inductive invariants are `BracketAgreed`
(a returned Loss means the two extreme views had the same sign) and `BracketDiffers` (an `UnmeasurableRun` means they had not).
The rest is set and cardinality reasoning. `BracketArgument`: let `C` be what the candidate solved, `U` its untrusted
tasks and `L` any subset of `U`. If both views select, no baseline task outside `C` exists and the solved
set is at least as large, so `C \cup L` selects as well: strictly larger sets win, an equal
one leaves the decision to the metrics, which do not depend on `L`. If both reject, then either
a task outside `C \cup U` is lost in every view, or even `C \cup U` is not larger than the baseline's
set, in which case no smaller view is. `SelectsCases` isolates the arithmetic of the loss.

`DecisionsSafe` is about the *published* view, which is neither of the two that were compared (it counts the solved set of the
pessimistic one and forgives the regressions of the optimistic one). `ReasonArgument` shows that its reason nevertheless tells
the sign: where it could not, the optimistic view would be a tie, and `TieTells` shows that a tie selects exactly if the
metrics' own verdict is the improvement that `reason` names. `UnmeasurableArgument` shows that when the views differ it is the optimistic one
that selects, and then no regression outside `U` is left. For this proof `secondary_loss` is the sum of its two
terms written out, one per shipped metric, instead of a fold over them.

### TrainerProofs: the session

`BreakerSafe` needs only `Counted`: the skip counter is a natural number and `StopIsCounted`, `EndEpochIsCounted` are the
two ways an epoch changes it.

The other theorems share `IInv`, from `TrainerAssumption` and `TasksAssumption`:

* `RepoInv`, `StoreInv`: commits and runs are numbered as they come, an ancestor is older than its descendants, a completed
  run measured the panel of its identity, and `PromotionOk` states soundness of the *record*, since the row is
  written later or, after a kill, never;
* `IndexInv`, `PendingInv`: a row is what `RowOf` makes of the record it names, and the row about to be appended is that of a record no row
  tells of. `PendingInv` is what makes `RecordsAgree` survive the gap between the two writes;
* `BaselineInv`: the baseline of the epoch is completed, of the epoch's commit, certified when it must be, and `panel` is what its
  certificate leaves. `ReusedBaseline` is the heart: `latest_completed_baseline` compares identities, and only because
  a completed run measured its identity's panel does equality give a run of the whole panel;
* `CandidateInv`, `UnjudgedInv`, `WindowInv`: the captured commit is new, nobody holds a Loss of it before the window opens, and
  in the window a candidate that is HEAD or applied is one its Loss selects. The loop body may call `backward` and `step` with any Loss it
  ever got, in any order; `WindowInv` is why that does not matter. `SelectedCovers` turns a negative loss into
  the solved sets `PromotionsAreSound` speaks of.

`HeadSafe` and `VerdictsSafe` are action properties proved from `IInv` action by action. `HistorySafe` holds for the documented loop only
(a loop that steps with an old Loss breaks it), so it has a second invariant `DocumentedInv` on top, with
`DocumentedIsAnyLoop` to take over `IInv`: until the window's step the candidate is in nobody's history (`Unmerged`), after it
`applied` says what happened to the branch (`AppliedTells`), and so does the row under way (`PendingTells`), also
when the process dies before the row is appended and no row is ever written.

### MeasurementProofs

`IInv` ties what is on disk to the worker's phase (`RecordInv`), follows the id from the event under way to the supervisor
(`IdInv`: it is not lost as long as the supervisor has no other outcome), orders the supervisor's way out
(`SupervisorInv`: the worker is gone before the sweep, which is done, failed or cut before the outcome), and bounds the silence of a worker whose
loop turns (`QuietInv`). `OutcomeIsTrue` is about the end of the call and needs all of them.

`WatchdogSafe` failed at first for a reason worth keeping: saving the record and finalizing it reset the worker's
heartbeat clock without sending an event, so the silence that the supervisor sees can last two heartbeats and not one.
A watchdog merely longer than the heartbeat would kill a healthy worker. `MeasurementAssumption` now says
`2 * Heartbeat < Watchdog`, which the code's 60 s and 1800 s satisfy.

### EpisodeProofs

For every step cap, batch size and budget (`EpisodeAssumption`: each is a positive natural number).
The inductive invariant `IInv` has four parts:

* `Shape`, the types of the loop's state, its outcome and its result;
* `Clocks`: the clock never passes both budgets together, and grading starts before the agent deadline.
  Without the second half nothing bounds the clock after the grader;
* `Counting`: the loop is below the step cap wherever it may still take a step;
* `Retries`: `attempt` is one more than the number of retries taken, and only an attempt that
  replays, and has not been retried for drift, can drift. `DriftsOnce` and `NeverResamples` are
  consequences.

Three invariants are proved on top of it. `Adrift` says where an attempt can stand, and with which outcome, once its container's start was
given up: such an attempt never gets to another step. `Leaks` ties what is open to what the result says of it: a close that failed is the
drifted attempt's, or the current one's, whose result is then a crash; a start that was given up is an earlier
attempt's, or the current one's, whose outcome is then a timeout or a failure. `Chains` ties the chain to the outcome: it is "ok" up
to its last transition, what waits to be observed is its end, and the chain on disk is that of the
attempt the result names. `SolvedIsEarned` alone is not inductive since it speaks of finished rollouts only:
the chain must be followed from the first action through every retry.

### ReplayProofs

For every set of commands, flaky or not, chains of any length, any number of runs, bumps and store faults (`ReplayAssumption`).
What holds always: types, `RunInv` (a drift ends the replaying of a rollout), `FlagsInv`, `TraceInv` (asked, shown and seen
are prefixes of each other; during the catch-up the environment has shown a prefix of what was replayed) and `Functional`
(first write wins). `LiveSafe` follows from these, with any number of store faults. `LateInv`, proved beside `IInv`, is all
that is needed of the writes still under way: their rows are rows as an attempt makes them.

What holds as long as no store operation failed or landed after its attempt is `Honest`, and needs three facts that no property states:
`FreshInv`, a rollout that records is where no recording leads (it went live on a miss, and the task's lock keeps others out);
`NoGaps`, every prefix of a recorded key is recorded; `BackedInv`, for every row one environment showed the row's
whole chain. `FreshInv` is what keeps a second recorder from grafting its results on the first one's chain, and is exactly what a
dropped put destroys, and one that lands late: `replay_forked` in section 7 is the counterexample without the premise. `ReplaySafe` follows from `SeenInv` and
`BackedInv`, `DriftsSafe` from `MarkersInv` (nothing that drifted is replayed), `CertificatesSafe` from `ChainInv` and `PriorInv`:
two chains that stand in one functional store under the same scope and actions have the same outputs. It is about the verdicts of an
audit (`Audited`) only: a chain that timed out ends in a row no store holds, and whoever inherits its `no_chain` was
audited by nobody (`MCReplayNoChain.cfg` in section 7).

### HostProofs

For any finite sets of processes (auditors among them) and tasks, and at least as many pool threads as slots (`HostAssumption`).
`IInv` = `TypeOK`, `LimiterIsExact`, `LockHeld` (a rollout at work holds its task's flock), `NoStarterOutlives`,
`NothingOutlivesItsOwner` and `Calm`: without troubles the session's memory of network and container
agrees with docker's, and both end before the release. `Calm` is what `LockSpansEnvironment` needs: the flock is
released by the rollout, the container by a thread, and only this agreement orders the two. `LimiterFollows`, with
the lemmas before it, does the counting: one rollout that moves in or out changes the cardinality of those inside by one.

### GradingProofs

For any rollouts of either benchmark and any diffs. `IInv` follows a grade backwards: an ending that is a grade was found by that rollout's thread
(`EndingOk`), what a thread found is a grading of the captured diff and its report stays in the rollout's own directory for as long as the coroutine may
look (`FoundOk`), because a thread that has the lock runs with the log directory that its rollout set (`ThreadOk`, `LockInv`). `LockInv` is the one
that must survive `Expire` at every await: who leaves restores the directory before he releases the lock. `Removed` and
`Headed` are the lemmas about the lock's queue; `RewardInv` is the Terminal-Bench half.

### AgentProofs

For any deployments, replies, sizes of texts, window, retry and retrim budgets, and any number of steps, rollouts and
mishaps (`AgentAssumption`). There are three inductive invariants.

* `CoreInv` = `TypeOK`, `QuietInv` (between two acts nothing is under way), `CutoffInv`, `FittedInv`, `StoreInv` and
  `CompletionIsOwn`. `FittedInv` is the one the trimming needs: the request under way is exactly what `Fitted` makes of the trajectory
  and the calibration *of now*, also after a retrim or a repair turn, so that what it shows follows from the lemmas about `Floor`, `Dropped` and `Fitted`
  (`NewestShown`, `AccurateFits`). `StoreInv` says of every row of the cache, not only of the one served, that it was decoded by
  the revision, for the body and under the budget its key holds.
* `ThinkingInv`: thinking is off in every request from the first runaway on. The step in between counts: the runaway has
  been counted and thinking is still on until the completion is rejected (`CutOff`), and no request is sent there.
* `HistoryInv`: the policy's state is a function of its log. `Ready`, `Asks` and `After` compute trajectory, calibration, thinking
  switch and the next request from the entries alone; `Follows` says that a log explains itself entry by entry, `Tied` that
  what the rollout's own log tells is the state it is in. Two logs that agree up to a request then give the same request, which is
  `SameHistorySameRequest`. The property is about two rollouts, and its invariant has to be about one, or the rollout
  in between could not be forgotten.

`Sum`, which adds the estimates up over a history of any length, is a recursive function. What is needed of it (it is a natural number, it
is the same for equal summands) is proved without an induction scheme: `LeastExists` gives a least counterexample, and `AddsUpExists`,
`SumIsNat` and `GreatestExists` refute it.

Three things the proofs asked for were missing in the model or its assumptions. A cache key without the provider's revision made `CompletionIsOwn`
false as soon as two deployments share a store; the code's key has it (`llm_cache.py:55`) and the model's now too. `Shrunk` and
`Calibrated` divide by the estimate of what was sent, so the prompt must not be empty (`0 < Prompt.est`), and stay within bounds only if
`100 <= MaxCalibration`; a rollout goes on at all only if `0 < CutoffThreshold`. The code's prompt and constants
satisfy them. And `AccurateRequestsFit` has to assume that prompt, repair turn and echo are estimated right, not the steps alone.

### NetCacheProofs

For any connections, scopes, requests and builds (`NetCacheAssumption`; `SentinelAssumption` says that the marks for "no key" and "nothing" are none
of the values they stand beside, as `None` in the code). `IInv`: `FlowsOk`, what each hook may rely on for the flow it is given;
`EntriesOk`, an entry is absent or has both files and is an answer to *every* request with its key, which rests on
`UrlDenotes` (two requests with one canonical URL ask for the same asset); `WritingOk`, the hook under way is about to
rename to a key that is absent; `MirrorOk`, a build is fetched by one thread and only while it is missing.

`SnapshotSafe` is the refinement, step by step. `InitMaps` and `StepMaps` show that the mapped variables (`frozen`, `sight`, `given`) start in
`FrozenNetwork`'s initial state and that every step of the addon is one of its steps or leaves them alone: `RequestMaps` (an Ask, with a
hit or without one, also when reading the entry failed), `RenameMaps` (the rename is the Freeze: before it nothing of an entry counts),
`AnsweredMaps` (Give, also after a store that failed), `BreaksMap` (a restart, an origin that is not reachable), `HiddenMaps` (hooks the
abstract network does not see). The invariant enters where an entry is found on
disk: only since it is whole is a hit the value the abstract snapshot holds.

## 7. Where text and code disagree

Two runs are expected to be violated; PROJECT.json quotes the line each is about.

* `measurement_marks`: a run whose complete record is on disk is marked crashed when its worker
  dies afterwards, e.g. because an abandoned grader thread kept it from exiting in time.
* `replay_forked`: one dropped write lets two rollouts record halves of one chain; a third is served both,
  never goes live and is graded on a trajectory no environment showed. Without store faults the
  property holds (`SeenByOneEnvironment`). A write that only lands late does the same without any error: a put whose await
  the deadline cancelled goes on in its thread and may land after the next attempt missed that very key.

Six more configurations reproduce smaller disagreements by hand (`tlc -config X.cfg M`, each ends in a counterexample):

* `MCTrainerPromoted.cfg` (`PromotedIffApplied`): `Loss.promoted` of an applied verdict turns False once a later epoch has stepped.
* `MCTrainerComparable.cfg` (`JudgedRunsAreComparable`): an epoch bump between the two measurements leaves the
  criterion comparing runs of different regimes.
* `MCReplayRegime.cfg` (`AuditUnderRecordedRegime`): the audit resolves the epoch again, so a bump in between makes it
  re-execute under another regime than the chain's.
* `MCReplayNoChain.cfg` (`NoChainMeansNoChain`): `plugins/README.md:63` says that `no_chain` means that no chain was recorded or that it
  timed out. The digest of a chain covers the action that was cut, and `audit.py:65-72` asks only the new chain whether it timed
  out, so a later baseline that completed the same actions inherits `no_chain` without an audit. The verdict is on the safe side: its
  task stays excluded, although it has a whole chain that could be certified.
* `MCAgentBytes.cfg` (`WritersStoreIdenticalBytes`): two writers of one completion key may have cut the stream
  at different points; both completions are valid, the bytes differ.
* `MCHostCollides.cfg` (`SubnetsNeverCollide`): an audit takes no task lock and can find, or make others find, the subnet of
  a task taken.

And one that is a matter of durations, which the models leave out: `rollout/README.md` and `env/README.md` describe the outer
verify timeout as a backstop beyond the grader's own bound, but `rollout/episode.py:256` starts the verify
timeout around the whole call, the wait for the grader's lock included.

## 8. Not modelled, and what is only model-checked

Not modelled: the regular expressions of `determinism.py`, rollout telemetry, YAML validation, the logger, the command-line agent
behind the estimator and the tokenizer; of modelled parts, task loading, images and test-script plumbing of the benchmarks,
the container setup script, the PyPI proxy and the CA service of the network cache, worktrees and patch validation of a candidate,
a torn line of `runs.jsonl`. They are I/O or data to the rest; where their failures matter they appear as nondeterministic
choices (a candidate that is refused, a diagnose that raises, an estimate that is wrong).

Abstractions to keep in mind: a run is what the criterion reads of it, not its files; floats are exact
integers (the tie-breaker is a sum of powers of two, so nothing rounds at the panel sizes in use); only the two generic
secondary metrics have values, the one SWE-bench puts in front of them has the same form; a
candidate is an opaque commit; `_archive_trace` before a retry is taken to find a trace, i.e. policies ask
the model before they act; `write_chain` is taken to succeed; an output is what the scrubbed hash tells apart.
In `Episode` a network that `_remove_managed_network` fails to remove in silence is not counted in `open`, and grader threads that
go on after a close are `Grading`'s. In `Replay` the deadline does not pass while the marker of a drift is written, nor during the read that serves a
step. `Grading` merges the start of the grader's thread with its reading of the log directory: the paths contain the instance, so
nobody else's directory is the same. `Host` takes at least as many pool threads as slots for granted, which the code only has in a
comment (`sampler.py:60`), and that the sweep succeeds, which `Measurement` does not.

What the program itself leaves open, and the properties therefore do not claim: after an interrupt or an invalid event nothing is
concluded, and the record of a worker that was killed stays "running"; a docker that fails in the supervisor's sweep, or a
`KeyboardInterrupt` in the clean-up, leaves containers behind; a record that cannot be marked leaves the failure without a result; a container
whose start was given up is left to the owner sweep.

Only model-checked, on the bounds of section 4:

* liveness (`MeasurementEnds`, `RolloutEnds`, `EveryProcessEnds`, `LockMovesOn`), because the prover reaches
  neither fairness nor `ENABLED`;
* the counterexamples of section 7, which are runs and not theorems.
