------------------------------ MODULE Trainer ------------------------------
(***************************************************************************)
(* The training session (src/trainer/trainer.py): the epochs() generator,  *)
(* the loop that drives it (loss.backward, optimizer.step), the harness    *)
(* repository it fast-forwards (parameter.py, optim.py) and the run store  *)
(* it leaves behind (src/rollout/store.py).  Processes may be killed at    *)
(* any point, developers commit to the same branch, and an operator may    *)
(* bump a replay epoch while an epoch is under way.                        *)
(*                                                                         *)
(* One measurement (measurement.py) is one step here, one certification    *)
(* (plugins/replay/audit.py) another; the criterion is module Judge.       *)
(***************************************************************************)
EXTENDS Judge

CONSTANTS
  Replay,     \* plugins.execution = "replay"
  MaxEpochs,  \* bound: epochs, over all sessions
  MaxDrift,   \* bound: commits developers add to the branch meanwhile
  MaxBumps,   \* bound: replay epoch bumps
  MaxKills    \* bound: times the process dies

ASSUME TrainerAssumption ==
  /\ Replay \in BOOLEAN
  /\ {MaxEpochs, MaxDrift, MaxBumps, MaxKills} \subseteq Nat

VARIABLES
  head,         \* the commit HEAD points at
  anc,          \* commit -> that commit and its ancestors
  experiments,  \* run id -> the saved experiment.json
  index,        \* the rows of runs.jsonl
  regime,       \* the replay epoch counter behind the identity's digest
  drifts, kills,
  budget,       \* epochs no session has asked for yet
  pc,           \* where the generator stands
  left,         \* epochs the session still has to start
  skips,        \* len(consecutive_skip_causes)
  baseCommit,   \* baseline_commit of the epoch
  baseline,     \* run id of the epoch's baseline
  panel,        \* task_ids that survived certification
  candidate,    \* candidate_ref.commit
  attempt,      \* attempt_index
  pending,      \* the row record_finalized_run still has to append
  grad, applied,  \* Parameter.grad, Parameter.applied
  held,         \* the Loss objects the loop got hold of
  current,      \* the Loss of the open window
  stepped       \* optimizer.step() completed in the open window

repoVars == <<head, anc>>
storeVars == <<experiments, index>>
boundVars == <<regime, drifts, kills, budget>>
sessionVars == <<left, skips>>
epochVars == <<baseCommit, baseline, panel, candidate, attempt>>
harnessVars == <<grad, applied>>
loopVars == <<held, current, stepped>>
vars == <<repoVars, storeVars, boundVars, pc, sessionVars, epochVars, pending,
          harnessVars, loopVars>>

-----------------------------------------------------------------------------
None == 0  \* no commit, no run

NoLoss == [candidate |-> None, baseline |-> None]

\* Slip: the digest leaves the panel out.
identity_without_panel(tasks) ==
  [panel |-> Tasks, regime |-> IF Replay THEN regime ELSE 0]

\* The identity digests the panel with the rest of the config, and the epoch
\* counters of the replay namespaces; eager lines never change.
measurement_identity(tasks) == [panel |-> tasks, regime |-> IF Replay THEN regime ELSE 0]

Identity == [panel: SUBSET Tasks, regime: Nat]

Fresh(f) == Cardinality(DOMAIN f) + 1

Add(f, x, v) == [y \in DOMAIN f \cup {x} |-> IF y = x THEN v ELSE f[y]]

RunOf(commit, ident, tasks, crashed) ==
  [git_commit_hash |-> commit, identity |-> ident, tasks |-> tasks, crashed |-> crashed,
   kind |-> "none", parent |-> None, baseline |-> None, verdict |-> "none",
   certified |-> FALSE, excluded |-> {}]

\* What record_finalized_run writes into a run of the open epoch, and certify into a baseline.
Finalized(run, kind, verdict) ==
  [run EXCEPT !.kind = kind, !.parent = baseCommit, !.baseline = baseline, !.verdict = verdict]

Certified(run, excluded) == [run EXCEPT !.certified = TRUE, !.excluded = excluded]

Experiment ==
  [git_commit_hash: Nat, identity: Identity,
   tasks: UNION {[tasks -> Rollouts] : tasks \in SUBSET Tasks}, crashed: BOOLEAN,
   kind: {"none", "baseline", "candidate"}, parent: Nat, baseline: Nat,
   verdict: {"none", "promoted", "rejected", "invalid_infra"},
   certified: BOOLEAN, excluded: SUBSET Tasks]

RowOf(id, run) ==
  [experiment_id |-> id, kind |-> run.kind, git_commit_hash |-> run.git_commit_hash,
   identity |-> run.identity, parent |-> run.parent, baseline |-> run.baseline,
   crashed |-> run.crashed, verdict |-> run.verdict]

Row ==
  [experiment_id: Nat, kind: {"baseline", "candidate"}, git_commit_hash: Nat,
   identity: Identity, parent: Nat, baseline: Nat, crashed: BOOLEAN,
   verdict: {"none", "promoted", "rejected", "invalid_infra"}]

TasksOf(id) == experiments[id].tasks
CommitOf(loss) == experiments[loss.candidate].git_commit_hash
Report(loss) == measured_report(TasksOf(loss.baseline), TasksOf(loss.candidate))

\* MAX_CONSECUTIVE_SKIPS
MAX_CONSECUTIVE_SKIPS == 2

-----------------------------------------------------------------------------
Init ==
  /\ head = 1
  /\ anc = [c \in {1} |-> {1}]
  /\ experiments = <<>> /\ index = <<>>
  /\ regime = 0 /\ drifts = 0 /\ kills = 0 /\ budget = MaxEpochs
  /\ pc = "idle" /\ left = 0 /\ skips = 0
  /\ baseCommit = None /\ baseline = None /\ panel = {} /\ candidate = None /\ attempt = 0
  /\ pending = <<>>
  /\ grad = NoLoss /\ applied = None
  /\ held = {} /\ current = NoLoss /\ stepped = FALSE

-----------------------------------------------------------------------------
(* How control leaves an epoch.                                            *)

ForgetEpoch ==
  /\ baseCommit' = None /\ baseline' = None /\ panel' = {} /\ candidate' = None /\ attempt' = 0

\* The generator returns or raises; the Trainer object, its harness and the
\* losses the loop holds stay in memory.
Stop ==
  /\ pc' = "idle" /\ left' = 0 /\ skips' = 0
  /\ ForgetEpoch

\* The tail of the loop in _epochs: count or clear the skips, then trip the
\* breaker, go on to the next epoch, or finish.
EndEpoch(skipped) ==
  LET n == IF skipped THEN skips + 1 ELSE 0
  IN IF n >= MAX_CONSECUTIVE_SKIPS \/ left = 0
     THEN Stop
     ELSE pc' = "epoch" /\ skips' = n /\ UNCHANGED left /\ ForgetEpoch

-----------------------------------------------------------------------------
(* The generator, up to the verdict.                                       *)

\* Trainer.epochs(n): a new generator on the same Trainer.
Epochs ==
  /\ pc = "idle" /\ budget > 0
  /\ \E n \in 1..budget : left' = n /\ budget' = budget - n
  /\ pc' = "epoch" /\ skips' = 0
  /\ UNCHANGED <<repoVars, storeVars, regime, drifts, kills, epochVars, pending,
                 harnessVars, loopVars>>

\* Slip: the line's latest baseline, whatever HEAD has become.
latest_baseline_of_line(commit, ident) ==
  LET rows == {i \in DOMAIN index : index[i].kind = "baseline" /\ index[i].identity = ident}
  IN IF rows = {} THEN None ELSE index[Max(rows)].experiment_id

latest_completed_baseline(commit, ident) ==
  LET rows == {i \in DOMAIN index :
                 /\ index[i].kind = "baseline"
                 /\ ~index[i].crashed
                 /\ index[i].git_commit_hash = commit
                 /\ index[i].identity = ident}
  IN IF rows = {} THEN None ELSE index[Max(rows)].experiment_id

\* The head of an epoch: HEAD, the identity and the reusable baseline are read
\* once.  Preflight runs last and may raise.
StartEpoch ==
  /\ pc = "epoch"
  /\ LET ident == measurement_identity(Tasks)
         known == latest_completed_baseline(head, ident)
     IN \/ /\ pc' = IF known = None THEN "baseline" ELSE "certify"
           /\ baseCommit' = head /\ baseline' = known
           /\ left' = left - 1
           /\ UNCHANGED <<skips, panel, candidate, attempt>>
        \/ Stop
  /\ UNCHANGED <<repoVars, storeVars, boundVars, pending, harnessVars, loopVars>>

\* Slip: a run the sampler already saved is not saved again.
SaveOnce(id, run) ==
  /\ experiments' = IF id \in DOMAIN experiments THEN experiments ELSE Add(experiments, id, run)
  /\ pending' = <<RowOf(id, run)>>
  /\ UNCHANGED index

\* record_finalized_run, first half: save_experiment.  The row is appended by a
\* second write.
SaveFinalized(id, run) ==
  /\ experiments' = Add(experiments, id, run)
  /\ pending' = <<RowOf(id, run)>>
  /\ UNCHANGED index

\* _measure_baseline: the worker measures the whole panel in a worktree of the
\* epoch's commit, under the identity of that moment.
MeasureBaseline ==
  /\ pc = "baseline"
  /\ \E tasks \in [Tasks -> Rollouts] :
       LET id == Fresh(experiments)
       IN /\ SaveFinalized(id, [RunOf(baseCommit, measurement_identity(Tasks), tasks, FALSE)
                                 EXCEPT !.kind = "baseline"])
          /\ baseline' = id
  /\ pc' = "append_baseline"
  /\ UNCHANGED <<repoVars, boundVars, sessionVars, baseCommit, panel,
                 candidate, attempt, harnessVars, loopVars>>

\* record_finalized_run, second half: the index line.
AppendRow ==
  /\ index' = Append(index, pending[1])
  /\ pending' = <<>>
  /\ UNCHANGED experiments

AppendBaseline ==
  /\ pc = "append_baseline"
  /\ AppendRow
  /\ pc' = "certify"
  /\ UNCHANGED <<repoVars, boundVars, sessionVars, epochVars, harnessVars, loopVars>>

\* execution.certify: a cached certificate is reused; otherwise an audit (or an
\* inherited certificate) excludes any set of tasks and the record is saved.
\* Excluding every task raises.
Certify ==
  /\ pc = "certify"
  /\ LET run == experiments[baseline]
         choices == IF ~Replay THEN {{}}
                    ELSE IF run.certified THEN {run.excluded}
                    ELSE SUBSET DOMAIN run.tasks
     IN \E excluded \in choices :
          /\ experiments' = IF Replay
                            THEN [experiments EXCEPT ![baseline] = Certified(run, excluded)]
                            ELSE experiments
          /\ \/ /\ DOMAIN run.tasks \ excluded # {}
                /\ panel' = DOMAIN run.tasks \ excluded
                /\ pc' = "propose"
                /\ UNCHANGED <<sessionVars, baseCommit, baseline, candidate, attempt>>
             \/ DOMAIN run.tasks \ excluded = {} /\ Stop
  /\ UNCHANGED <<repoVars, index, boundVars, pending, harnessVars, loopVars>>

\* propose leaves the worktree unchanged: CandidateValidationError, no_candidate.
ProposeNothing ==
  /\ pc = "propose"
  /\ EndEpoch(TRUE)
  /\ UNCHANGED <<repoVars, storeVars, boundVars, pending, harnessVars, loopVars>>

\* One commit, a direct child of the epoch's baseline wherever HEAD is now, pinned
\* under refs/candidates so that it outlives a rejection.
capture_candidate(c) == anc' = Add(anc, c, anc[baseCommit] \cup {c})

\* validate_candidate and the suite may refuse what was captured.
Propose ==
  /\ pc = "propose"
  /\ LET c == Fresh(anc)
     IN /\ capture_candidate(c)
        /\ \/ /\ candidate' = c /\ attempt' = 0 /\ pc' = "measure"
              /\ UNCHANGED <<sessionVars, baseCommit, baseline, panel>>
           \/ EndEpoch(TRUE)
  /\ UNCHANGED <<head, storeVars, boundVars, pending, harnessVars, loopVars>>

\* Slip: one retry too many.
ThirdAttempt(id, run, verdict) ==
  /\ attempt' = attempt + 1
  /\ experiments' = IF id = None THEN experiments ELSE Add(experiments, id, run)
  /\ attempt < 2
  /\ UNCHANGED <<pc, sessionVars, index, pending, baseCommit, baseline, panel, candidate>>

\* A failed attempt: the first is superseded and stays an artifact, the second
\* is recorded (if there is a result) and skips the epoch.
FailedAttempt(id, run, verdict) ==
  IF attempt = 0
  THEN /\ attempt' = 1
       /\ experiments' = IF id = None THEN experiments ELSE Add(experiments, id, run)
       /\ UNCHANGED <<pc, sessionVars, index, pending, baseCommit, baseline,
                      panel, candidate>>
  ELSE IF id = None
  THEN EndEpoch(TRUE) /\ UNCHANGED <<storeVars, pending>>
  ELSE /\ SaveFinalized(id, Finalized(run, "candidate", verdict))
       /\ pc' = "append_failed"
       /\ UNCHANGED <<sessionVars, epochVars>>

\* MeasurementError, with the run marked crashed or without any run.
MeasurementFails ==
  /\ pc = "measure"
  /\ LET run == RunOf(candidate, measurement_identity(panel), <<>>, TRUE)
     IN \E id \in {None, Fresh(experiments)} : FailedAttempt(id, run, "none")
  /\ UNCHANGED <<repoVars, boundVars, harnessVars, loopVars>>

\* Slip: the harness keeps what an earlier epoch left on it.
OpenWindowUnzeroed(loss) ==
  /\ held' = held \cup {loss} /\ current' = loss /\ stepped' = FALSE
  /\ pc' = "window"
  /\ UNCHANGED harnessVars

\* "Zero before opening the window", then yield the Loss.
OpenWindow(loss) ==
  /\ grad' = NoLoss /\ applied' = None
  /\ held' = held \cup {loss} /\ current' = loss /\ stepped' = FALSE
  /\ pc' = "window"

\* The worker measured the candidate on the panel and the criterion judged it:
\* a Loss opens the window with a zeroed harness, UnmeasurableRun fails the
\* attempt.
MeasureCandidate ==
  /\ pc = "measure"
  /\ \E tasks \in [panel -> Rollouts] :
       LET id == Fresh(experiments)
           run == RunOf(candidate, measurement_identity(panel), tasks, FALSE)
           loss == [candidate |-> id, baseline |-> baseline]
       IN IF unmeasurable(TasksOf(baseline), tasks)
          THEN FailedAttempt(id, run, "invalid_infra") /\ UNCHANGED <<harnessVars, loopVars>>
          ELSE /\ experiments' = Add(experiments, id, run)
               /\ OpenWindow(loss)
               /\ UNCHANGED <<index, pending, sessionVars, epochVars>>
  /\ UNCHANGED <<repoVars, boundVars>>

\* Slip: the return after recording the failure is missing.
KeepMeasuring ==
  /\ pc = "append_failed"
  /\ AppendRow
  /\ pc' = "measure"
  /\ UNCHANGED <<repoVars, boundVars, sessionVars, epochVars, harnessVars, loopVars>>

\* The skip measurement_failure, with a row that may carry no verdict.
AppendFailed ==
  /\ pc = "append_failed"
  /\ AppendRow
  /\ EndEpoch(TRUE)
  /\ UNCHANGED <<repoVars, boundVars, harnessVars, loopVars>>

-----------------------------------------------------------------------------
(* The loop: user code that runs while the generator is suspended at the   *)
(* yield, or after it gave up on it.                                       *)

LoopRuns == pc \in {"window", "idle"}

\* Loss.backward()
backward(loss) ==
  /\ grad' = loss
  /\ UNCHANGED <<repoVars, storeVars, boundVars, pc, sessionVars, epochVars, pending,
                 applied, loopVars>>

\* GreedyMonotonic._should_promote
should_promote(loss) == Selects(Report(loss))

\* Slip: HEAD is reset to the target instead of merged.
HardReset ==
  /\ grad # NoLoss
  /\ LET target == IF should_promote(grad) THEN CommitOf(grad) ELSE head
     IN head' = target /\ applied' = target
  /\ stepped' = (pc = "window")
  /\ UNCHANGED <<anc, storeVars, boundVars, pc, sessionVars, epochVars, pending, grad,
                 held, current>>

\* Optimizer.step(): merge --ff-only moves HEAD to a descendant and is a no-op on
\* an ancestor; grad is kept.
step ==
  /\ grad # NoLoss
  /\ LET target == IF should_promote(grad) THEN CommitOf(grad) ELSE head
     IN /\ head \in anc[target] \/ target \in anc[head]
        /\ head' = IF head \in anc[target] THEN target ELSE head
        /\ applied' = target
  /\ stepped' = (pc = "window")
  /\ UNCHANGED <<anc, storeVars, boundVars, pc, sessionVars, epochVars, pending, grad,
                 held, current>>

\* A merge that is not a fast-forward raises GitCommandError into the loop: HEAD
\* and applied stay as they are.
StepRefused ==
  grad # NoLoss /\ should_promote(grad)
    /\ LET target == CommitOf(grad) IN head \notin anc[target] /\ target \notin anc[head]

\* break, or an exception in the loop body: the generator is closed at its yield.
Abandon ==
  /\ pc = "window"
  /\ Stop
  /\ current' = NoLoss /\ stepped' = FALSE
  /\ UNCHANGED <<repoVars, storeVars, boundVars, pending, harnessVars, held>>

-----------------------------------------------------------------------------
(* The loop resumes the generator: _conclude.                              *)

\* The guards of _conclude; a failed one raises and leaves the harness as it is.
Concludable ==
  grad # NoLoss /\ CommitOf(grad) = candidate /\ applied # None

ConcludeRefused ==
  /\ pc = "window" /\ ~Concludable
  /\ Stop
  /\ current' = NoLoss /\ stepped' = FALSE
  /\ UNCHANGED <<repoVars, storeVars, boundVars, pending, harnessVars, held>>

\* Slip: any completed step counts as a promotion.
AnyStepPromotes(loss) == applied # None

\* Loss.promoted
promoted(loss) == applied = CommitOf(loss)

\* The decision is rendered from the recorded verdict and the run is saved with it.
Conclude ==
  /\ pc = "window" /\ Concludable
  /\ LET id == current.candidate
     IN SaveFinalized(id, IF promoted(grad) THEN Finalized(experiments[id], "baseline", "promoted")
                          ELSE Finalized(experiments[id], "candidate", "rejected"))
  /\ pc' = "append_verdict"
  /\ UNCHANGED <<repoVars, boundVars, sessionVars, epochVars, harnessVars, loopVars>>

AppendVerdict ==
  /\ pc = "append_verdict"
  /\ AppendRow
  /\ pc' = "diagnose"
  /\ UNCHANGED <<repoVars, boundVars, sessionVars, epochVars, harnessVars, loopVars>>

\* estimator.diagnose returns or raises; either way the harness is cleared.
Diagnose ==
  /\ pc = "diagnose"
  /\ grad' = NoLoss /\ applied' = None
  /\ current' = NoLoss /\ stepped' = FALSE
  /\ EndEpoch(FALSE) \/ Stop
  /\ UNCHANGED <<repoVars, storeVars, boundVars, pending, held>>

-----------------------------------------------------------------------------
(* The environment.                                                        *)

\* An exception nothing in the generator handles: MeasurementError of a baseline,
\* a worker that ran the wrong tasks, an audit or a backend that broke.
Raise ==
  /\ pc \in {"baseline", "certify", "propose", "measure"}
  /\ Stop
  /\ UNCHANGED <<repoVars, storeVars, boundVars, pending, harnessVars, loopVars>>

\* The process dies: only the repository and the store survive.
Kill ==
  /\ kills < MaxKills /\ kills' = kills + 1
  /\ Stop
  /\ pending' = <<>> /\ grad' = NoLoss /\ applied' = None
  /\ held' = {} /\ current' = NoLoss /\ stepped' = FALSE
  /\ UNCHANGED <<repoVars, storeVars, regime, drifts, budget>>

\* A developer commits on the branch ("HEAD drift", optim.py).
Drift ==
  /\ drifts < MaxDrift /\ drifts' = drifts + 1
  /\ head' = Fresh(anc)
  /\ anc' = Add(anc, head', anc[head] \cup {head'})
  /\ UNCHANGED <<storeVars, regime, kills, budget, pc, sessionVars, epochVars, pending,
                 harnessVars, loopVars>>

\* bump_epoch: the operator invalidates the recordings.
BumpEpoch ==
  /\ Replay /\ regime < MaxBumps /\ regime' = regime + 1
  /\ UNCHANGED <<repoVars, storeVars, drifts, kills, budget, pc, sessionVars, epochVars,
                 pending, harnessVars, loopVars>>

-----------------------------------------------------------------------------
Generator ==
  \/ StartEpoch \/ MeasureBaseline \/ AppendBaseline \/ Certify
  \/ ProposeNothing \/ Propose \/ MeasurementFails \/ MeasureCandidate \/ AppendFailed
  \/ AppendVerdict \/ Diagnose \/ Raise

Environment == Epochs \/ Kill \/ Drift \/ BumpEpoch

\* Resuming the generator.
Resume == Conclude \/ ConcludeRefused

\* Any loop at all: any held Loss, any number of steps, in any order.
AnyLoop ==
  \/ LoopRuns /\ \E loss \in held : backward(loss)
  \/ LoopRuns /\ step
  \/ Resume \/ Abandon

\* The documented loop body, loss.backward(); optimizer.step(), then the next
\* iteration; a refused merge raises out of it.
DocumentedLoop ==
  /\ pc = "window"
  /\ \/ grad # current /\ backward(current)
     \/ grad = current /\ ~stepped /\ step
     \/ grad = current /\ ~stepped /\ StepRefused /\ Abandon
     \/ stepped /\ Resume

Next == Generator \/ Environment \/ AnyLoop

Spec == Init /\ [][Next]_vars

DocumentedNext == Generator \/ Environment \/ DocumentedLoop

DocumentedSpec == Init /\ [][DocumentedNext]_vars

-----------------------------------------------------------------------------
(* Properties.                                                             *)

TypeOK ==
  /\ head \in DOMAIN anc
  /\ DOMAIN anc \subseteq Nat \ {None}
  /\ \A c \in DOMAIN anc : c \in anc[c] /\ anc[c] \subseteq DOMAIN anc
  /\ DOMAIN experiments \subseteq Nat \ {None}
  /\ \A id \in DOMAIN experiments : experiments[id] \in Experiment
  /\ \A i \in DOMAIN index : index[i] \in Row
  /\ {regime, drifts, kills, budget, left, skips} \subseteq Nat
  /\ pc \in {"idle", "epoch", "baseline", "append_baseline", "certify", "propose",
             "measure", "append_failed", "window", "append_verdict", "diagnose"}
  /\ baseCommit \in {None} \cup DOMAIN anc
  /\ candidate \in {None} \cup DOMAIN anc
  /\ baseline \in {None} \cup DOMAIN experiments
  /\ panel \subseteq Tasks
  /\ attempt \in {0, 1}
  /\ applied \in {None} \cup DOMAIN anc
  /\ \A loss \in held \cup ({grad, current} \ {NoLoss}) :
       {loss.candidate, loss.baseline} \subseteq DOMAIN experiments
  /\ stepped \in BOOLEAN

Rows == {index[i] : i \in DOMAIN index}

\* A run recorded as promoted beats the very run it names as its baseline: that
\* baseline measured the parent commit, the candidate ran every task its
\* certification kept, and it solves all of those the baseline solved.  Holds for
\* every loop, stale losses and killed sessions included (_conclude).
PromotionsAreSound ==
  \A row \in Rows : row.verdict = "promoted" =>
    LET old == experiments[row.baseline]
        new == experiments[row.experiment_id]
    IN /\ old.git_commit_hash = row.parent /\ ~old.crashed
       /\ row.parent \in anc[row.git_commit_hash]
       /\ DOMAIN new.tasks = Tasks \ old.excluded
       /\ solved_task_ids(old.tasks) \ old.excluded \subseteq solved_task_ids(new.tasks)

\* The trainer moves HEAD only forward, and only to a candidate some Loss selects
\* (Optimizer.step: "no subclass can select an unrelated commit").
HeadOnlyFollowsSelections ==
  [][head' # head /\ drifts' = drifts =>
       \E loss \in held : /\ Selects(Report(loss))
                          /\ head' = CommitOf(loss)
                          /\ head \in anc[head']]_vars

\* Whatever a candidate is compared with from proposal to verdict is a completed
\* run of the whole panel at the epoch's commit, indexed as a baseline: a promoted
\* run of a reduced panel, a crashed run or a run of another commit is never reused
\* (latest_completed_baseline, the panel inside the identity).
BaselineIsCompleteAndCurrent ==
  pc \in {"propose", "measure", "window"} =>
    LET run == experiments[baseline]
    IN /\ run.git_commit_hash = baseCommit /\ ~run.crashed
       /\ DOMAIN run.tasks = Tasks
       /\ \E row \in Rows : row.experiment_id = baseline /\ row.kind = "baseline"
       /\ panel = Tasks \ run.excluded /\ panel # {}

\* A decision is recorded only if, since this epoch's Loss was yielded, the loop
\* recorded that Loss and completed a step: nothing an abandoned or failed epoch
\* left on the harness concludes a later one.
VerdictsNeverLeakForward ==
  [][pc = "window" /\ pc' = "append_verdict" =>
       stepped /\ grad.candidate = current.candidate]_vars

\* A kill between the two writes of record_finalized_run may lose a row, but the
\* index is never ahead of the records: every row tells what the saved experiment
\* says of itself.
IndexNeverAheadOfRecords ==
  \A row \in Rows : /\ row.experiment_id \in DOMAIN experiments
                    /\ row = RowOf(row.experiment_id, experiments[row.experiment_id])

\* A run has one row and a candidate commit has one, retries and restarts
\* included: the superseded first attempt stays artifact-only.
OneRowPerCandidate ==
  \A i, j \in DOMAIN index :
    i # j => /\ index[i].experiment_id # index[j].experiment_id
             /\ \/ None \in {index[i].parent, index[j].parent}
                \/ index[i].git_commit_hash # index[j].git_commit_hash

\* experiment.json and runs.jsonl agree after any kill: every row tells what its record says,
\* and no run or candidate commit has two.
RecordsAgree ==
  /\ TypeOK
  /\ IndexNeverAheadOfRecords
  /\ OneRowPerCandidate

\* With the documented loop the index and the branch tell the same story: a judged
\* candidate is part of HEAD's history exactly if its row says promoted.
HistoryAgreesWithIndex ==
  \A row \in Rows : row.parent # None =>
    (row.verdict = "promoted" <=> row.git_commit_hash \in anc[head])

\* A session never starts an epoch after MAX_CONSECUTIVE_SKIPS skips in a row.
BreakerHolds == pc # "idle" => skips < MAX_CONSECUTIVE_SKIPS

-----------------------------------------------------------------------------
(* What the repository says and the code does not do.                      *)

\* loss.py, Loss.promoted: "True iff the optimizer applied this verdict's candidate
\* to the harness."
PromotedIffApplied ==
  pc = "window" /\ applied # None =>
    \A loss \in held : promoted(loss) <=> CommitOf(loss) \in anc[head]

\* src/plugins/README.md: "whether two runs are comparable is measurement
\* identity's job".
JudgedRunsAreComparable ==
  pc = "window" =>
    experiments[current.candidate].identity.regime = experiments[baseline].identity.regime
=============================================================================
