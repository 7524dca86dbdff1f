--------------------------- MODULE TrainerProofs ---------------------------
(***************************************************************************)
(* The training session for every panel, every loop body and any number of *)
(* epochs, kills, foreign commits and bumps: its skip breaker, its records *)
(* and what a promotion means; for the documented loop, that the index     *)
(* tells the branch's history; and, for one judgment of any pair of runs,  *)
(* what the criterion guarantees.                                          *)
(***************************************************************************)
EXTENDS Trainer, Verdict, FiniteSetTheorems, SequenceTheorems, WellFoundedInduction, TLAPS

-----------------------------------------------------------------------------
(* The breaker.                                                            *)

\* What an action has to respect: the skip counter of a running session.
Counted == skips \in Nat /\ BreakerHolds

\* The two ways out of an epoch respect the breaker.
LEMMA StopIsCounted ==
  ASSUME Stop
  PROVE  Counted'
BY DEF Stop, Counted, BreakerHolds, MAX_CONSECUTIVE_SKIPS

LEMMA EndEpochIsCounted ==
  ASSUME Counted, NEW skipped \in BOOLEAN, EndEpoch(skipped)
  PROVE  Counted'
<1>1. CASE skipped
  BY <1>1, StopIsCounted DEF EndEpoch, Counted, BreakerHolds, MAX_CONSECUTIVE_SKIPS
<1>2. CASE ~skipped
  BY <1>2, StopIsCounted DEF EndEpoch, Counted, BreakerHolds, MAX_CONSECUTIVE_SKIPS
<1> QED BY <1>1, <1>2

\* A step inside an epoch leaves the counter alone.
LEMMA SameIsCounted ==
  ASSUME Counted, skips' = skips, pc # "idle" \/ pc' = pc
  PROVE  Counted'
BY DEF Counted, BreakerHolds

\* A failed attempt is retried, recorded or skips the epoch.
LEMMA FailedAttemptIsCounted ==
  ASSUME Counted, pc = "measure", NEW id, NEW run, NEW verdict, FailedAttempt(id, run, verdict)
  PROVE  Counted'
<1>1. CASE attempt = 0
  BY <1>1, SameIsCounted DEF FailedAttempt, sessionVars
<1>2. CASE attempt # 0 /\ id = None
  BY <1>2, EndEpochIsCounted DEF FailedAttempt
<1>3. CASE attempt # 0 /\ id # None
  BY <1>3, SameIsCounted DEF FailedAttempt, sessionVars
<1> QED BY <1>1, <1>2, <1>3

LEMMA GeneratorIsCounted ==
  ASSUME Counted, Generator
  PROVE  Counted'
<1>1. CASE StartEpoch
  BY <1>1, SameIsCounted, StopIsCounted DEF StartEpoch
<1>2. CASE MeasureBaseline
  BY <1>2, SameIsCounted DEF MeasureBaseline, sessionVars
<1>3. CASE AppendBaseline
  BY <1>3, SameIsCounted DEF AppendBaseline, sessionVars
<1>4. CASE Certify
  BY <1>4, SameIsCounted, StopIsCounted DEF Certify, sessionVars
<1>5. CASE ProposeNothing
  BY <1>5, EndEpochIsCounted DEF ProposeNothing
<1>6. CASE Propose
  BY <1>6, SameIsCounted, EndEpochIsCounted DEF Propose, sessionVars
<1>7. CASE MeasurementFails
  BY <1>7, FailedAttemptIsCounted DEF MeasurementFails
<1>8. CASE MeasureCandidate
  BY <1>8, FailedAttemptIsCounted, SameIsCounted DEF MeasureCandidate, sessionVars
<1>9. CASE AppendFailed
  BY <1>9, EndEpochIsCounted DEF AppendFailed
<1>10. CASE AppendVerdict
  BY <1>10, SameIsCounted DEF AppendVerdict, sessionVars
<1>11. CASE Diagnose
  BY <1>11, EndEpochIsCounted, StopIsCounted DEF Diagnose
<1>12. CASE Raise
  BY <1>12, StopIsCounted DEF Raise
<1> QED
  BY <1>1, <1>2, <1>3, <1>4, <1>5, <1>6, <1>7, <1>8, <1>9, <1>10, <1>11, <1>12 DEF Generator

LEMMA EnvironmentIsCounted ==
  ASSUME Counted, Environment
  PROVE  Counted'
<1>1. CASE Epochs
  BY <1>1 DEF Epochs, Counted, BreakerHolds, MAX_CONSECUTIVE_SKIPS
<1>2. CASE Kill
  BY <1>2, StopIsCounted DEF Kill
<1>3. CASE Drift
  BY <1>3, SameIsCounted DEF Drift, sessionVars
<1>4. CASE BumpEpoch
  BY <1>4, SameIsCounted DEF BumpEpoch, sessionVars
<1> QED BY <1>1, <1>2, <1>3, <1>4 DEF Environment

LEMMA LoopIsCounted ==
  ASSUME Counted, AnyLoop
  PROVE  Counted'
<1>1. ASSUME NEW loss \in held, backward(loss)
      PROVE  Counted'
  BY <1>1, SameIsCounted DEF backward, sessionVars
<1>2. CASE step
  BY <1>2, SameIsCounted DEF step, sessionVars
<1>3. CASE Conclude
  BY <1>3, SameIsCounted DEF Conclude, sessionVars
<1>4. CASE ConcludeRefused \/ Abandon
  BY <1>4, StopIsCounted DEF ConcludeRefused, Abandon
<1> QED BY <1>1, <1>2, <1>3, <1>4 DEF AnyLoop, Resume

\* A session never starts an epoch after MAX_CONSECUTIVE_SKIPS skips in a row, whatever
\* the loop body does and however often the process dies (_epochs).
THEOREM BreakerSafe == Spec => []BreakerHolds
<1>1. Init => Counted
  BY DEF Init, Counted, BreakerHolds
<1>2. Counted /\ [Next]_vars => Counted'
  <2> SUFFICES ASSUME Counted, [Next]_vars
               PROVE  Counted'
    OBVIOUS
  <2>1. CASE Next
    BY <2>1, GeneratorIsCounted, EnvironmentIsCounted, LoopIsCounted DEF Next
  <2>2. CASE UNCHANGED vars
    BY <2>2, SameIsCounted DEF vars, sessionVars
  <2> QED BY <2>1, <2>2
<1>3. Counted => BreakerHolds
  BY DEF Counted
<1> QED BY <1>1, <1>2, <1>3, PTL DEF Spec

-----------------------------------------------------------------------------
(* The inductive invariant.                                                *)

\* Commits and runs are numbered as they come.
Numbered(f) == \E n \in Nat : DOMAIN f = 1..n

\* An ancestor is older than its descendants.
RepoInv ==
  /\ Numbered(anc) /\ head \in DOMAIN anc
  /\ \A c \in DOMAIN anc : c \in anc[c] /\ anc[c] \subseteq 1..c

\* The certificate of a run will not change any more.
Settled(run) == Replay => run.certified

\* A run is of a commit of the repository, and one that completed measured the panel of its
\* identity: an identity that names the whole panel is of a run of the whole panel.
RunOk(id) ==
  LET run == experiments[id]
  IN /\ run \in Experiment
     /\ run.git_commit_hash \in DOMAIN anc
     /\ ~run.crashed => DOMAIN run.tasks = run.identity.panel
     /\ ~Replay => run.excluded = {}

\* PromotionsAreSound, of the record instead of the row.
PromotionOk(id) ==
  LET run == experiments[id]
      old == experiments[run.baseline]
  IN run.verdict = "promoted" =>
       /\ run.baseline \in DOMAIN experiments
       /\ old.git_commit_hash = run.parent /\ ~old.crashed /\ Settled(old)
       /\ run.parent \in anc[run.git_commit_hash]
       /\ DOMAIN run.tasks = Tasks \ old.excluded
       /\ solved_task_ids(old.tasks) \ old.excluded \subseteq solved_task_ids(run.tasks)

StoreInv ==
  /\ Numbered(experiments)
  /\ \A id \in DOMAIN experiments : RunOk(id) /\ PromotionOk(id)

IndexInv ==
  /\ index \in Seq(Row)
  /\ \A i \in DOMAIN index :
       /\ index[i].experiment_id \in DOMAIN experiments
       /\ index[i] = RowOf(index[i].experiment_id, experiments[index[i].experiment_id])
  /\ OneRowPerCandidate

CountersInv ==
  /\ {regime, drifts, kills, budget, left, skips} \subseteq Nat
  /\ pc = "epoch" => left > 0

\* From the baseline on, until the epoch is over.
InEpoch == {"append_baseline", "certify", "propose", "measure", "append_failed", "window",
            "append_verdict"}

EpochType ==
  /\ pc \in {"idle", "epoch", "baseline", "diagnose"} \cup InEpoch
  /\ baseCommit \in {None} \cup DOMAIN anc
  /\ candidate \in {None} \cup DOMAIN anc
  /\ baseline \in {None} \cup DOMAIN experiments
  /\ panel \subseteq Tasks
  /\ attempt \in {0, 1}

\* The baseline the epoch found or measured.
BaselineInv ==
  /\ pc \in {"baseline"} \cup InEpoch => baseCommit \in DOMAIN anc
  /\ pc \in InEpoch =>
       /\ baseline \in DOMAIN experiments
       /\ experiments[baseline].git_commit_hash = baseCommit
       /\ ~experiments[baseline].crashed
       /\ experiments[baseline].kind = "baseline"
       /\ DOMAIN experiments[baseline].tasks = Tasks
  /\ pc \in InEpoch \ {"append_baseline"} =>
       \E i \in DOMAIN index : index[i].experiment_id = baseline
  /\ pc \in InEpoch \ {"append_baseline", "certify"} =>
       /\ Settled(experiments[baseline])
       /\ panel = Tasks \ experiments[baseline].excluded /\ panel # {}

\* The commit that was captured is new: no row tells of it.
CandidateInv ==
  pc \in {"measure", "append_failed", "window", "append_verdict"} =>
    /\ candidate \in DOMAIN anc
    /\ anc[candidate] = anc[baseCommit] \cup {candidate}
    /\ \A i \in DOMAIN index :
         index[i].parent = None \/ index[i].git_commit_hash # candidate

\* The row that is to be appended is that of a record no row tells of.
PendingInv ==
  pc \in {"append_baseline", "append_failed", "append_verdict"} =>
    \E id \in DOMAIN experiments :
      /\ pending = <<RowOf(id, experiments[id])>>
      /\ experiments[id].kind # "none"
      /\ \A i \in DOMAIN index : index[i].experiment_id # id
      /\ pc = "append_baseline" => id = baseline /\ experiments[id].parent = None
      /\ pc # "append_baseline" => experiments[id].git_commit_hash = candidate

\* What a Loss was made from.
LossOk(loss) ==
  /\ loss \in [candidate : DOMAIN experiments, baseline : DOMAIN experiments]
  /\ ~unmeasurable(TasksOf(loss.baseline), TasksOf(loss.candidate))

LoopInv ==
  /\ \A loss \in held : LossOk(loss)
  /\ {grad, current} \subseteq held \cup {NoLoss}
  /\ applied \in {None} \cup DOMAIN anc
  /\ stepped \in BOOLEAN

\* Nothing happened to a candidate before its Loss is yielded.
UnjudgedInv ==
  pc \in {"measure", "append_failed"} =>
    head # candidate /\ \A loss \in held : CommitOf(loss) # candidate

\* The open window: its Loss is the only one of the candidate, and who applied the candidate,
\* or moved HEAD to it, did so because that Loss selects it.
WindowInv ==
  pc = "window" =>
    /\ current \in held /\ current.baseline = baseline
    /\ \A loss \in held : CommitOf(loss) = candidate <=> loss = current
    /\ experiments[current.candidate].kind = "none"
    /\ DOMAIN TasksOf(current.candidate) = panel
    /\ candidate \in {head, applied} => should_promote(current)
    /\ applied # None => stepped

IInv ==
  /\ RepoInv /\ StoreInv /\ IndexInv /\ CountersInv /\ EpochType /\ BaselineInv
  /\ CandidateInv /\ PendingInv /\ LoopInv /\ UnjudgedInv /\ WindowInv

-----------------------------------------------------------------------------
(* Numbered commits and runs.                                              *)

LEMMA FreshIs ==
  ASSUME NEW f, Numbered(f)
  PROVE  /\ Fresh(f) \in Nat \ {0}
         /\ DOMAIN f = 1..Fresh(f) - 1
         /\ Fresh(f) \notin DOMAIN f
         /\ DOMAIN f \cup {Fresh(f)} = 1..Fresh(f)
<1>1. PICK n \in Nat : DOMAIN f = 1..n
  BY DEF Numbered
<1>2. Cardinality(DOMAIN f) = n
  <2>1. Cardinality(1..n) = IF 1 > n THEN 0 ELSE n - 1 + 1
    BY FS_Interval
  <2>2. QED
    BY <1>1, <2>1
<1>3. QED
  BY <1>1, <1>2 DEF Fresh

LEMMA AddIs ==
  ASSUME NEW f, NEW x, NEW v
  PROVE  /\ DOMAIN Add(f, x, v) = DOMAIN f \cup {x}
         /\ Add(f, x, v)[x] = v
         /\ \A y \in DOMAIN f : y # x => Add(f, x, v)[y] = f[y]
BY DEF Add

LEMMA AddNumbered ==
  ASSUME NEW f, Numbered(f), NEW v
  PROVE  /\ Numbered(Add(f, Fresh(f), v))
         /\ \A y \in DOMAIN f : y # Fresh(f)
         /\ \A x \in DOMAIN f : Numbered(Add(f, x, v))
<1>1. DOMAIN Add(f, Fresh(f), v) = 1..Fresh(f) /\ Fresh(f) \in Nat /\ Fresh(f) \notin DOMAIN f
  BY FreshIs, AddIs
<1>2. \A x \in DOMAIN f : DOMAIN Add(f, x, v) = DOMAIN f
  BY DEF Add
<1>3. QED
  BY <1>1, <1>2 DEF Numbered

\* The last of some rows is one of them.
LEMMA MaxIs ==
  ASSUME NEW n \in Nat, NEW S \in SUBSET (1..n), S # {}
  PROVE  Max(S) \in S
<1> DEFINE T == {n - i : i \in S}
           R == {ss \in Nat \X Nat : ss[1] < ss[2]}
<1>1. T \subseteq Nat
  <2>1. ASSUME NEW i \in S
        PROVE  n - i \in Nat
    <3>1. i \in Nat /\ i <= n
      OBVIOUS
    <3>2. QED
      BY <3>1
  <2>2. QED
    BY <2>1
<1>2. T # {}
  OBVIOUS
<1>3. IsWellFoundedOn(R, Nat)
  <2>1. R = OpToRel(<, Nat)
    BY DEF OpToRel
  <2>2. QED
    BY <2>1, NatLessThanWellFounded
<1>4. PICK x \in T : \A y \in T : ~(<<y, x>> \in R)
  <2> HIDE DEF R, T
  <2>1. QED
    BY <1>1, <1>2, <1>3, WFMin
<1>5. ASSUME NEW y \in T
      PROVE  x <= y
  <2> HIDE DEF T
  <2>1. x \in Nat /\ y \in Nat /\ <<y, x>> \in Nat \X Nat
    BY <1>1
  <2>2. ~(y < x)
    BY <1>4, <2>1
  <2>3. QED
    BY <2>1, <2>2
<1>6. PICK m \in S : x = n - m
  OBVIOUS
<1>7. ASSUME NEW i \in S
      PROVE  i <= m
  <2>1. n - m <= n - i /\ i \in Nat /\ m \in Nat
    BY <1>5, <1>6
  <2>2. QED
    BY <2>1
<1>8. QED
  BY <1>7 DEF Max

-----------------------------------------------------------------------------
(* The fields of a run that was saved.                                     *)

LEMMA FinalizedIs ==
  ASSUME NEW run \in Experiment, NEW kind \in {"baseline", "candidate"},
         NEW verdict \in {"none", "promoted", "rejected", "invalid_infra"},
         baseCommit \in Nat, baseline \in Nat
  PROVE  LET new == Finalized(run, kind, verdict)
         IN /\ new \in Experiment
            /\ new.git_commit_hash = run.git_commit_hash /\ new.identity = run.identity
            /\ new.tasks = run.tasks /\ new.crashed = run.crashed
            /\ new.kind = kind /\ new.parent = baseCommit /\ new.baseline = baseline
            /\ new.verdict = verdict
            /\ new.certified = run.certified /\ new.excluded = run.excluded
BY DEF Finalized, Experiment

LEMMA CertifiedIs ==
  ASSUME NEW run \in Experiment, NEW excluded \in SUBSET Tasks
  PROVE  LET new == Certified(run, excluded)
         IN /\ new \in Experiment
            /\ new.git_commit_hash = run.git_commit_hash /\ new.identity = run.identity
            /\ new.tasks = run.tasks /\ new.crashed = run.crashed
            /\ new.kind = run.kind /\ new.parent = run.parent /\ new.baseline = run.baseline
            /\ new.verdict = run.verdict
            /\ new.certified = TRUE /\ new.excluded = excluded
BY DEF Certified, Experiment

LEMMA RunOfIs ==
  ASSUME NEW commit \in Nat, NEW tasks \in SUBSET Tasks, NEW ident \in Identity,
         NEW run \in [tasks -> Rollouts], NEW crashed \in BOOLEAN
  PROVE  LET new == RunOf(commit, ident, run, crashed)
         IN /\ new \in Experiment
            /\ new.git_commit_hash = commit /\ new.identity = ident
            /\ new.tasks = run /\ new.crashed = crashed
            /\ new.kind = "none" /\ new.parent = None /\ new.baseline = None
            /\ new.verdict = "none" /\ new.certified = FALSE /\ new.excluded = {}
<1>1. run \in UNION {[ts -> Rollouts] : ts \in SUBSET Tasks}
  OBVIOUS
<1>2. RunOf(commit, ident, run, crashed) \in Experiment
  BY <1>1 DEF RunOf, Experiment, None
<1>3. QED
  BY <1>2 DEF RunOf

LEMMA RowIs ==
  ASSUME NEW id \in Nat, NEW run \in Experiment
  PROVE  LET row == RowOf(id, run)
         IN /\ run.kind # "none" => row \in Row
            /\ row.experiment_id = id /\ row.kind = run.kind
            /\ row.git_commit_hash = run.git_commit_hash /\ row.identity = run.identity
            /\ row.parent = run.parent /\ row.baseline = run.baseline
            /\ row.crashed = run.crashed /\ row.verdict = run.verdict
<1>1. /\ run.kind \in {"none", "baseline", "candidate"} /\ run.git_commit_hash \in Nat
      /\ run.identity \in Identity /\ run.parent \in Nat /\ run.baseline \in Nat
      /\ run.crashed \in BOOLEAN
      /\ run.verdict \in {"none", "promoted", "rejected", "invalid_infra"}
  BY DEF Experiment
<1>2. QED
  BY <1>1 DEF RowOf, Row

-----------------------------------------------------------------------------
(* What a step leaves of the repository and of the store.                  *)

AncKeeps == \A c \in DOMAIN anc : c \in DOMAIN anc' /\ anc'[c] = anc[c]

KeepsRun(id) ==
  /\ id \in DOMAIN experiments'
  /\ experiments'[id].git_commit_hash = experiments[id].git_commit_hash
  /\ experiments'[id].identity = experiments[id].identity
  /\ experiments'[id].tasks = experiments[id].tasks
  /\ experiments'[id].crashed = experiments[id].crashed
  /\ Settled(experiments[id]) =>
       Settled(experiments'[id]) /\ experiments'[id].excluded = experiments[id].excluded

Keeps == \A id \in DOMAIN experiments : KeepsRun(id)

LEMMA SameKeeps == experiments' = experiments => Keeps
BY DEF Keeps, KeepsRun, Settled

LEMMA SameAncKeeps == anc' = anc => AncKeeps
BY DEF AncKeeps

\* A promotion stays sound whatever is saved or certified later.
LEMMA PromotionKept ==
  ASSUME Keeps, AncKeeps, NEW id \in DOMAIN experiments, RunOk(id), PromotionOk(id),
         experiments'[id].verdict = experiments[id].verdict,
         experiments'[id].parent = experiments[id].parent,
         experiments'[id].baseline = experiments[id].baseline
  PROVE  PromotionOk(id)'
<1> SUFFICES ASSUME experiments[id].verdict = "promoted" PROVE PromotionOk(id)'
  BY DEF PromotionOk
<1> DEFINE old == experiments[id].baseline
<1>1. KeepsRun(id) /\ experiments[id].git_commit_hash \in DOMAIN anc
  BY DEF Keeps, RunOk
<1>2. old \in DOMAIN experiments /\ KeepsRun(old) /\ Settled(experiments[old])
  BY DEF Keeps, PromotionOk
<1>3. anc'[experiments'[id].git_commit_hash] = anc[experiments[id].git_commit_hash]
  BY <1>1 DEF AncKeeps, KeepsRun
<1>4. QED
  BY <1>1, <1>2, <1>3 DEF KeepsRun, PromotionOk

\* Nothing is saved.
LEMMA StoreSame ==
  ASSUME StoreInv, AncKeeps, experiments' = experiments
  PROVE  StoreInv' /\ Keeps
<1>1. Keeps
  BY SameKeeps
<1>2. \A id \in DOMAIN experiments : PromotionOk(id)'
  BY <1>1, PromotionKept DEF StoreInv
<1>3. \A id \in DOMAIN experiments : RunOk(id)'
  BY DEF StoreInv, RunOk, AncKeeps
<1>4. QED
  BY <1>1, <1>2, <1>3 DEF StoreInv

\* A run is saved for the first time.
LEMMA StoreAdds ==
  ASSUME StoreInv, AncKeeps, NEW run \in Experiment, NEW new, new = Fresh(experiments),
         experiments' = Add(experiments, new, run),
         run.git_commit_hash \in DOMAIN anc',
         ~run.crashed => DOMAIN run.tasks = run.identity.panel,
         run.excluded = {}, run.verdict # "promoted"
  PROVE  /\ StoreInv' /\ Keeps
         /\ DOMAIN experiments' = DOMAIN experiments \cup {new}
         /\ new \notin DOMAIN experiments /\ new \in Nat \ {0}
         /\ experiments'[new] = run
         /\ \A id \in DOMAIN experiments : experiments'[id] = experiments[id]
<1>1. Numbered(experiments)
  BY DEF StoreInv
<1>2. new \notin DOMAIN experiments /\ new \in Nat \ {0}
  BY <1>1, FreshIs
<1>3. /\ DOMAIN experiments' = DOMAIN experiments \cup {new}
      /\ experiments'[new] = run
      /\ \A id \in DOMAIN experiments : experiments'[id] = experiments[id]
  BY <1>2 DEF Add
<1>4. Numbered(experiments)'
  <2>1. Numbered(Add(experiments, new, run))
    BY <1>1, AddNumbered
  <2>2. QED
    BY <2>1 DEF Numbered
<1>5. Keeps
  BY <1>3 DEF Keeps, KeepsRun, Settled
<1>6. \A id \in DOMAIN experiments : PromotionOk(id)'
  BY <1>3, <1>5, PromotionKept DEF StoreInv
<1>7. \A id \in DOMAIN experiments : RunOk(id)'
  BY <1>3 DEF StoreInv, RunOk, AncKeeps
<1>8. RunOk(new)' /\ PromotionOk(new)'
  BY <1>3 DEF RunOk, PromotionOk
<1>9. QED
  BY <1>2, <1>3, <1>4, <1>5, <1>6, <1>7, <1>8 DEF StoreInv

\* A run is saved again.
LEMMA StoreUpdates ==
  ASSUME StoreInv, anc' = anc, NEW id \in DOMAIN experiments, NEW run \in Experiment,
         DOMAIN experiments' = DOMAIN experiments, experiments'[id] = run,
         \A other \in DOMAIN experiments \ {id} : experiments'[other] = experiments[other],
         KeepsRun(id), ~Replay => run.excluded = {},
         Keeps => PromotionOk(id)'
  PROVE  StoreInv' /\ Keeps
<1>1. Keeps /\ AncKeeps
  BY SameAncKeeps DEF Keeps, KeepsRun, Settled
<1>2. \A other \in DOMAIN experiments \ {id} : PromotionOk(other)'
  BY <1>1, PromotionKept DEF StoreInv
<1>3. \A other \in DOMAIN experiments \ {id} : RunOk(other)'
  BY DEF StoreInv, RunOk
<1>4. RunOk(id)'
  BY DEF StoreInv, RunOk, KeepsRun
<1>5. QED
  BY <1>1, <1>2, <1>3, <1>4 DEF StoreInv, Numbered

\* The index is what it was, and no record a row tells of tells anything else.
LEMMA IndexSame ==
  ASSUME IndexInv, index' = index, DOMAIN experiments \subseteq DOMAIN experiments',
         \A i \in DOMAIN index :
           LET id == index[i].experiment_id
           IN RowOf(id, experiments'[id]) = RowOf(id, experiments[id])
  PROVE  IndexInv'
BY DEF IndexInv, OneRowPerCandidate

\* A Loss means the same as ever.
LEMMA LossKept ==
  ASSUME Keeps, NEW loss, LossOk(loss)
  PROVE  /\ LossOk(loss)'
         /\ experiments'[loss.candidate].git_commit_hash = CommitOf(loss)
         /\ TasksOf(loss.candidate)' = TasksOf(loss.candidate)
         /\ TasksOf(loss.baseline)' = TasksOf(loss.baseline)
         /\ should_promote(loss)' <=> should_promote(loss)
<1>1. KeepsRun(loss.candidate) /\ KeepsRun(loss.baseline)
  BY DEF LossOk, Keeps
<1>2. /\ TasksOf(loss.candidate)' = TasksOf(loss.candidate)
      /\ TasksOf(loss.baseline)' = TasksOf(loss.baseline)
  BY <1>1 DEF KeepsRun, TasksOf
<1>3. should_promote(loss)' <=> should_promote(loss)
  BY <1>2 DEF should_promote, Report
<1>4. LossOk(loss)'
  BY <1>1, <1>2 DEF LossOk, KeepsRun
<1>5. QED
  BY <1>1, <1>2, <1>3, <1>4 DEF KeepsRun, CommitOf

LEMMA LoopKept ==
  ASSUME LoopInv, Keeps, AncKeeps, UNCHANGED <<harnessVars, loopVars>>
  PROVE  LoopInv'
<1>1. UNCHANGED <<held, grad, current, applied, stepped>>
  BY DEF harnessVars, loopVars
<1>2. \A loss \in held : LossOk(loss)'
  BY LossKept DEF LoopInv
<1>3. QED
  BY <1>1, <1>2 DEF LoopInv, AncKeeps, NoLoss

LEMMA RepoSame ==
  ASSUME RepoInv, UNCHANGED repoVars
  PROVE  RepoInv' /\ AncKeeps
BY DEF RepoInv, repoVars, AncKeeps, Numbered

\* A commit is made on top of another one.
LEMMA RepoAdds ==
  ASSUME RepoInv, NEW c, c = Fresh(anc), NEW p \in DOMAIN anc,
         anc' = Add(anc, c, anc[p] \cup {c}), head' \in {head, c}
  PROVE  /\ RepoInv' /\ AncKeeps
         /\ c \notin DOMAIN anc /\ c \in DOMAIN anc' /\ anc'[c] = anc[p] \cup {c}
<1>1. c \in Nat \ {0} /\ c \notin DOMAIN anc /\ DOMAIN anc = 1..c - 1
  BY FreshIs DEF RepoInv
<1>2. /\ DOMAIN anc' = DOMAIN anc \cup {c}
      /\ anc'[c] = anc[p] \cup {c}
      /\ \A d \in DOMAIN anc : anc'[d] = anc[d]
  BY <1>1 DEF Add
<1>3. Numbered(anc)'
  <2>1. Numbered(Add(anc, c, anc[p] \cup {c}))
    BY AddNumbered DEF RepoInv
  <2>2. QED
    BY <2>1 DEF Numbered
<1>4. anc'[c] \subseteq 1..c
  <2>1. anc[p] \subseteq 1..p /\ p \in 1..c - 1
    BY <1>1 DEF RepoInv
  <2>2. 1..p \subseteq 1..c /\ c \in 1..c
    BY <1>1, <2>1
  <2>3. QED
    BY <1>2, <2>1, <2>2
<1>5. QED
  BY <1>1, <1>2, <1>3, <1>4 DEF RepoInv, AncKeeps

-----------------------------------------------------------------------------
(* What a step leaves of the session.                                      *)

\* Between two epochs there is nothing to say of one.
LEMMA OutOfEpoch ==
  ASSUME pc' \in {"idle", "epoch", "diagnose"}
  PROVE  BaselineInv' /\ CandidateInv' /\ PendingInv' /\ UnjudgedInv' /\ WindowInv'
BY DEF BaselineInv, CandidateInv, PendingInv, UnjudgedInv, WindowInv, InEpoch

LEMMA StopIs ==
  ASSUME Stop
  PROVE  /\ EpochType' /\ BaselineInv' /\ CandidateInv' /\ PendingInv' /\ UnjudgedInv' /\ WindowInv'
         /\ {left', skips'} \subseteq Nat /\ pc' = "idle"
<1>1. pc' = "idle" /\ left' = 0 /\ skips' = 0
  BY DEF Stop
<1>2. EpochType'
  BY <1>1 DEF Stop, ForgetEpoch, EpochType
<1>3. QED
  BY <1>1, <1>2, OutOfEpoch

LEMMA EndEpochIs ==
  ASSUME CountersInv, NEW skipped \in BOOLEAN, EndEpoch(skipped)
  PROVE  /\ EpochType' /\ BaselineInv' /\ CandidateInv' /\ PendingInv' /\ UnjudgedInv' /\ WindowInv'
         /\ {left', skips'} \subseteq Nat /\ pc' \in {"idle", "epoch"}
         /\ pc' = "epoch" => left' > 0
<1>1. CASE Stop
  BY <1>1, StopIs
<1>2. CASE ~Stop
  <2>1. /\ pc' = "epoch" /\ left' = left /\ left # 0 /\ ForgetEpoch
        /\ skips' = IF skipped THEN skips + 1 ELSE 0
    BY <1>2 DEF EndEpoch
  <2>2. EpochType'
    BY <2>1 DEF ForgetEpoch, EpochType
  <2>3. {left', skips'} \subseteq Nat /\ left' > 0
    BY <2>1 DEF CountersInv
  <2>4. QED
    BY <2>1, <2>2, <2>3, OutOfEpoch
<1>3. QED
  BY <1>1, <1>2

\* The epoch stays where it is.
LEMMA EpochSame ==
  ASSUME EpochType, BaselineInv, CandidateInv, PendingInv, AncKeeps,
         UNCHANGED <<pc, epochVars, experiments, index, pending>>
  PROVE  EpochType' /\ BaselineInv' /\ CandidateInv' /\ PendingInv'
<1> USE DEF epochVars
<1>1. EpochType'
  BY DEF EpochType, AncKeeps
<1>2. BaselineInv'
  BY DEF BaselineInv, AncKeeps, Settled
<1>3. CandidateInv'
  BY DEF CandidateInv, BaselineInv, AncKeeps, InEpoch
<1>4. PendingInv'
  BY DEF PendingInv
<1>5. QED
  BY <1>1, <1>2, <1>3, <1>4

\* The epoch goes on, with the baseline it has.
LEMMA BaselineKept ==
  ASSUME BaselineInv, Keeps, AncKeeps, UNCHANGED <<baseCommit, baseline, panel>>,
         pc \in InEpoch \ {"append_baseline", "certify"},
         pc' \in InEpoch \ {"append_baseline", "certify"},
         experiments'[baseline].kind = experiments[baseline].kind,
         \A i \in DOMAIN index : i \in DOMAIN index' /\ index'[i] = index[i]
  PROVE  BaselineInv'
<1>1. KeepsRun(baseline) /\ baseCommit \in DOMAIN anc'
  BY DEF BaselineInv, Keeps, AncKeeps
<1>2. \E i \in DOMAIN index' : index'[i].experiment_id = baseline'
  BY DEF BaselineInv
<1>3. QED
  BY <1>1, <1>2 DEF BaselineInv, KeepsRun

LEMMA CandidateKept ==
  ASSUME CandidateInv, BaselineInv, AncKeeps, UNCHANGED <<baseCommit, candidate, index>>,
         pc \in {"measure", "append_failed", "window", "append_verdict"}
  PROVE  CandidateInv'
BY DEF CandidateInv, BaselineInv, AncKeeps, InEpoch

\* Rows tell of records, and what a new record is called no row says.
LEMMA RowsKnown ==
  ASSUME IndexInv, NEW i \in DOMAIN index
  PROVE  index[i].experiment_id \in DOMAIN experiments /\ index[i] \in Row
BY ElementOfSeq, LenProperties DEF IndexInv

LEMMA IndexAdds ==
  ASSUME IndexInv, index' = index,
         DOMAIN experiments \subseteq DOMAIN experiments',
         \A id \in DOMAIN experiments : experiments'[id] = experiments[id]
  PROVE  IndexInv'
BY RowsKnown, IndexSame

\* record_finalized_run, its second half: the row is that of the record, and the only one.
LEMMA IndexAppends ==
  ASSUME StoreInv, IndexInv, CandidateInv, PendingInv, AppendRow,
         pc \in {"append_baseline", "append_failed", "append_verdict"}
  PROVE  /\ IndexInv'
         /\ \A i \in DOMAIN index : i \in DOMAIN index' /\ index'[i] = index[i]
         /\ pc = "append_baseline" => \E i \in DOMAIN index' : index'[i].experiment_id = baseline
<1>1. PICK id \in DOMAIN experiments :
        /\ pending = <<RowOf(id, experiments[id])>>
        /\ experiments[id].kind # "none"
        /\ \A i \in DOMAIN index : index[i].experiment_id # id
        /\ pc = "append_baseline" => id = baseline /\ experiments[id].parent = None
        /\ pc # "append_baseline" => experiments[id].git_commit_hash = candidate
  BY DEF PendingInv
<1> DEFINE row == RowOf(id, experiments[id])
           n == Len(index)
<1>2. id \in Nat /\ experiments[id] \in Experiment
  <2>1. Numbered(experiments)
    BY DEF StoreInv
  <2>2. id \in 1..Fresh(experiments) - 1
    BY <2>1, FreshIs
  <2>3. QED
    BY <2>2 DEF StoreInv, RunOk
<1>3. /\ row \in Row /\ row.experiment_id = id
      /\ row.git_commit_hash = experiments[id].git_commit_hash /\ row.parent = experiments[id].parent
  BY <1>1, <1>2, RowIs
<1>4. index' = Append(index, row) /\ experiments' = experiments /\ index \in Seq(Row)
  BY <1>1 DEF AppendRow, IndexInv
<1> HIDE DEF row
<1>5. /\ index' \in Seq(Row) /\ Len(index') = n + 1 /\ index'[n + 1] = row
      /\ \A i \in 1..n : index'[i] = index[i]
  BY <1>3, <1>4, AppendProperties
<1>6. DOMAIN index = 1..n /\ DOMAIN index' = 1..n + 1 /\ n \in Nat
  BY <1>4, <1>5, LenProperties
<1> HIDE DEF n
<1>7. \A i \in DOMAIN index : i \in DOMAIN index' /\ index'[i] = index[i]
  BY <1>5, <1>6
<1>8. \A i \in DOMAIN index' : i \in DOMAIN index \/ i = n + 1
  BY <1>6
<1>9. \A i \in DOMAIN index' :
        /\ index'[i].experiment_id \in DOMAIN experiments'
        /\ index'[i] = RowOf(index'[i].experiment_id, experiments'[index'[i].experiment_id])
  <2>1. ASSUME NEW i \in DOMAIN index
        PROVE  /\ index'[i].experiment_id \in DOMAIN experiments'
               /\ index'[i] = RowOf(index'[i].experiment_id, experiments'[index'[i].experiment_id])
    BY <1>4, <1>7 DEF IndexInv
  <2>2. /\ index'[n + 1].experiment_id \in DOMAIN experiments'
        /\ index'[n + 1] = RowOf(index'[n + 1].experiment_id, experiments'[index'[n + 1].experiment_id])
    BY <1>3, <1>4, <1>5 DEF row
  <2>3. QED
    BY <1>8, <2>1, <2>2
<1>10. OneRowPerCandidate'
  <2>1. ASSUME NEW i \in DOMAIN index
        PROVE  /\ index[i].experiment_id # row.experiment_id
               /\ \/ None \in {index[i].parent, row.parent}
                  \/ index[i].git_commit_hash # row.git_commit_hash
    BY <1>1, <1>3 DEF CandidateInv
  <2>2. \A i, j \in DOMAIN index :
          i # j => /\ index[i].experiment_id # index[j].experiment_id
                   /\ \/ None \in {index[i].parent, index[j].parent}
                      \/ index[i].git_commit_hash # index[j].git_commit_hash
    BY DEF IndexInv, OneRowPerCandidate
  <2>3. ASSUME NEW i \in DOMAIN index', NEW j \in DOMAIN index', i # j
        PROVE  /\ index'[i].experiment_id # index'[j].experiment_id
               /\ \/ None \in {index'[i].parent, index'[j].parent}
                  \/ index'[i].git_commit_hash # index'[j].git_commit_hash
    <3>1. CASE i \in DOMAIN index /\ j \in DOMAIN index
      BY <1>7, <2>2, <2>3, <3>1
    <3>2. CASE i \in DOMAIN index /\ j = n + 1
      BY <1>5, <1>7, <2>1, <3>2
    <3>3. CASE i = n + 1 /\ j \in DOMAIN index
      BY <1>5, <1>7, <2>1, <3>3
    <3>4. QED
      BY <1>8, <2>3, <3>1, <3>2, <3>3
  <2>4. QED
    BY <2>3 DEF OneRowPerCandidate
<1>11. pc = "append_baseline" => \E i \in DOMAIN index' : index'[i].experiment_id = baseline
  BY <1>1, <1>3, <1>5, <1>6
<1>12. QED
  BY <1>5, <1>7, <1>9, <1>10, <1>11 DEF IndexInv

-----------------------------------------------------------------------------
(* The head of an epoch.                                                   *)

\* latest_completed_baseline finds a completed run of the whole panel at the given commit:
\* a promoted run of a reduced panel has another identity.
LEMMA ReusedBaseline ==
  ASSUME StoreInv, IndexInv, NEW id, id # None,
         id = latest_completed_baseline(head, measurement_identity(Tasks))
  PROVE  /\ id \in DOMAIN experiments
         /\ experiments[id].git_commit_hash = head
         /\ ~experiments[id].crashed
         /\ experiments[id].kind = "baseline"
         /\ DOMAIN experiments[id].tasks = Tasks
         /\ \E i \in DOMAIN index : index[i].experiment_id = id
<1> DEFINE ident == measurement_identity(Tasks)
           rows == {i \in DOMAIN index :
                      /\ index[i].kind = "baseline"
                      /\ ~index[i].crashed
                      /\ index[i].git_commit_hash = head
                      /\ index[i].identity = ident}
<1>1. DOMAIN index = 1..Len(index) /\ Len(index) \in Nat
  BY LenProperties DEF IndexInv
<1>2. rows # {} /\ id = index[Max(rows)].experiment_id
  BY DEF latest_completed_baseline
<1>3. Max(rows) \in rows
  <2>1. rows \subseteq 1..Len(index)
    BY <1>1
  <2> HIDE DEF rows
  <2>2. QED
    BY <1>1, <1>2, <2>1, MaxIs
<1>4. PICK i \in DOMAIN index :
        /\ index[i].kind = "baseline" /\ ~index[i].crashed
        /\ index[i].git_commit_hash = head /\ index[i].identity = ident
        /\ id = index[i].experiment_id
  BY <1>2, <1>3
<1>5. id \in DOMAIN experiments /\ index[i] = RowOf(id, experiments[id])
  BY <1>4 DEF IndexInv
<1>6. RunOk(id) /\ id \in Nat
  BY <1>4, <1>5, RowsKnown DEF StoreInv, Row
<1>7. /\ experiments[id].kind = "baseline" /\ ~experiments[id].crashed
      /\ experiments[id].git_commit_hash = head /\ experiments[id].identity = ident
  BY <1>4, <1>5, <1>6, RowIs DEF RunOk
<1>8. DOMAIN experiments[id].tasks = Tasks
  BY <1>6, <1>7 DEF RunOk, measurement_identity
<1>9. QED
  BY <1>4, <1>5, <1>7, <1>8

LEMMA CountersSame ==
  ASSUME CountersInv, UNCHANGED boundVars, UNCHANGED sessionVars, pc' # "epoch"
  PROVE  CountersInv'
BY DEF CountersInv, boundVars, sessionVars

LEMMA EpochsStep ==
  ASSUME IInv, Epochs
  PROVE  IInv'
<1> USE DEF IInv
<1>1. pc' = "epoch" /\ UNCHANGED <<repoVars, storeVars, epochVars, pending, harnessVars, loopVars>>
  BY DEF Epochs
<1>2. RepoInv' /\ AncKeeps
  BY <1>1, RepoSame
<1>3. StoreInv' /\ Keeps /\ IndexInv'
  BY <1>1, <1>2, StoreSame, IndexAdds DEF storeVars
<1>4. CountersInv'
  BY DEF Epochs, CountersInv
<1>5. EpochType'
  BY <1>1, <1>2 DEF EpochType, epochVars, storeVars, AncKeeps
<1>6. LoopInv'
  BY <1>1, <1>2, <1>3, LoopKept
<1>7. QED
  BY <1>1, <1>2, <1>3, <1>4, <1>5, <1>6, OutOfEpoch

LEMMA StartEpochStep ==
  ASSUME IInv, StartEpoch
  PROVE  IInv'
<1> USE DEF IInv
<1>1. pc = "epoch" /\ UNCHANGED <<repoVars, storeVars, boundVars, pending, harnessVars, loopVars>>
  BY DEF StartEpoch
<1>2. RepoInv' /\ AncKeeps
  BY <1>1, RepoSame
<1>3. StoreInv' /\ Keeps /\ IndexInv'
  BY <1>1, <1>2, StoreSame, IndexAdds DEF storeVars
<1>4. LoopInv'
  BY <1>1, <1>2, <1>3, LoopKept
<1>5. CASE Stop
  BY <1>1, <1>2, <1>3, <1>4, <1>5, StopIs DEF CountersInv, boundVars
<1>6. CASE ~Stop
  <2>1. PICK known : known = latest_completed_baseline(head, measurement_identity(Tasks))
    OBVIOUS
  <2>2. /\ pc' = IF known = None THEN "baseline" ELSE "certify"
        /\ baseCommit' = head /\ baseline' = known /\ left' = left - 1
        /\ UNCHANGED <<skips, panel, candidate, attempt>>
    BY <1>6, <2>1 DEF StartEpoch
  <2>3. CountersInv'
    BY <1>1, <2>2 DEF CountersInv, boundVars
  <2>4. head' \in DOMAIN anc' /\ head' = head
    BY <1>1, <1>2 DEF RepoInv, repoVars
  <2>5. CandidateInv' /\ PendingInv' /\ UnjudgedInv' /\ WindowInv'
    BY <2>2 DEF CandidateInv, PendingInv, UnjudgedInv, WindowInv
  <2>6. known # None =>
          /\ known \in DOMAIN experiments
          /\ experiments[known].git_commit_hash = head
          /\ ~experiments[known].crashed
          /\ experiments[known].kind = "baseline"
          /\ DOMAIN experiments[known].tasks = Tasks
          /\ \E i \in DOMAIN index : index[i].experiment_id = known
    BY <2>1, ReusedBaseline
  <2>7. EpochType'
    BY <1>1, <1>2, <2>2, <2>4, <2>6 DEF EpochType, storeVars, AncKeeps, InEpoch
  <2>8. BaselineInv'
    BY <1>1, <2>2, <2>4, <2>6 DEF BaselineInv, storeVars, InEpoch
  <2>9. QED
    BY <1>2, <1>3, <1>4, <2>3, <2>5, <2>7, <2>8
<1>7. QED
  BY <1>5, <1>6

LEMMA IdentityIs ==
  ASSUME CountersInv, NEW tasks \in SUBSET Tasks
  PROVE  measurement_identity(tasks) \in Identity /\ measurement_identity(tasks).panel = tasks
<1>1. (IF Replay THEN regime ELSE 0) \in Nat
  BY DEF CountersInv
<1>2. QED
  BY <1>1 DEF measurement_identity, Identity

LEMMA BaselineRunIs ==
  ASSUME NEW run \in Experiment
  PROVE  LET new == [run EXCEPT !.kind = "baseline"]
         IN /\ new \in Experiment
            /\ new.git_commit_hash = run.git_commit_hash /\ new.identity = run.identity
            /\ new.tasks = run.tasks /\ new.crashed = run.crashed
            /\ new.kind = "baseline" /\ new.parent = run.parent
            /\ new.verdict = run.verdict /\ new.excluded = run.excluded
BY DEF Experiment

LEMMA CommitsAreNumbers == RepoInv => DOMAIN anc \subseteq Nat \ {0}
<1> SUFFICES ASSUME RepoInv PROVE DOMAIN anc \subseteq Nat \ {0}
  OBVIOUS
<1>1. PICK n \in Nat : DOMAIN anc = 1..n
  BY DEF RepoInv, Numbered
<1>2. QED
  BY <1>1

LEMMA RunsAreNumbers == StoreInv => DOMAIN experiments \subseteq Nat \ {0}
<1> SUFFICES ASSUME StoreInv PROVE DOMAIN experiments \subseteq Nat \ {0}
  OBVIOUS
<1>1. PICK n \in Nat : DOMAIN experiments = 1..n
  BY DEF StoreInv, Numbered
<1>2. QED
  BY <1>1

LEMMA MeasureBaselineStep ==
  ASSUME IInv, MeasureBaseline
  PROVE  IInv'
<1> USE DEF IInv
<1>1. /\ pc = "baseline" /\ pc' = "append_baseline"
      /\ UNCHANGED <<repoVars, boundVars, sessionVars, baseCommit, panel, candidate, attempt,
                     harnessVars, loopVars>>
  BY DEF MeasureBaseline
<1>2. PICK tasks, id :
        /\ tasks \in [Tasks -> Rollouts]
        /\ id = Fresh(experiments)
        /\ SaveFinalized(id, [RunOf(baseCommit, measurement_identity(Tasks), tasks, FALSE)
                                EXCEPT !.kind = "baseline"])
        /\ baseline' = id
  BY DEF MeasureBaseline
<1>3. PICK run : run = [RunOf(baseCommit, measurement_identity(Tasks), tasks, FALSE)
                          EXCEPT !.kind = "baseline"]
  OBVIOUS
<1>4. baseCommit \in DOMAIN anc /\ baseCommit \in Nat
  BY <1>1, CommitsAreNumbers DEF BaselineInv
<1>5. /\ run \in Experiment /\ run.git_commit_hash = baseCommit
      /\ run.identity = measurement_identity(Tasks) /\ run.tasks = tasks /\ ~run.crashed
      /\ run.kind = "baseline" /\ run.parent = None /\ run.verdict = "none" /\ run.excluded = {}
  <2>1. measurement_identity(Tasks) \in Identity
    BY IdentityIs
  <2>2. PICK first : first = RunOf(baseCommit, measurement_identity(Tasks), tasks, FALSE)
    OBVIOUS
  <2>3. /\ first \in Experiment /\ first.git_commit_hash = baseCommit
        /\ first.identity = measurement_identity(Tasks) /\ first.tasks = tasks /\ ~first.crashed
        /\ first.parent = None /\ first.verdict = "none" /\ first.excluded = {}
    <3>1. RunOf(baseCommit, measurement_identity(Tasks), tasks, FALSE) \in Experiment
      BY <1>2, <1>4, <2>1, RunOfIs, Zenon
    <3>2. QED
      BY <2>2, <3>1 DEF RunOf
  <2>4. QED
    BY <1>3, <2>2, <2>3, BaselineRunIs
<1>6. RepoInv' /\ AncKeeps
  BY <1>1, RepoSame
<1>7. /\ experiments' = Add(experiments, id, run) /\ pending' = <<RowOf(id, run)>> /\ index' = index
  BY <1>2, <1>3 DEF SaveFinalized
<1>8. /\ StoreInv' /\ Keeps
      /\ DOMAIN experiments' = DOMAIN experiments \cup {id}
      /\ id \notin DOMAIN experiments /\ id \in Nat \ {0}
      /\ experiments'[id] = run
      /\ \A old \in DOMAIN experiments : experiments'[old] = experiments[old]
  <2>1. run.git_commit_hash \in DOMAIN anc'
    BY <1>4, <1>5, <1>6 DEF AncKeeps
  <2>2. DOMAIN run.tasks = run.identity.panel
    BY <1>2, <1>5, IdentityIs
  <2>3. QED
    BY <1>2, <1>5, <1>6, <1>7, <2>1, <2>2, StoreAdds
<1>9. IndexInv'
  BY <1>7, <1>8, IndexAdds
<1>10. CountersInv' /\ LoopInv'
  BY <1>1, <1>6, <1>8, CountersSame, LoopKept
<1>11. EpochType'
  BY <1>1, <1>2, <1>6, <1>8 DEF EpochType, AncKeeps, InEpoch
<1>12. BaselineInv'
  BY <1>1, <1>2, <1>4, <1>5, <1>6, <1>8 DEF BaselineInv, AncKeeps, InEpoch
<1>13. CandidateInv' /\ UnjudgedInv' /\ WindowInv'
  BY <1>1 DEF CandidateInv, UnjudgedInv, WindowInv
<1>14. PendingInv'
  <2>1. \A i \in DOMAIN index' : index'[i].experiment_id # id
    BY <1>7, <1>8, RowsKnown
  <2>2. QED
    BY <1>1, <1>2, <1>5, <1>7, <1>8, <2>1 DEF PendingInv
<1>15. QED
  BY <1>6, <1>8, <1>9, <1>10, <1>11, <1>12, <1>13, <1>14

LEMMA AppendBaselineStep ==
  ASSUME IInv, AppendBaseline
  PROVE  IInv'
<1> USE DEF IInv
<1>1. /\ pc = "append_baseline" /\ pc' = "certify" /\ AppendRow
      /\ UNCHANGED <<repoVars, boundVars, sessionVars, epochVars, harnessVars, loopVars>>
  BY DEF AppendBaseline
<1>2. RepoInv' /\ AncKeeps
  BY <1>1, RepoSame
<1>3. experiments' = experiments
  BY <1>1 DEF AppendRow
<1>4. StoreInv' /\ Keeps
  BY <1>2, <1>3, StoreSame
<1>5. IndexInv' /\ \E i \in DOMAIN index' : index'[i].experiment_id = baseline
  BY <1>1, IndexAppends
<1>6. CountersInv' /\ LoopInv'
  BY <1>1, <1>2, <1>4, CountersSame, LoopKept
<1>7. EpochType'
  BY <1>1, <1>2, <1>3 DEF EpochType, AncKeeps, InEpoch, epochVars
<1>8. BaselineInv'
  BY <1>1, <1>2, <1>3, <1>5 DEF BaselineInv, AncKeeps, InEpoch, epochVars
<1>9. CandidateInv' /\ PendingInv' /\ UnjudgedInv' /\ WindowInv'
  BY <1>1 DEF CandidateInv, PendingInv, UnjudgedInv, WindowInv
<1>10. QED
  BY <1>2, <1>4, <1>5, <1>6, <1>7, <1>8, <1>9

\* A certificate is written once: what a promotion was judged on stays what it was.
LEMMA CertifyStep ==
  ASSUME IInv, Certify
  PROVE  IInv'
<1> USE DEF IInv
<1> DEFINE run == experiments[baseline]
<1>1. pc = "certify" /\ UNCHANGED <<repoVars, index, boundVars, pending, harnessVars, loopVars>>
  BY DEF Certify
<1>2. PICK excluded \in IF ~Replay THEN {{}} ELSE IF run.certified THEN {run.excluded}
                        ELSE SUBSET DOMAIN run.tasks :
        /\ experiments' = IF Replay THEN [experiments EXCEPT ![baseline] = Certified(run, excluded)]
                          ELSE experiments
        /\ \/ /\ DOMAIN run.tasks \ excluded # {}
              /\ panel' = DOMAIN run.tasks \ excluded
              /\ pc' = "propose"
              /\ UNCHANGED <<sessionVars, baseCommit, baseline, candidate, attempt>>
           \/ DOMAIN run.tasks \ excluded = {} /\ Stop
  BY DEF Certify
<1>3. RepoInv' /\ AncKeeps /\ anc' = anc
  BY <1>1, RepoSame DEF repoVars
<1>4. /\ baseline \in DOMAIN experiments /\ run \in Experiment /\ DOMAIN run.tasks = Tasks
      /\ baseCommit \in DOMAIN anc
      /\ run.git_commit_hash = baseCommit /\ ~run.crashed /\ run.kind = "baseline"
      /\ \E i \in DOMAIN index : index[i].experiment_id = baseline
      /\ RunOk(baseline) /\ PromotionOk(baseline)
  BY <1>1 DEF BaselineInv, InEpoch, StoreInv, RunOk
<1>5. excluded \in SUBSET Tasks
  BY <1>2, <1>4 DEF Experiment
<1>6. PICK new : new = experiments'[baseline]
  OBVIOUS
<1>7. /\ DOMAIN experiments' = DOMAIN experiments
      /\ \A id \in DOMAIN experiments \ {baseline} : experiments'[id] = experiments[id]
      /\ new = IF Replay THEN Certified(run, excluded) ELSE run
  BY <1>2, <1>4, <1>6
<1>8. /\ new \in Experiment
      /\ new.git_commit_hash = run.git_commit_hash /\ new.identity = run.identity
      /\ new.tasks = run.tasks /\ new.crashed = run.crashed
      /\ new.kind = run.kind /\ new.parent = run.parent /\ new.baseline = run.baseline
      /\ new.verdict = run.verdict
      /\ Settled(new) /\ new.excluded = excluded
      /\ Settled(run) => new.excluded = run.excluded
  <2>1. CASE Replay
    <3>1. new = Certified(run, excluded) /\ (run.certified => excluded = run.excluded)
      BY <1>2, <1>7, <2>1
    <3>2. QED
      BY <1>4, <1>5, <2>1, <3>1, CertifiedIs DEF Settled
  <2>2. CASE ~Replay
    <3>1. new = run /\ excluded = {} /\ run.excluded = {}
      BY <1>2, <1>4, <1>7, <2>2 DEF RunOk
    <3>2. QED
      BY <1>4, <2>2, <3>1 DEF Settled
  <2>3. QED
    BY <2>1, <2>2
<1>9. KeepsRun(baseline)
  BY <1>4, <1>6, <1>7, <1>8 DEF KeepsRun
<1>10. StoreInv' /\ Keeps
  <2>1. PICK id : id = baseline
    OBVIOUS
  <2>2. Keeps => PromotionOk(id)'
    BY <1>3, <1>4, <1>6, <1>8, <2>1, PromotionKept
  <2>3. ~Replay => new.excluded = {}
    BY <1>2, <1>8
  <2>4. QED
    BY <1>3, <1>4, <1>6, <1>7, <1>8, <1>9, <2>1, <2>2, <2>3, StoreUpdates
<1>11. IndexInv'
  <2>1. ASSUME NEW id \in DOMAIN experiments
        PROVE  RowOf(id, experiments'[id]) = RowOf(id, experiments[id])
    BY <1>6, <1>7, <1>8 DEF RowOf
  <2>2. QED
    BY <1>1, <1>7, <2>1, IndexSame, RowsKnown
<1>12. LoopInv'
  BY <1>1, <1>3, <1>10, LoopKept
<1>13. CASE Stop
  BY <1>1, <1>3, <1>10, <1>11, <1>12, <1>13, StopIs DEF CountersInv, boundVars
<1>14. CASE ~Stop
  <2>1. /\ Tasks \ excluded # {} /\ panel' = Tasks \ excluded /\ pc' = "propose"
        /\ UNCHANGED <<sessionVars, baseCommit, baseline, candidate, attempt>>
    BY <1>2, <1>4, <1>14
  <2>2. CountersInv'
    BY <1>1, <2>1, CountersSame
  <2>3. EpochType'
    BY <1>3, <1>7, <2>1 DEF EpochType, InEpoch
  <2>4. BaselineInv'
    BY <1>1, <1>3, <1>4, <1>6, <1>7, <1>8, <2>1 DEF BaselineInv, InEpoch
  <2>5. CandidateInv' /\ PendingInv' /\ UnjudgedInv' /\ WindowInv'
    BY <2>1 DEF CandidateInv, PendingInv, UnjudgedInv, WindowInv
  <2>6. QED
    BY <1>3, <1>10, <1>11, <1>12, <2>2, <2>3, <2>4, <2>5
<1>15. QED
  BY <1>13, <1>14

-----------------------------------------------------------------------------
(* The steps that end an epoch, and those that do not concern it.          *)

LEMMA LeaveStep ==
  ASSUME IInv, UNCHANGED <<repoVars, storeVars>>, {regime', drifts', kills', budget'} \subseteq Nat,
         Stop \/ \E skipped \in BOOLEAN : EndEpoch(skipped),
         Keeps /\ AncKeeps => LoopInv'
  PROVE  IInv'
<1> USE DEF IInv
<1>1. RepoInv' /\ AncKeeps
  BY RepoSame
<1>2. StoreInv' /\ Keeps /\ IndexInv'
  BY <1>1, StoreSame, IndexAdds DEF storeVars
<1>3. /\ EpochType' /\ BaselineInv' /\ CandidateInv' /\ PendingInv' /\ UnjudgedInv' /\ WindowInv'
      /\ {left', skips'} \subseteq Nat /\ (pc' = "epoch" => left' > 0)
  <2>1. CASE Stop
    BY <2>1, StopIs
  <2>2. ASSUME NEW skipped \in BOOLEAN, EndEpoch(skipped)
        PROVE  /\ EpochType' /\ BaselineInv' /\ CandidateInv' /\ PendingInv' /\ UnjudgedInv'
               /\ WindowInv' /\ {left', skips'} \subseteq Nat /\ (pc' = "epoch" => left' > 0)
    BY <2>2, EndEpochIs
  <2>3. QED
    BY <2>1, <2>2
<1>4. CountersInv'
  BY <1>3 DEF CountersInv
<1>5. QED
  BY <1>1, <1>2, <1>3, <1>4

LEMMA NothingProposed ==
  ASSUME IInv, ProposeNothing \/ Raise
  PROVE  IInv'
<1>1. UNCHANGED <<repoVars, storeVars, boundVars, harnessVars, loopVars>>
  BY DEF ProposeNothing, Raise
<1>2. Stop \/ \E skipped \in BOOLEAN : EndEpoch(skipped)
  BY DEF ProposeNothing, Raise
<1>3. {regime', drifts', kills', budget'} \subseteq Nat
  BY <1>1 DEF IInv, CountersInv, boundVars
<1>4. Keeps /\ AncKeeps => LoopInv'
  BY <1>1, LoopKept DEF IInv
<1>5. QED
  BY <1>1, <1>2, <1>3, <1>4, LeaveStep

\* The loop gives up on the generator, or _conclude refuses what it finds.
LEMMA WindowCloses ==
  ASSUME IInv, Abandon \/ ConcludeRefused
  PROVE  IInv'
<1>1. /\ UNCHANGED <<repoVars, storeVars, boundVars, harnessVars, held>>
      /\ Stop /\ current' = NoLoss /\ stepped' = FALSE
  BY DEF Abandon, ConcludeRefused
<1>2. {regime', drifts', kills', budget'} \subseteq Nat
  BY <1>1 DEF IInv, CountersInv, boundVars
<1>3. ASSUME Keeps, AncKeeps PROVE LoopInv'
  <2>1. \A loss \in held : LossOk(loss)'
    BY <1>3, LossKept DEF IInv, LoopInv
  <2>2. QED
    BY <1>1, <1>3, <2>1 DEF IInv, LoopInv, AncKeeps, harnessVars, NoLoss
<1>4. QED
  BY <1>1, <1>2, <1>3, LeaveStep

LEMMA DiagnoseStep ==
  ASSUME IInv, Diagnose
  PROVE  IInv'
<1>1. /\ UNCHANGED <<repoVars, storeVars, boundVars, held>>
      /\ Stop \/ \E skipped \in BOOLEAN : EndEpoch(skipped)
      /\ grad' = NoLoss /\ applied' = None /\ current' = NoLoss /\ stepped' = FALSE
  BY DEF Diagnose
<1>2. {regime', drifts', kills', budget'} \subseteq Nat
  BY <1>1 DEF IInv, CountersInv, boundVars
<1>3. ASSUME Keeps PROVE LoopInv'
  <2>1. \A loss \in held : LossOk(loss)'
    BY <1>3, LossKept DEF IInv, LoopInv
  <2>2. QED
    BY <1>1, <2>1 DEF LoopInv, NoLoss
<1>4. QED
  BY <1>1, <1>2, <1>3, LeaveStep

LEMMA KillStep ==
  ASSUME IInv, Kill
  PROVE  IInv'
<1>1. /\ UNCHANGED <<repoVars, storeVars, regime, drifts, budget>> /\ kills' = kills + 1 /\ Stop
      /\ grad' = NoLoss /\ applied' = None /\ held' = {} /\ current' = NoLoss /\ stepped' = FALSE
  BY DEF Kill
<1>2. {regime', drifts', kills', budget'} \subseteq Nat
  BY <1>1 DEF IInv, CountersInv
<1>3. LoopInv'
  BY <1>1 DEF LoopInv, NoLoss
<1>4. QED
  BY <1>1, <1>2, <1>3, LeaveStep

LEMMA BumpEpochStep ==
  ASSUME IInv, BumpEpoch
  PROVE  IInv'
<1> USE DEF IInv
<1>1. /\ UNCHANGED <<repoVars, storeVars, drifts, kills, budget, pc, sessionVars, epochVars,
                     pending, harnessVars, loopVars>>
      /\ regime' = regime + 1
  BY DEF BumpEpoch
<1>2. RepoInv' /\ AncKeeps
  BY <1>1, RepoSame
<1>3. StoreInv' /\ Keeps /\ IndexInv'
  BY <1>1, <1>2, StoreSame, IndexAdds DEF storeVars
<1>4. CountersInv'
  BY <1>1 DEF CountersInv, sessionVars
<1>5. EpochType' /\ BaselineInv' /\ CandidateInv' /\ PendingInv'
  BY <1>1, <1>2, EpochSame DEF storeVars
<1>6. LoopInv'
  BY <1>1, <1>2, <1>3, LoopKept
<1>7. UnjudgedInv' /\ WindowInv'
  BY <1>1 DEF UnjudgedInv, WindowInv, repoVars, storeVars, epochVars, loopVars, harnessVars, CommitOf,
              TasksOf, should_promote, Report
<1>8. QED
  BY <1>2, <1>3, <1>4, <1>5, <1>6, <1>7

LEMMA DriftStep ==
  ASSUME IInv, Drift
  PROVE  IInv'
<1> USE DEF IInv
<1>1. /\ UNCHANGED <<storeVars, regime, kills, budget, pc, sessionVars, epochVars, pending,
                     harnessVars, loopVars>>
      /\ drifts' = drifts + 1
  BY DEF Drift
<1>2. RepoInv' /\ AncKeeps /\ head' \notin DOMAIN anc
  <2>1. PICK c : c = Fresh(anc)
    OBVIOUS
  <2>2. head' = c /\ anc' = Add(anc, c, anc[head] \cup {c}) /\ head \in DOMAIN anc
    BY <2>1 DEF Drift, RepoInv
  <2>3. QED
    BY <2>1, <2>2, RepoAdds
<1>3. StoreInv' /\ Keeps /\ IndexInv'
  BY <1>1, <1>2, StoreSame, IndexAdds DEF storeVars
<1>4. CountersInv'
  BY <1>1 DEF CountersInv, sessionVars
<1>5. EpochType' /\ BaselineInv' /\ CandidateInv' /\ PendingInv'
  BY <1>1, <1>2, EpochSame DEF storeVars
<1>6. LoopInv'
  BY <1>1, <1>2, <1>3, LoopKept
<1>7. pc \in {"measure", "append_failed", "window"} => head' # candidate
  BY <1>2 DEF CandidateInv
<1>8. UnjudgedInv' /\ WindowInv'
  BY <1>1, <1>7 DEF UnjudgedInv, WindowInv, storeVars, epochVars, loopVars, harnessVars, CommitOf,
              TasksOf, should_promote, Report
<1>9. QED
  BY <1>2, <1>3, <1>4, <1>5, <1>6, <1>8

-----------------------------------------------------------------------------
(* The loop body.                                                          *)

LEMMA BackwardStep ==
  ASSUME IInv, NEW loss \in held, backward(loss)
  PROVE  IInv'
<1> USE DEF IInv
<1>1. /\ UNCHANGED <<repoVars, storeVars, boundVars, pc, sessionVars, epochVars, pending, applied,
                     loopVars>>
      /\ grad' = loss
  BY DEF backward
<1>2. RepoInv' /\ AncKeeps
  BY <1>1, RepoSame
<1>3. StoreInv' /\ Keeps /\ IndexInv'
  BY <1>1, <1>2, StoreSame, IndexAdds DEF storeVars
<1>4. CountersInv'
  BY <1>1 DEF CountersInv, sessionVars, boundVars
<1>5. EpochType' /\ BaselineInv' /\ CandidateInv' /\ PendingInv'
  BY <1>1, <1>2, EpochSame DEF storeVars
<1>6. LoopInv'
  <2>1. \A other \in held : LossOk(other)'
    BY <1>3, LossKept DEF LoopInv
  <2>2. QED
    BY <1>1, <1>2, <2>1 DEF LoopInv, loopVars, AncKeeps, NoLoss
<1>7. UnjudgedInv' /\ WindowInv'
  BY <1>1 DEF UnjudgedInv, WindowInv, repoVars, storeVars, epochVars, loopVars, CommitOf,
              TasksOf, should_promote, Report
<1>8. QED
  BY <1>2, <1>3, <1>4, <1>5, <1>6, <1>7

\* Optimizer.step leaves HEAD alone or moves it to the candidate of a Loss that selects it.
LEMMA StepIs ==
  ASSUME IInv, step
  PROVE  /\ grad \in held
         /\ {head', applied'} \subseteq DOMAIN anc
         /\ \A c \in {head', applied'} : c = head \/ (should_promote(grad) /\ c = CommitOf(grad))
         /\ head' # head => head' = CommitOf(grad) /\ should_promote(grad) /\ head \in anc[head']
<1> DEFINE target == IF should_promote(grad) THEN CommitOf(grad) ELSE head
<1>1. /\ grad # NoLoss /\ applied' = target
      /\ head' = IF head \in anc[target] THEN target ELSE head
  BY DEF step
<1>2. grad \in held /\ LossOk(grad)
  BY <1>1 DEF IInv, LoopInv
<1>3. CommitOf(grad) \in DOMAIN anc /\ head \in DOMAIN anc
  BY <1>2 DEF IInv, LossOk, StoreInv, RunOk, CommitOf, RepoInv
<1>4. QED
  BY <1>1, <1>2, <1>3

LEMMA StepStep ==
  ASSUME IInv, LoopRuns, step
  PROVE  IInv'
<1>1. /\ grad \in held
      /\ {head', applied'} \subseteq DOMAIN anc
      /\ \A c \in {head', applied'} : c = head \/ (should_promote(grad) /\ c = CommitOf(grad))
  BY StepIs
<1> USE DEF IInv
<1>2. /\ UNCHANGED <<anc, storeVars, boundVars, pc, sessionVars, epochVars, pending, grad, held,
                     current>>
      /\ stepped' = (pc = "window") /\ pc \in {"window", "idle"}
  BY DEF step, LoopRuns
<1>3. RepoInv' /\ AncKeeps
  BY <1>1, <1>2 DEF RepoInv, Numbered, AncKeeps
<1>4. StoreInv' /\ Keeps /\ IndexInv'
  BY <1>2, <1>3, StoreSame, IndexAdds DEF storeVars
<1>5. CountersInv'
  BY <1>2 DEF CountersInv, sessionVars, boundVars
<1>6. EpochType' /\ BaselineInv' /\ CandidateInv' /\ PendingInv'
  BY <1>2, <1>3, EpochSame DEF storeVars
<1>7. LoopInv'
  <2>1. \A other \in held : LossOk(other)'
    BY <1>4, LossKept DEF LoopInv
  <2>2. stepped' \in BOOLEAN
    BY <1>2
  <2>3. QED
    BY <1>1, <1>2, <2>1, <2>2 DEF LoopInv, NoLoss
<1>8. UnjudgedInv'
  BY <1>2 DEF UnjudgedInv
<1>9. ASSUME pc = "window" PROVE WindowInv'
  <2>1. candidate \in {head', applied'} => should_promote(current)
    BY <1>1, <1>9 DEF WindowInv
  <2>2. stepped' <=> TRUE
    BY <1>2, <1>9
  <2>3. QED
    BY <1>2, <1>9, <2>1, <2>2
    DEF WindowInv, storeVars, epochVars, CommitOf, TasksOf, should_promote, Report
<1>10. QED
  BY <1>2, <1>3, <1>4, <1>5, <1>6, <1>7, <1>8, <1>9 DEF WindowInv

-----------------------------------------------------------------------------
(* What the criterion promises a session.                                  *)

\* How the sign of a view's loss comes about, as far as a session needs it.
LEMMA SignOf ==
  ASSUME NEW b, NEW c, NEW S, NEW I, IsFiniteSet(S), IsFiniteSet(solved_task_ids(b)),
         NEW r, r = Comparison(b, c, S, I)
  PROVE  /\ (solved_task_ids(b) \ S) \ I # {} => ~Selects(r)
         /\ (solved_task_ids(b) \ S) \ I = {} =>
              /\ Cardinality(S) > Cardinality(solved_task_ids(b)) => Selects(r)
              /\ Cardinality(S) < Cardinality(solved_task_ids(b)) => ~Selects(r)
<1> DEFINE B == solved_task_ids(b)
<1>1. Cardinality(S) \in Nat /\ Cardinality(B) \in Nat /\ Cardinality(Tasks) \in Nat
  BY FS_CardinalityType, TasksAssumption
<1>2. /\ r.baseline_solved = B /\ r.candidate_solved = S
      /\ r.regressions = (B \ S) \ I
  BY DEF Comparison
<1> HIDE DEF B
<1>3. CASE (B \ S) \ I # {}
  BY <1>1, <1>2, <1>3 DEF Selects, loss_value, Infinity, LossUnit, B
<1>4. CASE (B \ S) \ I = {}
  BY <1>1, <1>2, <1>4 DEF Selects, loss_value, LossUnit, B
<1>5. QED
  BY <1>3, <1>4 DEF B

LEMMA ProperSubset ==
  ASSUME NEW S, NEW T, IsFiniteSet(T), S \subseteq T, S # T
  PROVE  Cardinality(S) < Cardinality(T)
BY FS_Subset, FS_CardinalityType

\* A Loss that selects leaves nothing of the baseline unsolved: what hangs on tasks whose
\* grade is not trusted is unmeasurable.
LEMMA SelectedCovers ==
  ASSUME NEW b, NEW c, DOMAIN b \subseteq Tasks, DOMAIN c \subseteq Tasks,
         ~unmeasurable(b, c), Selects(measured_report(b, c))
  PROVE  \A t \in DOMAIN b \cap DOMAIN c : b[t].mode = "solved" => c[t].mode = "solved"
<1> DEFINE U == verdict_sensitive_task_ids(c)
           C == solved_task_ids(c)
           j == judged(b, c)
           B == solved_task_ids(j)
<1>1. B = {t \in DOMAIN b \cap DOMAIN c : b[t].mode = "solved"}
  BY DEF solved_task_ids, judged, restrict_to_panel
<1>2. /\ IsFiniteSet(B) /\ IsFiniteSet(C) /\ IsFiniteSet(C \cup U)
  <2>1. B \subseteq Tasks /\ C \subseteq Tasks /\ C \cup U \subseteq Tasks
    BY <1>1 DEF solved_task_ids, verdict_sensitive_task_ids
  <2>2. QED
    BY <2>1, FS_Subset, TasksAssumption
<1>3. Selects(Comparison(j, c, C, U))
  BY DEF measured_report
<1>4. U = {} \/ (Selects(Comparison(j, c, C, {})) <=> Selects(Comparison(j, c, C \cup U, {})))
  <2>1. /\ Selects(Comparison(j, c, C, {})) \in BOOLEAN
        /\ Selects(Comparison(j, c, C \cup U, {})) \in BOOLEAN
    BY DEF Selects
  <2>2. QED
    BY <2>1 DEF unmeasurable, pessimistic_report, optimistic_report
<1> HIDE DEF U, C, j
<1>5. /\ (B \ C) \ U # {} => ~Selects(Comparison(j, c, C, U))
      /\ (B \ C) \ U = {} => (Cardinality(C) < Cardinality(B) => ~Selects(Comparison(j, c, C, U)))
  BY <1>2, SignOf
<1>6. (B \ C) \ {} # {} => ~Selects(Comparison(j, c, C, {}))
  BY <1>2, SignOf
<1>7. (B \ (C \cup U)) \ {} = {} =>
        (Cardinality(C \cup U) > Cardinality(B) => Selects(Comparison(j, c, C \cup U, {})))
  BY <1>2, SignOf
<1> HIDE DEF B
<1>8. B \subseteq C
  <2> SUFFICES ASSUME ~(B \subseteq C) PROVE FALSE
    OBVIOUS
  <2>1. B \subseteq C \cup U /\ U # {}
    BY <1>3, <1>5
  <2>2. ~Selects(Comparison(j, c, C \cup U, {}))
    BY <1>4, <1>6, <2>1
  <2>3. /\ Cardinality(C \cup U) \in Nat /\ Cardinality(B) \in Nat /\ Cardinality(C) \in Nat
    BY <1>2, FS_CardinalityType
  <2>4. B = C \cup U
    <3>1. ~(Cardinality(C \cup U) > Cardinality(B))
      BY <1>7, <2>1, <2>2
    <3>2. B # C \cup U => Cardinality(B) < Cardinality(C \cup U)
      BY <1>2, <2>1, ProperSubset
    <3>3. QED
      BY <2>3, <3>1, <3>2
  <2>5. Cardinality(C) < Cardinality(B)
    BY <1>2, <2>4, ProperSubset
  <2>6. QED
    BY <1>3, <1>5, <2>5
<1>9. QED
  BY <1>1, <1>8 DEF B, C, solved_task_ids

-----------------------------------------------------------------------------
(* A candidate, from its capture to its row.                               *)

LEMMA CommitsKnown ==
  ASSUME IInv
  PROVE  /\ \A i \in DOMAIN index : index[i].git_commit_hash \in DOMAIN anc
         /\ \A loss \in held : CommitOf(loss) \in DOMAIN anc
<1> USE DEF IInv
<1>1. ASSUME NEW i \in DOMAIN index
      PROVE  index[i].git_commit_hash \in DOMAIN anc
  <2>1. PICK id \in DOMAIN experiments : index[i] = RowOf(id, experiments[id])
    BY DEF IndexInv
  <2>2. RunOk(id) /\ id \in Nat
    BY RunsAreNumbers DEF StoreInv
  <2>3. QED
    BY <2>1, <2>2, RowIs DEF RunOk
<1>2. ASSUME NEW loss \in held
      PROVE  CommitOf(loss) \in DOMAIN anc
  BY DEF LoopInv, LossOk, StoreInv, RunOk, CommitOf
<1>3. QED
  BY <1>1, <1>2

LEMMA ProposeStep ==
  ASSUME IInv, Propose
  PROVE  IInv'
<1> USE DEF IInv
<1>1. PICK c : c = Fresh(anc)
  OBVIOUS
<1>2. /\ pc = "propose" /\ UNCHANGED <<head, storeVars, boundVars, pending, harnessVars, loopVars>>
      /\ anc' = Add(anc, c, anc[baseCommit] \cup {c}) /\ baseCommit \in DOMAIN anc
  BY <1>1 DEF Propose, capture_candidate, BaselineInv, InEpoch
<1>3. /\ RepoInv' /\ AncKeeps
      /\ c \notin DOMAIN anc /\ c \in DOMAIN anc' /\ anc'[c] = anc[baseCommit] \cup {c}
  BY <1>1, <1>2, RepoAdds
<1>4. StoreInv' /\ Keeps /\ IndexInv'
  BY <1>2, <1>3, StoreSame, IndexAdds DEF storeVars
<1>5. LoopInv'
  BY <1>2, <1>3, <1>4, LoopKept
<1>6. CASE EndEpoch(TRUE)
  BY <1>2, <1>3, <1>4, <1>5, <1>6, EndEpochIs DEF CountersInv, boundVars
<1>7. CASE ~EndEpoch(TRUE)
  <2>1. /\ candidate' = c /\ attempt' = 0 /\ pc' = "measure"
        /\ UNCHANGED <<sessionVars, baseCommit, baseline, panel>>
    BY <1>1, <1>7 DEF Propose
  <2>2. CountersInv'
    BY <1>2, <2>1, CountersSame
  <2>3. EpochType'
    BY <1>2, <1>3, <2>1 DEF EpochType, InEpoch, AncKeeps, storeVars
  <2>4. BaselineInv'
    BY <1>2, <1>3, <1>4, <2>1, BaselineKept DEF InEpoch, storeVars
  <2>5. CandidateInv'
    <3>1. \A i \in DOMAIN index' : index'[i].git_commit_hash # c
      BY <1>2, <1>3, CommitsKnown DEF storeVars
    <3>2. QED
      BY <1>2, <1>3, <2>1, <3>1 DEF CandidateInv, AncKeeps
  <2>6. UnjudgedInv'
    <3>1. head # c /\ \A loss \in held : CommitOf(loss) # c
      BY <1>3, CommitsKnown DEF RepoInv
    <3>2. QED
      BY <1>2, <2>1, <3>1 DEF UnjudgedInv, CommitOf, storeVars, loopVars
  <2>7. PendingInv' /\ WindowInv'
    BY <2>1 DEF PendingInv, WindowInv
  <2>8. QED
    BY <1>3, <1>4, <1>5, <2>2, <2>3, <2>4, <2>5, <2>6, <2>7
<1>8. QED
  BY <1>6, <1>7

LEMMA FailedStep ==
  ASSUME IInv, pc = "measure", NEW id, NEW run \in Experiment,
         id = None \/ id = Fresh(experiments),
         run.git_commit_hash = candidate, run.excluded = {}, run.verdict = "none",
         ~run.crashed => DOMAIN run.tasks = run.identity.panel,
         NEW verdict \in {"none", "invalid_infra"}, FailedAttempt(id, run, verdict),
         UNCHANGED <<repoVars, boundVars, harnessVars, loopVars>>
  PROVE  IInv'
<1> USE DEF IInv
<1>1. RepoInv' /\ AncKeeps
  BY RepoSame
<1>2. candidate \in DOMAIN anc'
  BY <1>1 DEF CandidateInv, AncKeeps
<1>3. CASE attempt = 0
  <2>1. /\ attempt' = 1
        /\ experiments' = IF id = None THEN experiments ELSE Add(experiments, id, run)
        /\ UNCHANGED <<pc, sessionVars, index, pending, baseCommit, baseline, panel, candidate>>
    BY <1>3 DEF FailedAttempt
  <2>2. /\ StoreInv' /\ Keeps /\ DOMAIN experiments \subseteq DOMAIN experiments'
        /\ \A old \in DOMAIN experiments : experiments'[old] = experiments[old]
    <3>1. CASE id = None
      BY <1>1, <2>1, <3>1, StoreSame
    <3>2. CASE id # None
      <4>1. id = Fresh(experiments) /\ experiments' = Add(experiments, id, run)
        BY <2>1, <3>2
      <4>2. QED
        BY <1>1, <1>2, <4>1, StoreAdds
    <3>3. QED
      BY <3>1, <3>2
  <2>3. IndexInv' /\ LoopInv' /\ CountersInv'
    BY <1>1, <2>1, <2>2, IndexAdds, LoopKept, CountersSame
  <2>4. EpochType'
    BY <1>1, <2>1, <2>2 DEF EpochType, AncKeeps
  <2>5. baseline \in DOMAIN experiments
    BY DEF BaselineInv, InEpoch
  <2>6. BaselineInv'
    BY <1>1, <2>1, <2>2, <2>5, BaselineKept DEF InEpoch
  <2>7. CandidateInv'
    BY <1>1, <2>1, CandidateKept
  <2>8. UnjudgedInv'
    <3>1. \A loss \in held : CommitOf(loss)' # candidate
      BY <2>2, LossKept DEF LoopInv, UnjudgedInv, CommitOf
    <3>2. QED
      BY <2>1, <3>1 DEF UnjudgedInv, loopVars, repoVars
  <2>9. PendingInv' /\ WindowInv'
    BY <2>1 DEF PendingInv, WindowInv
  <2>10. QED
    BY <1>1, <2>2, <2>3, <2>4, <2>6, <2>7, <2>8, <2>9
<1>4. CASE attempt # 0 /\ id = None
  <2>1. EndEpoch(TRUE) /\ UNCHANGED storeVars
    BY <1>4 DEF FailedAttempt
  <2>2. {regime', drifts', kills', budget'} \subseteq Nat
    BY DEF CountersInv, boundVars
  <2>3. QED
    BY <2>1, <2>2, LeaveStep, LoopKept
<1>5. CASE attempt # 0 /\ id # None
  <2>1. PICK new : new = Finalized(run, "candidate", verdict)
    OBVIOUS
  <2>2. /\ experiments' = Add(experiments, id, new) /\ pending' = <<RowOf(id, new)>>
        /\ index' = index /\ id = Fresh(experiments)
        /\ pc' = "append_failed" /\ UNCHANGED <<sessionVars, epochVars>>
    BY <1>5, <2>1 DEF FailedAttempt, SaveFinalized
  <2>3. baseCommit \in Nat /\ baseline \in Nat /\ baseline \in DOMAIN experiments
    BY CommitsAreNumbers, RunsAreNumbers DEF BaselineInv, InEpoch
  <2>4. /\ new \in Experiment /\ new.git_commit_hash = candidate
        /\ new.identity = run.identity /\ new.tasks = run.tasks /\ new.crashed = run.crashed
        /\ new.kind = "candidate" /\ new.verdict = verdict /\ new.excluded = {}
    BY <2>1, <2>3, FinalizedIs
  <2>5. /\ StoreInv' /\ Keeps
        /\ DOMAIN experiments' = DOMAIN experiments \cup {id}
        /\ id \notin DOMAIN experiments
        /\ experiments'[id] = new
        /\ \A old \in DOMAIN experiments : experiments'[old] = experiments[old]
    BY <1>1, <1>2, <2>2, <2>4, StoreAdds
  <2>6. IndexInv' /\ LoopInv' /\ CountersInv'
    BY <1>1, <2>2, <2>5, IndexAdds, LoopKept, CountersSame
  <2>7. EpochType'
    BY <1>1, <2>2, <2>5 DEF EpochType, AncKeeps, InEpoch, epochVars
  <2>8. BaselineInv'
    BY <1>1, <2>2, <2>3, <2>5, BaselineKept DEF InEpoch, epochVars
  <2>9. CandidateInv'
    BY <1>1, <2>2, CandidateKept DEF epochVars
  <2>10. UnjudgedInv'
    <3>1. \A loss \in held : CommitOf(loss)' # candidate
      BY <2>5, LossKept DEF LoopInv, UnjudgedInv, CommitOf
    <3>2. QED
      BY <2>2, <3>1 DEF UnjudgedInv, loopVars, repoVars, epochVars
  <2>11. PendingInv'
    <3>1. \A i \in DOMAIN index' : index'[i].experiment_id # id
      BY <2>2, <2>5, RowsKnown
    <3>2. QED
      BY <2>2, <2>4, <2>5, <3>1 DEF PendingInv, epochVars
  <2>12. WindowInv'
    BY <2>2 DEF WindowInv
  <2>13. QED
    BY <1>1, <2>5, <2>6, <2>7, <2>8, <2>9, <2>10, <2>11, <2>12
<1>6. QED
  BY <1>3, <1>4, <1>5

LEMMA MeasurementFailsStep ==
  ASSUME IInv, MeasurementFails
  PROVE  IInv'
<1>1. PICK run : run = RunOf(candidate, measurement_identity(panel), <<>>, TRUE)
  OBVIOUS
<1>2. PICK id \in {None, Fresh(experiments)} : FailedAttempt(id, run, "none")
  BY <1>1 DEF MeasurementFails
<1>3. pc = "measure" /\ UNCHANGED <<repoVars, boundVars, harnessVars, loopVars>>
  BY DEF MeasurementFails
<1>4. candidate \in Nat /\ panel \in SUBSET Tasks /\ measurement_identity(panel) \in Identity
  BY <1>3, CommitsAreNumbers, IdentityIs DEF IInv, CandidateInv, EpochType
<1>5. /\ run \in Experiment /\ run.git_commit_hash = candidate /\ run.excluded = {}
      /\ run.verdict = "none" /\ (run.crashed <=> TRUE)
  <2>1. {} \in SUBSET Tasks /\ <<>> \in [{} -> Rollouts]
    OBVIOUS
  <2>2. RunOf(candidate, measurement_identity(panel), <<>>, TRUE) \in Experiment
    BY <1>4, <2>1, RunOfIs, Zenon
  <2>3. QED
    BY <1>1, <2>2 DEF RunOf
<1>6. QED
  BY <1>2, <1>3, <1>5, FailedStep

LEMMA MeasureCandidateStep ==
  ASSUME IInv, MeasureCandidate
  PROVE  IInv'
<1>1. PICK tasks, id, run, loss :
        /\ tasks \in [panel -> Rollouts]
        /\ id = Fresh(experiments)
        /\ run = RunOf(candidate, measurement_identity(panel), tasks, FALSE)
        /\ loss = [candidate |-> id, baseline |-> baseline]
        /\ IF unmeasurable(TasksOf(baseline), tasks)
           THEN FailedAttempt(id, run, "invalid_infra") /\ UNCHANGED <<harnessVars, loopVars>>
           ELSE /\ experiments' = Add(experiments, id, run)
                /\ OpenWindow(loss)
                /\ UNCHANGED <<index, pending, sessionVars, epochVars>>
  BY DEF MeasureCandidate
<1>2. pc = "measure" /\ UNCHANGED <<repoVars, boundVars>>
  BY DEF MeasureCandidate
<1> USE DEF IInv
<1>3. /\ candidate \in DOMAIN anc /\ candidate \in Nat \ {0} /\ panel \in SUBSET Tasks
      /\ measurement_identity(panel) \in Identity /\ measurement_identity(panel).panel = panel
  BY <1>2, CommitsAreNumbers, IdentityIs DEF CandidateInv, EpochType
<1>4. /\ run \in Experiment /\ run.git_commit_hash = candidate /\ run.excluded = {}
      /\ run.verdict = "none" /\ run.kind = "none" /\ run.tasks = tasks
      /\ run.identity = measurement_identity(panel)
  <2>1. RunOf(candidate, measurement_identity(panel), tasks, FALSE) \in Experiment
    BY <1>1, <1>3, RunOfIs, Zenon
  <2>2. QED
    BY <1>1, <2>1 DEF RunOf
<1>5. DOMAIN run.tasks = run.identity.panel
  BY <1>1, <1>3, <1>4
<1>6. CASE unmeasurable(TasksOf(baseline), tasks)
  BY <1>1, <1>2, <1>4, <1>5, <1>6, FailedStep
<1>7. CASE ~unmeasurable(TasksOf(baseline), tasks)
  <2>1. /\ experiments' = Add(experiments, id, run)
        /\ grad' = NoLoss /\ applied' = None
        /\ held' = held \cup {loss} /\ current' = loss /\ stepped' = FALSE
        /\ pc' = "window"
        /\ UNCHANGED <<index, pending, sessionVars, epochVars>>
    BY <1>1, <1>7 DEF OpenWindow
  <2>2. RepoInv' /\ AncKeeps
    BY <1>2, RepoSame
  <2>3. /\ StoreInv' /\ Keeps
        /\ DOMAIN experiments' = DOMAIN experiments \cup {id}
        /\ id \notin DOMAIN experiments
        /\ experiments'[id] = run
        /\ \A old \in DOMAIN experiments : experiments'[old] = experiments[old]
    <3>1. run.git_commit_hash \in DOMAIN anc'
      BY <1>3, <1>4, <2>2 DEF AncKeeps
    <3>2. QED
      BY <1>1, <1>4, <1>5, <2>1, <2>2, <3>1, StoreAdds
  <2>4. IndexInv' /\ CountersInv'
    BY <1>2, <2>1, <2>3, IndexAdds, CountersSame
  <2>5. baseline \in DOMAIN experiments
    BY <1>2 DEF BaselineInv, InEpoch
  <2>6. BaselineInv'
    BY <1>2, <2>1, <2>2, <2>3, <2>5, BaselineKept DEF InEpoch, epochVars
  <2>7. CandidateInv'
    BY <1>2, <2>1, <2>2, CandidateKept DEF epochVars
  <2>8. EpochType'
    BY <2>1, <2>2, <2>3 DEF EpochType, AncKeeps, InEpoch, epochVars
  <2>9. PendingInv' /\ UnjudgedInv'
    BY <2>1 DEF PendingInv, UnjudgedInv
  <2>10. \A other \in held : LossOk(other)' /\ CommitOf(other)' = CommitOf(other)
    BY <2>3, LossKept DEF LoopInv, CommitOf
  <2>11. /\ loss.candidate = id /\ loss.baseline = baseline
         /\ loss \in [candidate : DOMAIN experiments', baseline : DOMAIN experiments']
    BY <1>1, <2>3, <2>5
  <2>12. LossOk(loss)' /\ CommitOf(loss)' = candidate
    <3>1. TasksOf(loss.baseline)' = TasksOf(baseline) /\ TasksOf(loss.candidate)' = tasks
      BY <1>4, <2>3, <2>5, <2>11 DEF TasksOf
    <3>2. QED
      BY <1>4, <1>7, <2>3, <2>11, <3>1 DEF LossOk, CommitOf
  <2>13. LoopInv'
    BY <2>1, <2>10, <2>12 DEF LoopInv
  <2>14. WindowInv'
    <3>1. \A other \in held : CommitOf(other)' # candidate /\ other # loss
      BY <1>2, <2>3, <2>10, <2>11 DEF UnjudgedInv, LoopInv, LossOk
    <3>2. \A other \in held' : CommitOf(other)' = candidate <=> other = loss
      BY <2>1, <2>12, <3>1
    <3>3. head' # candidate /\ applied' # candidate
      BY <1>2, <1>3, <2>1 DEF UnjudgedInv, repoVars, None
    <3>4. DOMAIN TasksOf(loss.candidate)' = panel
      BY <1>1, <1>4, <2>3, <2>11 DEF TasksOf
    <3>5. experiments'[loss.candidate].kind = "none"
      BY <1>4, <2>3, <2>11
    <3>6. QED
      BY <2>1, <2>11, <3>2, <3>3, <3>4, <3>5 DEF WindowInv, epochVars
  <2>15. QED
    BY <2>2, <2>3, <2>4, <2>6, <2>7, <2>8, <2>9, <2>13, <2>14
<1>8. QED
  BY <1>6, <1>7

LEMMA AppendFailedStep ==
  ASSUME IInv, AppendFailed
  PROVE  IInv'
<1> USE DEF IInv
<1>1. /\ pc = "append_failed" /\ AppendRow /\ EndEpoch(TRUE)
      /\ UNCHANGED <<repoVars, boundVars, harnessVars, loopVars>>
  BY DEF AppendFailed
<1>2. RepoInv' /\ AncKeeps
  BY <1>1, RepoSame
<1>3. StoreInv' /\ Keeps
  BY <1>1, <1>2, StoreSame DEF AppendRow
<1>4. IndexInv' /\ LoopInv'
  BY <1>1, <1>2, <1>3, IndexAppends, LoopKept
<1>5. QED
  BY <1>1, <1>2, <1>3, <1>4, EndEpochIs DEF CountersInv, boundVars

LEMMA AppendVerdictStep ==
  ASSUME IInv, AppendVerdict
  PROVE  IInv'
<1> USE DEF IInv
<1>1. /\ pc = "append_verdict" /\ AppendRow /\ pc' = "diagnose"
      /\ UNCHANGED <<repoVars, boundVars, sessionVars, epochVars, harnessVars, loopVars>>
  BY DEF AppendVerdict
<1>2. RepoInv' /\ AncKeeps
  BY <1>1, RepoSame
<1>3. StoreInv' /\ Keeps
  BY <1>1, <1>2, StoreSame DEF AppendRow
<1>4. IndexInv' /\ LoopInv' /\ CountersInv'
  BY <1>1, <1>2, <1>3, IndexAppends, LoopKept, CountersSame
<1>5. EpochType'
  BY <1>1, <1>2 DEF EpochType, AncKeeps, epochVars, AppendRow
<1>6. QED
  BY <1>1, <1>2, <1>3, <1>4, <1>5, OutOfEpoch

\* _conclude accepts only a step that followed the backward() of this epoch's own Loss.
LEMMA ConcludedLoss ==
  ASSUME IInv, pc = "window", Concludable
  PROVE  /\ grad = current /\ stepped
         /\ promoted(grad) => should_promote(current)
<1>1. grad \in held /\ CommitOf(grad) = candidate /\ applied # None
  BY DEF Concludable, IInv, LoopInv
<1>2. QED
  BY <1>1 DEF IInv, WindowInv, promoted

LEMMA ConcludeStep ==
  ASSUME IInv, Conclude
  PROVE  IInv'
<1> USE DEF IInv
<1>1. /\ pc = "window" /\ Concludable /\ pc' = "append_verdict"
      /\ UNCHANGED <<repoVars, boundVars, sessionVars, epochVars, harnessVars, loopVars>>
  BY DEF Conclude
<1>2. PICK id : id = current.candidate
  OBVIOUS
<1>3. PICK kind \in {"baseline", "candidate"}, verdict \in {"promoted", "rejected"} :
        /\ SaveFinalized(id, Finalized(experiments[id], kind, verdict))
        /\ verdict = "promoted" => promoted(grad)
  BY <1>2 DEF Conclude
<1>4. PICK new : new = Finalized(experiments[id], kind, verdict)
  OBVIOUS
<1>5. experiments' = Add(experiments, id, new) /\ pending' = <<RowOf(id, new)>> /\ index' = index
  BY <1>3, <1>4 DEF SaveFinalized
<1>6. /\ current \in held /\ current.baseline = baseline /\ LossOk(current)
      /\ id \in DOMAIN experiments /\ experiments[id].kind = "none"
      /\ experiments[id].git_commit_hash = candidate
      /\ DOMAIN experiments[id].tasks = panel
      /\ experiments[id] \in Experiment /\ RunOk(id)
  BY <1>1, <1>2 DEF WindowInv, LoopInv, LossOk, StoreInv, RunOk, CommitOf, TasksOf
<1>7. /\ baseCommit \in DOMAIN anc /\ baseCommit \in Nat
      /\ baseline \in DOMAIN experiments /\ baseline \in Nat /\ baseline # id
  BY <1>1, <1>6, CommitsAreNumbers, RunsAreNumbers DEF BaselineInv, InEpoch
<1>8. /\ new \in Experiment
      /\ new.git_commit_hash = experiments[id].git_commit_hash
      /\ new.identity = experiments[id].identity
      /\ new.tasks = experiments[id].tasks /\ new.crashed = experiments[id].crashed
      /\ new.kind = kind /\ new.parent = baseCommit /\ new.baseline = baseline
      /\ new.verdict = verdict
      /\ new.certified = experiments[id].certified /\ new.excluded = experiments[id].excluded
  BY <1>4, <1>6, <1>7, FinalizedIs
<1>9. RepoInv' /\ AncKeeps /\ anc' = anc
  BY <1>1, RepoSame DEF repoVars
<1>10. /\ DOMAIN experiments' = DOMAIN experiments /\ experiments'[id] = new
       /\ \A other \in DOMAIN experiments \ {id} : experiments'[other] = experiments[other]
  BY <1>5, <1>6 DEF Add
<1>11. KeepsRun(id)
  BY <1>6, <1>8, <1>10 DEF KeepsRun, Settled
<1>12. PromotionOk(id)'
  <2> SUFFICES ASSUME verdict = "promoted" PROVE PromotionOk(id)'
    BY <1>8, <1>10 DEF PromotionOk
  <2> DEFINE old == experiments[baseline]
  <2>1. should_promote(current)
    BY <1>1, <1>3, ConcludedLoss
  <2>2. /\ old.git_commit_hash = baseCommit /\ ~old.crashed /\ Settled(old)
        /\ DOMAIN old.tasks = Tasks /\ panel = Tasks \ old.excluded
    BY <1>1 DEF BaselineInv, InEpoch
  <2>3. baseCommit \in anc[candidate]
    BY <1>1, <1>7 DEF CandidateInv, RepoInv
  <2>4. ~unmeasurable(old.tasks, experiments[id].tasks)
    BY <1>2, <1>6 DEF LossOk, TasksOf
  <2>5. Selects(measured_report(old.tasks, experiments[id].tasks))
    BY <1>2, <1>6, <2>1 DEF should_promote, Report, TasksOf
  <2>6. DOMAIN old.tasks \subseteq Tasks /\ DOMAIN experiments[id].tasks \subseteq Tasks
    BY <1>6, <2>2
  <2>7. \A t \in DOMAIN old.tasks \cap DOMAIN experiments[id].tasks :
          old.tasks[t].mode = "solved" => experiments[id].tasks[t].mode = "solved"
    BY <2>4, <2>5, <2>6, SelectedCovers
  <2>8. solved_task_ids(old.tasks) \ old.excluded \subseteq solved_task_ids(experiments[id].tasks)
    BY <1>6, <2>2, <2>7 DEF solved_task_ids
  <2>9. experiments'[baseline] = old
    BY <1>7, <1>10
  <2>10. QED
    BY <1>6, <1>7, <1>8, <1>9, <1>10, <2>2, <2>3, <2>8, <2>9 DEF PromotionOk
<1>13. StoreInv' /\ Keeps
  <2>1. ~Replay => new.excluded = {}
    BY <1>6, <1>8 DEF RunOk
  <2>2. QED
    BY <1>6, <1>8, <1>9, <1>10, <1>11, <1>12, <2>1, StoreUpdates
<1>14. \A i \in DOMAIN index : index[i].experiment_id # id
  <2> SUFFICES ASSUME NEW i \in DOMAIN index, index[i].experiment_id = id PROVE FALSE
    OBVIOUS
  <2>1. index[i] = RowOf(id, experiments[id]) /\ index[i] \in Row /\ id \in Nat
    BY <1>6, RowsKnown, RunsAreNumbers DEF IndexInv
  <2>2. index[i].kind = "none"
    BY <1>6, <2>1, RowIs
  <2>3. QED
    BY <2>1, <2>2 DEF Row
<1>15. IndexInv'
  <2>1. \A i \in DOMAIN index :
          experiments'[index[i].experiment_id] = experiments[index[i].experiment_id]
    BY <1>10, <1>14, RowsKnown
  <2>2. QED
    BY <1>5, <1>10, <2>1, IndexSame
<1>16. CountersInv' /\ LoopInv'
  BY <1>1, <1>9, <1>13, CountersSame, LoopKept
<1>17. EpochType'
  BY <1>1, <1>9, <1>10 DEF EpochType, InEpoch, epochVars
<1>18. BaselineInv'
  BY <1>1, <1>5, <1>7, <1>9, <1>10, <1>13, BaselineKept DEF InEpoch, epochVars
<1>19. CandidateInv'
  BY <1>1, <1>5, <1>9, CandidateKept DEF epochVars
<1>20. UnjudgedInv' /\ WindowInv'
  BY <1>1 DEF UnjudgedInv, WindowInv
<1>21. PendingInv'
  BY <1>1, <1>5, <1>6, <1>8, <1>10, <1>14 DEF PendingInv, epochVars
<1>22. QED
  BY <1>9, <1>13, <1>15, <1>16, <1>17, <1>18, <1>19, <1>20, <1>21

-----------------------------------------------------------------------------
(* The theorems about every loop body.                                     *)

LEMMA InitInvariant == Init => IInv
<1> SUFFICES ASSUME Init PROVE IInv
  OBVIOUS
<1>1. RepoInv
  <2>1. DOMAIN anc = {1} /\ anc[1] = {1} /\ head = 1 /\ {1} = 1..1
    BY DEF Init
  <2>2. Numbered(anc)
    BY <2>1 DEF Numbered
  <2>3. QED
    BY <2>1, <2>2 DEF RepoInv
<1>2. StoreInv /\ IndexInv
  <2>1. DOMAIN experiments = {} /\ DOMAIN index = {} /\ {} = 1..0 /\ index \in Seq(Row)
    BY DEF Init
  <2>2. Numbered(experiments)
    BY <2>1 DEF Numbered
  <2>3. QED
    BY <2>1, <2>2 DEF StoreInv, IndexInv, OneRowPerCandidate
<1>3. CountersInv /\ EpochType
  BY TrainerAssumption DEF Init, CountersInv, EpochType
<1>4. BaselineInv /\ CandidateInv /\ PendingInv /\ UnjudgedInv /\ WindowInv
  BY DEF Init, BaselineInv, CandidateInv, PendingInv, UnjudgedInv, WindowInv, InEpoch
<1>5. LoopInv
  BY DEF Init, LoopInv
<1>6. QED
  BY <1>1, <1>2, <1>3, <1>4, <1>5 DEF IInv

LEMMA StutterStep ==
  ASSUME IInv, UNCHANGED vars
  PROVE  IInv'
<1> USE DEF IInv
<1>1. UNCHANGED <<repoVars, storeVars, boundVars, pc, sessionVars, epochVars, pending, harnessVars,
                  loopVars>>
  BY DEF vars
<1>2. RepoInv' /\ AncKeeps
  BY <1>1, RepoSame
<1>3. StoreInv' /\ Keeps /\ IndexInv'
  BY <1>1, <1>2, StoreSame, IndexAdds DEF storeVars
<1>4. CountersInv'
  BY <1>1 DEF CountersInv, sessionVars, boundVars
<1>5. EpochType' /\ BaselineInv' /\ CandidateInv' /\ PendingInv'
  BY <1>1, <1>2, EpochSame DEF storeVars
<1>6. LoopInv'
  BY <1>1, <1>2, <1>3, LoopKept
<1>7. UnjudgedInv' /\ WindowInv'
  BY <1>1 DEF UnjudgedInv, WindowInv, repoVars, storeVars, epochVars, loopVars, harnessVars, CommitOf,
              TasksOf, should_promote, Report
<1>8. QED
  BY <1>2, <1>3, <1>4, <1>5, <1>6, <1>7

LEMMA NextStep ==
  ASSUME IInv, [Next]_vars
  PROVE  IInv'
<1>1. CASE Generator
  BY <1>1, StartEpochStep, MeasureBaselineStep, AppendBaselineStep, CertifyStep, NothingProposed,
     ProposeStep, MeasurementFailsStep, MeasureCandidateStep, AppendFailedStep, AppendVerdictStep,
     DiagnoseStep
  DEF Generator
<1>2. CASE Environment
  BY <1>2, EpochsStep, KillStep, DriftStep, BumpEpochStep DEF Environment
<1>3. CASE AnyLoop
  BY <1>3, BackwardStep, StepStep, ConcludeStep, WindowCloses DEF AnyLoop, Resume
<1>4. QED
  BY <1>1, <1>2, <1>3, StutterStep DEF Next

LEMMA Invariance == Spec => []IInv
BY InitInvariant, NextStep, PTL DEF Spec

LEMMA InvariantTypes == IInv => TypeOK
<1> SUFFICES ASSUME IInv PROVE TypeOK
  OBVIOUS
<1> USE DEF IInv
<1>1. DOMAIN anc \subseteq Nat \ {None} /\ DOMAIN experiments \subseteq Nat \ {None}
  BY CommitsAreNumbers, RunsAreNumbers DEF None
<1>2. \A c \in DOMAIN anc : c \in anc[c] /\ anc[c] \subseteq DOMAIN anc
  <2>1. PICK n \in Nat : DOMAIN anc = 1..n
    BY DEF RepoInv, Numbered
  <2>2. ASSUME NEW c \in DOMAIN anc PROVE c \in anc[c] /\ anc[c] \subseteq DOMAIN anc
    <3>1. anc[c] \subseteq 1..c /\ 1..c \subseteq 1..n /\ c \in anc[c]
      BY <2>1 DEF RepoInv
    <3>2. QED
      BY <2>1, <3>1
  <2>3. QED
    BY <2>2
<1>3. \A id \in DOMAIN experiments : experiments[id] \in Experiment
  BY DEF StoreInv, RunOk
<1>4. \A i \in DOMAIN index : index[i] \in Row
  BY RowsKnown
<1>5. \A loss \in held \cup ({grad, current} \ {NoLoss}) :
        {loss.candidate, loss.baseline} \subseteq DOMAIN experiments
  BY DEF LoopInv, LossOk
<1>6. QED
  BY <1>1, <1>2, <1>3, <1>4, <1>5 DEF TypeOK, RepoInv, CountersInv, EpochType, LoopInv, InEpoch

LEMMA InvariantRecords == IInv => RecordsAgree
<1> SUFFICES ASSUME IInv PROVE RecordsAgree
  OBVIOUS
<1>1. IndexNeverAheadOfRecords
  BY DEF IInv, IndexInv, IndexNeverAheadOfRecords, Rows
<1>2. QED
  BY <1>1, InvariantTypes DEF RecordsAgree, IInv, IndexInv

LEMMA InvariantBaseline == IInv => BaselineIsCompleteAndCurrent
<1> SUFFICES ASSUME IInv, pc \in {"propose", "measure", "window"}
             PROVE  BaselineIsCompleteAndCurrent
  BY DEF BaselineIsCompleteAndCurrent
<1> USE DEF IInv
<1>1. PICK i \in DOMAIN index : index[i].experiment_id = baseline
  BY DEF BaselineInv, InEpoch
<1>2. /\ baseline \in DOMAIN experiments /\ experiments[baseline].kind = "baseline"
      /\ baseline \in Nat /\ experiments[baseline] \in Experiment
  BY RunsAreNumbers DEF BaselineInv, InEpoch, StoreInv, RunOk
<1>3. index[i].kind = "baseline"
  BY <1>1, <1>2, RowIs DEF IndexInv
<1>4. \E row \in Rows : row.experiment_id = baseline /\ row.kind = "baseline"
  BY <1>1, <1>3 DEF Rows
<1>5. QED
  BY <1>4 DEF BaselineIsCompleteAndCurrent, BaselineInv, InEpoch

LEMMA InvariantPromotions == IInv => PromotionsAreSound
<1> SUFFICES ASSUME IInv, NEW i \in DOMAIN index, index[i].verdict = "promoted"
             PROVE  LET row == index[i]
                        old == experiments[row.baseline]
                        new == experiments[row.experiment_id]
                    IN /\ old.git_commit_hash = row.parent /\ ~old.crashed
                       /\ row.parent \in anc[row.git_commit_hash]
                       /\ DOMAIN new.tasks = Tasks \ old.excluded
                       /\ solved_task_ids(old.tasks) \ old.excluded \subseteq solved_task_ids(new.tasks)
  BY DEF PromotionsAreSound, Rows
<1>1. PICK id \in DOMAIN experiments :
        id = index[i].experiment_id /\ index[i] = RowOf(id, experiments[id])
  BY DEF IInv, IndexInv
<1>2. id \in Nat /\ experiments[id] \in Experiment /\ PromotionOk(id)
  BY RunsAreNumbers DEF IInv, StoreInv, RunOk
<1>3. /\ experiments[id].verdict = "promoted" /\ experiments[id].baseline = index[i].baseline
      /\ experiments[id].parent = index[i].parent
      /\ experiments[id].git_commit_hash = index[i].git_commit_hash
  BY <1>1, <1>2, RowIs
<1>4. QED
  BY <1>1, <1>2, <1>3 DEF PromotionOk

\* experiment.json and runs.jsonl agree, whatever the loop does and whenever the process
\* dies between the two writes: rows tell what the records say, and nothing has two rows.
THEOREM RecordsSafe == Spec => []RecordsAgree
BY Invariance, InvariantRecords, PTL

\* A candidate is only ever compared with a completed run of the whole panel at the epoch's
\* commit: latest_completed_baseline never reuses anything else.
THEOREM BaselineSafe == Spec => []BaselineIsCompleteAndCurrent
BY Invariance, InvariantBaseline, PTL

\* Every row that says promoted names a baseline the run beats, for every panel and loop.
THEOREM PromotionsSafe == Spec => []PromotionsAreSound
BY Invariance, InvariantPromotions, PTL

\* Optimizer.step moves HEAD only forward, and only to a candidate that some Loss selects.
THEOREM HeadSafe == Spec => HeadOnlyFollowsSelections
<1>1. IInv /\ [Next]_vars =>
        [head' # head /\ drifts' = drifts =>
           \E loss \in held : /\ Selects(Report(loss))
                              /\ head' = CommitOf(loss)
                              /\ head \in anc[head']]_vars
  <2> SUFFICES ASSUME IInv, Next, head' # head, drifts' = drifts
               PROVE  \E loss \in held : /\ Selects(Report(loss))
                                         /\ head' = CommitOf(loss)
                                         /\ head \in anc[head']
    OBVIOUS
  <2>1. CASE step
    BY <2>1, StepIs DEF should_promote
  <2>2. CASE Drift
    BY <2>2 DEF Drift, IInv, CountersInv
  <2>3. CASE ~step /\ ~Drift
    <3>1. UNCHANGED head
      BY <2>3
      DEF Next, Generator, Environment, AnyLoop, Resume, StartEpoch, MeasureBaseline, AppendBaseline,
          Certify, ProposeNothing, Propose, MeasurementFails, MeasureCandidate, AppendFailed,
          AppendVerdict, Diagnose, Raise, Epochs, Kill, BumpEpoch, backward, Conclude,
          ConcludeRefused, Abandon, repoVars
    <3>2. QED
      BY <3>1
  <2>4. QED
    BY <2>1, <2>2, <2>3
<1>2. QED
  BY <1>1, Invariance, PTL DEF Spec, HeadOnlyFollowsSelections

\* _conclude records a decision only after the loop recorded this epoch's Loss and completed
\* a step: nothing that an earlier epoch left on the harness concludes a later one.
THEOREM VerdictsSafe == Spec => VerdictsNeverLeakForward
<1>1. IInv /\ [Next]_vars =>
        [pc = "window" /\ pc' = "append_verdict" =>
           stepped /\ grad.candidate = current.candidate]_vars
  <2> SUFFICES ASSUME IInv, Next, pc = "window", pc' = "append_verdict"
               PROVE  stepped /\ grad.candidate = current.candidate
    OBVIOUS
  <2>1. CASE Conclude
    BY <2>1, ConcludedLoss DEF Conclude
  <2>2. CASE ~Conclude
    BY <2>2
    DEF Next, Generator, Environment, AnyLoop, Resume, StartEpoch, MeasureBaseline, AppendBaseline,
        Certify, ProposeNothing, Propose, MeasurementFails, MeasureCandidate, AppendFailed,
        AppendVerdict, Diagnose, Raise, Epochs, Kill, Drift, BumpEpoch, backward, step,
        ConcludeRefused, Abandon, Stop
  <2>3. QED
    BY <2>1, <2>2
<1>2. QED
  BY <1>1, Invariance, PTL DEF Spec, VerdictsNeverLeakForward

-----------------------------------------------------------------------------
(* The documented loop body: the index tells the branch's history.         *)

\* HistoryAgreesWithIndex, row by row.
RowsTell ==
  \A i \in DOMAIN index : index[i].parent # None =>
    (index[i].verdict = "promoted" <=> index[i].git_commit_hash \in anc[head])

\* HEAD never leaves the commit the epoch started from.
EpochOnBranch == pc \in {"baseline"} \cup InEpoch => baseCommit \in anc[head]

\* Before the step of the window nobody merges the candidate.
Unmerged ==
  pc \in {"measure", "append_failed"} \/ (pc = "window" /\ ~stepped) => candidate \notin anc[head]

\* What the step leaves on the harness is what it did to the branch.
AppliedTells ==
  pc = "window" => /\ ~stepped => applied = None
                   /\ stepped => (applied = candidate <=> candidate \in anc[head])

\* The row to come tells what happened to its candidate.
PendingTells ==
  /\ pc = "append_failed" => pending[1].verdict # "promoted"
  /\ pc = "append_verdict" => (pending[1].verdict = "promoted" <=> candidate \in anc[head])

DocumentedInv == RowsTell /\ EpochOnBranch /\ Unmerged /\ AppliedTells /\ PendingTells

LEMMA RowsStillTell ==
  ASSUME RowsTell, index' = index, UNCHANGED repoVars
  PROVE  RowsTell'
BY DEF RowsTell, repoVars

\* Outside an epoch only the rows matter.
LEMMA OutOfEpochTells ==
  ASSUME RowsTell', pc' \in {"idle", "epoch", "diagnose"}
  PROVE  DocumentedInv'
BY DEF DocumentedInv, EpochOnBranch, Unmerged, AppliedTells, PendingTells, InEpoch

LEMMA LeavingTells ==
  ASSUME DocumentedInv, index' = index, UNCHANGED repoVars,
         Stop \/ \E skipped \in BOOLEAN : EndEpoch(skipped)
  PROVE  DocumentedInv'
<1>1. pc' \in {"idle", "epoch"}
  BY DEF Stop, EndEpoch
<1>2. QED
  BY <1>1, RowsStillTell, OutOfEpochTells DEF DocumentedInv

\* A step before the verdict, which touches neither the branch nor the index.
LEMMA EarlyStepTells ==
  ASSUME DocumentedInv, index' = index, UNCHANGED repoVars,
         pc' \in {"append_baseline", "certify", "propose"}, pc \in {"baseline"} \cup InEpoch,
         baseCommit' = baseCommit
  PROVE  DocumentedInv'
<1>1. RowsTell'
  BY RowsStillTell DEF DocumentedInv
<1>2. QED
  BY <1>1 DEF DocumentedInv, EpochOnBranch, Unmerged, AppliedTells, PendingTells, repoVars, InEpoch

LEMMA StartTells ==
  ASSUME IInv, DocumentedInv, StartEpoch
  PROVE  DocumentedInv'
<1>1. CASE Stop
  BY <1>1, LeavingTells DEF StartEpoch, storeVars
<1>2. CASE ~Stop
  <2>1. /\ pc' \in {"baseline", "certify"} /\ baseCommit' = head
        /\ index' = index /\ UNCHANGED repoVars
    BY <1>2 DEF StartEpoch, storeVars
  <2>2. head \in anc[head]
    BY DEF IInv, RepoInv
  <2>3. RowsTell'
    BY <2>1, RowsStillTell DEF DocumentedInv
  <2>4. QED
    BY <2>1, <2>2, <2>3
    DEF DocumentedInv, EpochOnBranch, Unmerged, AppliedTells, PendingTells, repoVars, InEpoch
<1>3. QED
  BY <1>1, <1>2

\* The row that is appended tells the truth, if the pending one does.
LEMMA AppendTells ==
  ASSUME IInv, DocumentedInv, AppendRow, UNCHANGED repoVars,
         pc \in {"append_baseline", "append_failed", "append_verdict"}
  PROVE  RowsTell'
<1> USE DEF IInv
<1>1. PICK id \in DOMAIN experiments :
        /\ pending = <<RowOf(id, experiments[id])>>
        /\ experiments[id].kind # "none"
        /\ pc = "append_baseline" => experiments[id].parent = None
        /\ pc # "append_baseline" => experiments[id].git_commit_hash = candidate
  BY DEF PendingInv
<1>2. PICK row : row = RowOf(id, experiments[id])
  OBVIOUS
<1>3. id \in Nat /\ experiments[id] \in Experiment
  BY RunsAreNumbers DEF StoreInv, RunOk
<1>4. /\ row \in Row /\ row.git_commit_hash = experiments[id].git_commit_hash
      /\ row.parent = experiments[id].parent /\ pending[1] = row
  BY <1>1, <1>2, <1>3, RowIs
<1>5. index' = Append(index, row) /\ index \in Seq(Row)
  BY <1>4 DEF AppendRow, IndexInv
<1>6. PICK n : n = Len(index)
  OBVIOUS
<1>7. /\ Len(index') = n + 1 /\ index'[n + 1] = row /\ index' \in Seq(Row)
      /\ \A i \in 1..n : index'[i] = index[i]
  BY <1>4, <1>5, <1>6, AppendProperties
<1>8. DOMAIN index = 1..n /\ DOMAIN index' = 1..n + 1 /\ n \in Nat
  BY <1>5, <1>6, <1>7, LenProperties
<1>9. \A i \in DOMAIN index' : (i \in DOMAIN index /\ index'[i] = index[i]) \/ index'[i] = row
  BY <1>7, <1>8
<1>10. row.parent # None => (row.verdict = "promoted" <=> row.git_commit_hash \in anc[head])
  <2>1. CASE pc = "append_baseline"
    BY <1>1, <1>4, <2>1
  <2>2. CASE pc = "append_failed"
    BY <1>1, <1>4, <2>2 DEF DocumentedInv, PendingTells, Unmerged
  <2>3. CASE pc = "append_verdict"
    BY <1>1, <1>4, <2>3 DEF DocumentedInv, PendingTells
  <2>4. QED
    BY <2>1, <2>2, <2>3
<1>11. QED
  BY <1>9, <1>10 DEF RowsTell, DocumentedInv, repoVars

LEMMA AppendBaselineTells ==
  ASSUME IInv, DocumentedInv, AppendBaseline
  PROVE  DocumentedInv'
<1>1. /\ pc = "append_baseline" /\ AppendRow /\ pc' = "certify"
      /\ UNCHANGED repoVars /\ UNCHANGED epochVars
  BY DEF AppendBaseline
<1>2. RowsTell'
  BY <1>1, AppendTells
<1>3. QED
  BY <1>1, <1>2 DEF DocumentedInv, EpochOnBranch, Unmerged, AppliedTells, PendingTells, repoVars,
                    epochVars, InEpoch

LEMMA AppendLaterTells ==
  ASSUME IInv, DocumentedInv, AppendFailed \/ AppendVerdict
  PROVE  DocumentedInv'
<1>1. /\ pc \in {"append_failed", "append_verdict"} /\ AppendRow /\ UNCHANGED repoVars
      /\ pc' \in {"idle", "epoch", "diagnose"}
  BY DEF AppendFailed, AppendVerdict, EndEpoch, Stop
<1>2. QED
  BY <1>1, AppendTells, OutOfEpochTells

\* A commit that was just captured is nobody's ancestor.
LEMMA ProposeTells ==
  ASSUME IInv, DocumentedInv, Propose
  PROVE  DocumentedInv'
<1> USE DEF IInv
<1>1. PICK c : c = Fresh(anc)
  OBVIOUS
<1>2. /\ pc = "propose" /\ anc' = Add(anc, c, anc[baseCommit] \cup {c}) /\ head' = head
      /\ index' = index
      /\ \/ candidate' = c /\ pc' = "measure" /\ baseCommit' = baseCommit
         \/ EndEpoch(TRUE)
  BY <1>1 DEF Propose, capture_candidate, storeVars
<1>3. baseCommit \in DOMAIN anc /\ head \in DOMAIN anc
  BY <1>2 DEF BaselineInv, InEpoch, RepoInv
<1>4. RepoInv' /\ AncKeeps /\ c \notin DOMAIN anc
  BY <1>1, <1>2, <1>3, RepoAdds
<1>5. anc'[head'] = anc[head] /\ anc[head] \subseteq DOMAIN anc
  BY <1>2, <1>3, <1>4, InvariantTypes DEF AncKeeps, TypeOK
<1>6. RowsTell'
  BY <1>2, <1>5 DEF RowsTell, DocumentedInv
<1>7. CASE EndEpoch(TRUE)
  BY <1>6, <1>7, OutOfEpochTells DEF EndEpoch, Stop
<1>8. CASE candidate' = c /\ pc' = "measure" /\ baseCommit' = baseCommit
  BY <1>2, <1>4, <1>5, <1>6, <1>8
  DEF DocumentedInv, EpochOnBranch, Unmerged, AppliedTells, PendingTells, InEpoch
<1>9. QED
  BY <1>2, <1>7, <1>8

LEMMA FailedTells ==
  ASSUME IInv, DocumentedInv, pc = "measure", NEW id \in Nat, NEW run \in Experiment,
         NEW verdict \in {"none", "invalid_infra"}, FailedAttempt(id, run, verdict),
         UNCHANGED repoVars
  PROVE  DocumentedInv'
<1> USE DEF IInv
<1>1. CASE attempt = 0
  <2>1. UNCHANGED <<pc, index, baseCommit, candidate>>
    BY <1>1 DEF FailedAttempt
  <2>2. RowsTell'
    BY <2>1, RowsStillTell DEF DocumentedInv
  <2>3. QED
    BY <2>1, <2>2
    DEF DocumentedInv, EpochOnBranch, Unmerged, AppliedTells, PendingTells, repoVars, InEpoch
<1>2. CASE attempt # 0 /\ id = None
  <2>1. EndEpoch(TRUE) /\ index' = index
    BY <1>2 DEF FailedAttempt, storeVars
  <2>2. QED
    BY <2>1, LeavingTells
<1>3. CASE attempt # 0 /\ id # None
  <2>1. PICK new : new = Finalized(run, "candidate", verdict)
    OBVIOUS
  <2>2. /\ pc' = "append_failed" /\ index' = index /\ pending' = <<RowOf(id, new)>>
        /\ UNCHANGED epochVars
    BY <1>3, <2>1 DEF FailedAttempt, SaveFinalized
  <2>3. baseCommit \in Nat /\ baseline \in Nat
    BY CommitsAreNumbers, RunsAreNumbers DEF BaselineInv, InEpoch
  <2>4. new \in Experiment /\ new.verdict = verdict
    BY <2>1, <2>3, FinalizedIs
  <2>5. pending'[1].verdict # "promoted"
    BY <2>2, <2>4, RowIs
  <2>6. RowsTell'
    BY <2>2, RowsStillTell DEF DocumentedInv
  <2>7. QED
    BY <2>2, <2>5, <2>6
    DEF DocumentedInv, EpochOnBranch, Unmerged, AppliedTells, PendingTells, repoVars, epochVars, InEpoch
<1>4. QED
  BY <1>1, <1>2, <1>3

LEMMA MeasureTells ==
  ASSUME IInv, DocumentedInv, MeasurementFails \/ MeasureCandidate
  PROVE  DocumentedInv'
<1>1. pc = "measure" /\ UNCHANGED repoVars
  BY DEF MeasurementFails, MeasureCandidate
<1>2. /\ candidate \in Nat /\ panel \in SUBSET Tasks /\ measurement_identity(panel) \in Identity
      /\ {None, Fresh(experiments)} \subseteq Nat
  BY <1>1, CommitsAreNumbers, IdentityIs, FreshIs
  DEF IInv, CandidateInv, EpochType, StoreInv, None
<1>3. ASSUME NEW tasks \in SUBSET Tasks, NEW run \in [tasks -> Rollouts], NEW crashed \in BOOLEAN
      PROVE  RunOf(candidate, measurement_identity(panel), run, crashed) \in Experiment
  BY <1>2, <1>3, RunOfIs, Zenon
<1>4. CASE MeasurementFails
  <2>1. {} \in SUBSET Tasks /\ <<>> \in [{} -> Rollouts]
    OBVIOUS
  <2>2. RunOf(candidate, measurement_identity(panel), <<>>, TRUE) \in Experiment
    BY <1>3, <2>1
  <2>3. QED
    BY <1>1, <1>2, <1>4, <2>2, FailedTells DEF MeasurementFails
<1>5. CASE MeasureCandidate
  <2>1. PICK tasks, id, run, loss :
          /\ tasks \in [panel -> Rollouts] /\ id \in Nat
          /\ run = RunOf(candidate, measurement_identity(panel), tasks, FALSE)
          /\ IF unmeasurable(TasksOf(baseline), tasks)
             THEN FailedAttempt(id, run, "invalid_infra") /\ UNCHANGED <<harnessVars, loopVars>>
             ELSE OpenWindow(loss) /\ UNCHANGED <<index, pending, sessionVars, epochVars>>
    BY <1>2, <1>5 DEF MeasureCandidate
  <2>2. run \in Experiment
    BY <1>2, <1>3, <2>1
  <2>3. CASE unmeasurable(TasksOf(baseline), tasks)
    BY <1>1, <2>1, <2>2, <2>3, FailedTells
  <2>4. CASE ~unmeasurable(TasksOf(baseline), tasks)
    <3>1. /\ pc' = "window" /\ applied' = None /\ stepped' = FALSE
          /\ index' = index /\ UNCHANGED epochVars
      BY <2>1, <2>4 DEF OpenWindow
    <3>2. RowsTell'
      BY <1>1, <3>1, RowsStillTell DEF DocumentedInv
    <3>3. QED
      BY <1>1, <3>1, <3>2
      DEF DocumentedInv, EpochOnBranch, Unmerged, AppliedTells, PendingTells, repoVars, epochVars,
          InEpoch
  <2>5. QED
    BY <2>3, <2>4
<1>6. QED
  BY <1>4, <1>5

\* A foreign commit carries all of the branch's history and nothing that a row tells of.
LEMMA DriftTells ==
  ASSUME IInv, DocumentedInv, Drift
  PROVE  DocumentedInv'
<1> USE DEF IInv
<1>1. PICK c : c = Fresh(anc)
  OBVIOUS
<1>2. /\ head' = c /\ anc' = Add(anc, c, anc[head] \cup {c}) /\ head \in DOMAIN anc
      /\ UNCHANGED <<storeVars, pc, epochVars, pending, harnessVars, loopVars>>
  BY <1>1 DEF Drift, RepoInv
<1>3. anc'[head'] = anc[head] \cup {c} /\ c \notin DOMAIN anc
  BY <1>1, <1>2, RepoAdds
<1>4. \A d \in DOMAIN anc : d \in anc'[head'] <=> d \in anc[head]
  BY <1>3
<1>5. RowsTell'
  BY <1>2, <1>4, CommitsKnown DEF RowsTell, DocumentedInv, storeVars
<1>6. /\ pc \in {"baseline"} \cup InEpoch => baseCommit \in DOMAIN anc
      /\ pc \in {"measure", "append_failed", "window", "append_verdict"} => candidate \in DOMAIN anc
  BY DEF BaselineInv, CandidateInv
<1>7. QED
  BY <1>2, <1>4, <1>5, <1>6
  DEF DocumentedInv, EpochOnBranch, Unmerged, AppliedTells, PendingTells, epochVars, harnessVars,
      loopVars

\* The one step of the window merges the candidate if its Loss selects it, and nothing else.
LEMMA StepTells ==
  ASSUME IInv, DocumentedInv, pc = "window", grad = current, ~stepped, step
  PROVE  DocumentedInv'
<1> USE DEF IInv
<1>1. /\ UNCHANGED <<anc, storeVars, pc, epochVars, pending>>
      /\ stepped' <=> TRUE
  BY DEF step
<1>2. CommitOf(grad) = candidate /\ candidate \in DOMAIN anc
  BY DEF WindowInv, CandidateInv
<1>3. candidate \notin anc[head] /\ baseCommit \in anc[head] /\ head \in anc[head]
  BY DEF DocumentedInv, Unmerged, EpochOnBranch, RepoInv, InEpoch
<1>4. CASE ~should_promote(grad)
  <2>1. head' = head /\ applied' = head
    BY <1>3, <1>4 DEF step
  <2>2. RowsTell'
    BY <1>1, <2>1, RowsStillTell DEF DocumentedInv, storeVars, repoVars
  <2>3. QED
    BY <1>1, <1>3, <2>1, <2>2
    DEF DocumentedInv, EpochOnBranch, Unmerged, AppliedTells, PendingTells, epochVars
<1>5. CASE should_promote(grad)
  <2>1. head \in anc[candidate] /\ head' = candidate /\ applied' = candidate
    BY <1>2, <1>3, <1>5 DEF step
  <2>2. anc[candidate] = anc[baseCommit] \cup {candidate}
    BY DEF CandidateInv
  <2>3. head = baseCommit
    <3>1. head \in anc[baseCommit] /\ baseCommit \in DOMAIN anc /\ head \in DOMAIN anc
      BY <1>3, <2>1, <2>2 DEF BaselineInv, InEpoch, RepoInv
    <3>2. head \in 1..baseCommit /\ baseCommit \in 1..head /\ head \in Nat /\ baseCommit \in Nat
      BY <1>3, <3>1, CommitsAreNumbers DEF RepoInv
    <3>3. QED
      BY <3>2
  <2>4. anc'[head'] = anc[head] \cup {candidate}
    BY <1>1, <2>1, <2>2, <2>3
  <2>5. RowsTell'
    BY <1>1, <2>4 DEF RowsTell, DocumentedInv, CandidateInv, storeVars
  <2>6. QED
    BY <1>1, <1>3, <2>1, <2>4, <2>5
    DEF DocumentedInv, EpochOnBranch, Unmerged, AppliedTells, PendingTells, epochVars
<1>6. QED
  BY <1>4, <1>5

\* _conclude records what the step did.
LEMMA ConcludeTells ==
  ASSUME IInv, DocumentedInv, Conclude
  PROVE  DocumentedInv'
<1> USE DEF IInv
<1>1. /\ pc = "window" /\ Concludable /\ pc' = "append_verdict" /\ index' = index
      /\ UNCHANGED <<repoVars, epochVars, harnessVars, loopVars>>
  BY DEF Conclude, SaveFinalized
<1>2. stepped /\ CommitOf(grad) = candidate
  BY <1>1, ConcludedLoss DEF Concludable
<1>3. PICK id, kind, verdict :
        /\ id = current.candidate
        /\ kind = IF promoted(grad) THEN "baseline" ELSE "candidate"
        /\ verdict = IF promoted(grad) THEN "promoted" ELSE "rejected"
  OBVIOUS
<1>4. /\ pending' = <<RowOf(id, Finalized(experiments[id], kind, verdict))>>
      /\ kind \in {"baseline", "candidate"}
      /\ verdict \in {"none", "promoted", "rejected", "invalid_infra"}
      /\ verdict = "promoted" <=> promoted(grad)
  BY <1>3 DEF Conclude, SaveFinalized
<1>5. id \in Nat /\ experiments[id] \in Experiment /\ baseCommit \in Nat /\ baseline \in Nat
  BY <1>1, <1>3, CommitsAreNumbers, RunsAreNumbers
  DEF WindowInv, LoopInv, LossOk, StoreInv, RunOk, BaselineInv, InEpoch
<1>6. PICK new : new = Finalized(experiments[id], kind, verdict)
  OBVIOUS
<1>7. new \in Experiment /\ new.verdict = verdict
  BY <1>4, <1>5, <1>6, FinalizedIs
<1>8. pending'[1].verdict = verdict
  BY <1>4, <1>5, <1>6, <1>7, RowIs
<1>9. verdict = "promoted" <=> candidate \in anc[head]
  BY <1>1, <1>2, <1>3 DEF promoted, DocumentedInv, AppliedTells
<1>10. RowsTell'
  BY <1>1, RowsStillTell DEF DocumentedInv
<1>11. QED
  BY <1>1, <1>8, <1>9, <1>10
  DEF DocumentedInv, EpochOnBranch, Unmerged, AppliedTells, PendingTells, repoVars, epochVars, InEpoch

\* A step that leaves branch, index, epoch and window alone.
LEMMA SameTells ==
  ASSUME DocumentedInv, UNCHANGED <<repoVars, index, pc, epochVars, pending, applied, stepped>>
  PROVE  DocumentedInv'
BY DEF DocumentedInv, RowsTell, EpochOnBranch, Unmerged, AppliedTells, PendingTells, repoVars, epochVars

\* The documented loop is one of the loops Spec allows.
LEMMA DocumentedIsAnyLoop ==
  ASSUME IInv, [DocumentedNext]_vars
  PROVE  [Next]_vars
<1>1. pc = "window" => current \in held /\ LoopRuns
  BY DEF IInv, WindowInv, LoopRuns
<1>2. QED
  BY <1>1 DEF DocumentedNext, DocumentedLoop, Next, AnyLoop

LEMMA DocumentedStep ==
  ASSUME IInv, DocumentedInv, [DocumentedNext]_vars
  PROVE  DocumentedInv'
<1>1. CASE StartEpoch
  BY <1>1, StartTells
<1>2. CASE MeasureBaseline \/ Certify
  <2>1. CASE Stop
    BY <1>2, <2>1, LeavingTells DEF MeasureBaseline, Certify, SaveFinalized
  <2>2. CASE ~Stop
    <3>1. /\ index' = index /\ UNCHANGED repoVars /\ baseCommit' = baseCommit
          /\ pc' \in {"append_baseline", "certify", "propose"} /\ pc \in {"baseline"} \cup InEpoch
      BY <1>2, <2>2 DEF MeasureBaseline, Certify, SaveFinalized, InEpoch
    <3>2. QED
      BY <3>1, EarlyStepTells
  <2>3. QED
    BY <2>1, <2>2
<1>3. CASE AppendBaseline
  BY <1>3, AppendBaselineTells
<1>4. CASE ProposeNothing \/ Raise \/ Diagnose \/ Abandon \/ ConcludeRefused \/ Kill
  BY <1>4, LeavingTells DEF ProposeNothing, Raise, Diagnose, Abandon, ConcludeRefused, Kill, storeVars
<1>5. CASE Propose
  BY <1>5, ProposeTells
<1>6. CASE MeasurementFails \/ MeasureCandidate
  BY <1>6, MeasureTells
<1>7. CASE AppendFailed \/ AppendVerdict
  BY <1>7, AppendLaterTells
<1>8. CASE Epochs
  <2>1. pc' = "epoch" /\ index' = index /\ UNCHANGED repoVars
    BY <1>8 DEF Epochs, storeVars
  <2>2. QED
    BY <2>1, RowsStillTell, OutOfEpochTells DEF DocumentedInv
<1>9. CASE Drift
  BY <1>9, DriftTells
<1>10. CASE BumpEpoch \/ backward(current) \/ UNCHANGED vars
  BY <1>10, SameTells DEF BumpEpoch, backward, vars, storeVars, harnessVars, loopVars
<1>11. CASE pc = "window" /\ grad = current /\ ~stepped /\ step
  BY <1>11, StepTells
<1>12. CASE Conclude
  BY <1>12, ConcludeTells
<1>13. QED
  BY <1>1, <1>2, <1>3, <1>4, <1>5, <1>6, <1>7, <1>8, <1>9, <1>10, <1>11, <1>12
  DEF DocumentedNext, DocumentedLoop, Generator, Environment, Resume

\* With the documented loop, loss.backward(); optimizer.step(), a judged candidate is part of
\* HEAD's history exactly if its row says promoted, whoever commits meanwhile and whenever the
\* process dies.
THEOREM HistorySafe == DocumentedSpec => []HistoryAgreesWithIndex
<1>1. Init => IInv /\ DocumentedInv
  <2> SUFFICES ASSUME Init PROVE IInv /\ DocumentedInv
    OBVIOUS
  <2>1. pc = "idle" /\ DOMAIN index = {}
    BY DEF Init
  <2>2. QED
    BY <2>1, InitInvariant
    DEF DocumentedInv, RowsTell, EpochOnBranch, Unmerged, AppliedTells, PendingTells, InEpoch
<1>2. IInv /\ DocumentedInv /\ [DocumentedNext]_vars => IInv' /\ DocumentedInv'
  BY DocumentedIsAnyLoop, NextStep, DocumentedStep
<1>3. DocumentedInv => HistoryAgreesWithIndex
  BY DEF DocumentedInv, RowsTell, HistoryAgreesWithIndex, Rows
<1>4. QED
  BY <1>1, <1>2, <1>3, PTL DEF DocumentedSpec

-----------------------------------------------------------------------------
(* One judgment (module Verdict).                                          *)

\* How an exact tie between runs b and c is settled.
TieSelects(b, c) == secondary_loss(secondary_rewards(b, c)) < 0

\* The sign of one view's loss, without the loss: a regression or a smaller
\* solved set rejects, a larger one selects, a tie falls to the metrics.
LEMMA SelectsCases ==
  ASSUME NEW b, NEW c, NEW S, NEW I,
         IsFiniteSet(S), IsFiniteSet(solved_task_ids(b))
  PROVE  LET B == solved_task_ids(b)
             r == Comparison(b, c, S, I)
         IN /\ (B \ S) \ I # {} => ~Selects(r)
            /\ (B \ S) \ I = {} /\ Cardinality(S) > Cardinality(B) => Selects(r)
            /\ (B \ S) \ I = {} /\ Cardinality(S) < Cardinality(B) => ~Selects(r)
            /\ (B \ S) \ I = {} /\ Cardinality(S) = Cardinality(B)
                 => (Selects(r) <=> TieSelects(b, c))
<1> DEFINE B == solved_task_ids(b)
           r == Comparison(b, c, S, I)
<1>1. /\ Cardinality(S) \in Nat
      /\ Cardinality(B) \in Nat
      /\ Cardinality(Tasks) \in Nat
  BY FS_CardinalityType, TasksAssumption
<1>2. /\ r.baseline_solved = B
      /\ r.candidate_solved = S
      /\ r.regressions = (B \ S) \ I
      /\ r.secondary_rewards =
           IF (B \ S) \ I = {} /\ ~(Cardinality(S) > Cardinality(B))
           THEN secondary_rewards(b, c) ELSE <<>>
  BY DEF Comparison
<1> HIDE DEF B, r
<1>3. CASE (B \ S) \ I # {}
  BY <1>1, <1>2, <1>3 DEF Selects, loss_value, Infinity, LossUnit, B, r
<1>4. CASE (B \ S) \ I = {}
  BY <1>1, <1>2, <1>4 DEF Selects, loss_value, LossUnit, TieSelects, B, r
<1>5. QED
  BY <1>3, <1>4 DEF B, r

\* A smaller finite set inside a larger one.
LEMMA SubsetCardinality ==
  ASSUME NEW S, NEW T, IsFiniteSet(T), S \subseteq T
  PROVE  /\ IsFiniteSet(S)
         /\ Cardinality(S) \in Nat
         /\ Cardinality(T) \in Nat
         /\ Cardinality(S) <= Cardinality(T)
         /\ S # T => Cardinality(S) < Cardinality(T)
  BY FS_Subset, FS_CardinalityType

\* The bracket argument on sets.  C is what the candidate solved, U its
\* untrusted tasks: if the two extreme views have the same sign, the view that
\* is reported and every view in between have that sign too, and a view that
\* selects leaves nothing of the baseline unsolved.
LEMMA BracketArgument ==
  ASSUME NEW b, NEW c, NEW C, NEW U, NEW L \in SUBSET U,
         IsFiniteSet(C), IsFiniteSet(U), IsFiniteSet(solved_task_ids(b)),
         U = {} \/ (Selects(Comparison(b, c, C, {})) <=> Selects(Comparison(b, c, C \cup U, {})))
  PROVE  /\ Selects(Comparison(b, c, C \cup L, {})) <=> Selects(Comparison(b, c, C, U))
         /\ Selects(Comparison(b, c, C, U)) => solved_task_ids(b) \subseteq C
<1> DEFINE B == solved_task_ids(b)
           sel(S, I) == Selects(Comparison(b, c, S, I))
<1>1. /\ IsFiniteSet(C \cup U) /\ IsFiniteSet(C \cup L) /\ IsFiniteSet(B)
      /\ C \subseteq C \cup L /\ C \cup L \subseteq C \cup U
  BY FS_Union, FS_Subset
<1>2. ASSUME NEW S, IsFiniteSet(S), NEW I
      PROVE  /\ (B \ S) \ I # {} => ~sel(S, I)
             /\ (B \ S) \ I = {} /\ Cardinality(S) > Cardinality(B) => sel(S, I)
             /\ (B \ S) \ I = {} /\ Cardinality(S) < Cardinality(B) => ~sel(S, I)
             /\ (B \ S) \ I = {} /\ Cardinality(S) = Cardinality(B)
                  => (sel(S, I) <=> TieSelects(b, c))
  BY <1>2, SelectsCases
<1>3. /\ Cardinality(B) \in Nat /\ Cardinality(C) \in Nat
      /\ Cardinality(C \cup L) \in Nat /\ Cardinality(C \cup U) \in Nat
  BY <1>1, FS_CardinalityType
<1>4. U = {} \/ (sel(C, {}) <=> sel(C \cup U, {}))
  OBVIOUS
<1> HIDE DEF B, sel
<1>5. CASE B \subseteq C
  <2>1. /\ (B \ C) \ U = {} /\ (B \ C) \ {} = {}
        /\ (B \ (C \cup L)) \ {} = {} /\ (B \ (C \cup U)) \ {} = {}
    BY <1>5
  <2>2. sel(C, U) <=> sel(C, {})
    BY <1>2, <1>3, <2>1
  <2>3. CASE C = B
    <3>1. CASE C \cup L = C
      <4>1. sel(C \cup L, {}) <=> sel(C, U)
        BY <2>2, <3>1
      <4> QED BY <4>1, <1>5 DEF B, sel
    <3>2. CASE C \cup L # C
      <4>1. Cardinality(C \cup L) > Cardinality(B) /\ Cardinality(C \cup U) > Cardinality(B)
        <5>1. C \cup U # C
          BY <3>2
        <5>2. /\ Cardinality(C) < Cardinality(C \cup L)
              /\ Cardinality(C) < Cardinality(C \cup U)
          BY <1>1, <3>2, <5>1, SubsetCardinality
        <5> QED BY <5>2, <2>3, <1>3
      <4>2. sel(C \cup L, {}) /\ sel(C \cup U, {})
        BY <1>1, <1>2, <2>1, <4>1
      <4>3. U # {}
        BY <3>2
      <4> QED BY <1>4, <2>2, <4>2, <4>3, <1>5 DEF B, sel
    <3> QED BY <3>1, <3>2
  <2>4. CASE C # B
    <3>1. Cardinality(C) > Cardinality(B)
      BY <1>1, <1>3, <1>5, <2>4, SubsetCardinality
    <3>2. Cardinality(C \cup L) > Cardinality(B)
      <4>1. Cardinality(C) <= Cardinality(C \cup L)
        BY <1>1, SubsetCardinality
      <4> QED BY <3>1, <4>1, <1>3
    <3>3. sel(C, U) /\ sel(C \cup L, {})
      BY <1>1, <1>2, <2>1, <3>1, <3>2
    <3> QED BY <3>3, <1>5 DEF B, sel
  <2> QED BY <2>3, <2>4
<1>6. CASE ~(B \subseteq C)
  <2>1. ~sel(C, {})
    BY <1>2, <1>6
  <2>2. CASE ~(B \subseteq C \cup U)
    <3>1. ~sel(C, U) /\ ~sel(C \cup L, {})
      BY <1>1, <1>2, <2>2
    <3> QED BY <3>1 DEF B, sel
  <2>3. CASE B \subseteq C \cup U
    <3>1. U # {} /\ ~sel(C \cup U, {})
      BY <1>4, <1>6, <2>1, <2>3
    <3>2. C \cup U = B
      <4>1. ~(Cardinality(C \cup U) > Cardinality(B))
        BY <1>1, <1>2, <2>3, <3>1
      <4> QED BY <4>1, <1>1, <1>3, <2>3, SubsetCardinality
    <3>3. ~sel(C, U)
      <4>1. Cardinality(C) < Cardinality(B)
        BY <1>1, <1>6, <3>2, SubsetCardinality
      <4> QED BY <1>2, <4>1, <3>2
    <3>4. ~sel(C \cup L, {})
      <4>1. CASE C \cup L = C \cup U
        BY <3>1, <4>1
      <4>2. CASE C \cup L # C \cup U
        <5>1. (B \ (C \cup L)) \ {} # {}
          BY <1>1, <3>2, <4>2
        <5> QED BY <1>1, <1>2, <5>1
      <4> QED BY <4>1, <4>2
    <3> QED BY <3>3, <3>4 DEF B, sel
  <2> QED BY <2>2, <2>3
<1> QED BY <1>5, <1>6

\* The sets the judgment compares are finite.
LEMMA JudgedSetsFinite ==
  ASSUME JudgmentTypeOK
  PROVE  /\ IsFiniteSet(solved_task_ids(judged(baselineRun, candidateRun)))
         /\ IsFiniteSet(solved_task_ids(candidateRun))
         /\ IsFiniteSet(verdict_sensitive_task_ids(candidateRun))
<1>1. /\ solved_task_ids(judged(baselineRun, candidateRun)) \subseteq Tasks
      /\ solved_task_ids(candidateRun) \subseteq Tasks
      /\ verdict_sensitive_task_ids(candidateRun) \subseteq Tasks
  <2>1. DOMAIN baselineRun = Tasks /\ DOMAIN candidateRun \subseteq Tasks
    BY DEF JudgmentTypeOK
  <2>2. DOMAIN judged(baselineRun, candidateRun) \subseteq Tasks
    BY <2>1 DEF judged, restrict_to_panel
  <2> QED BY <2>1, <2>2 DEF solved_task_ids, verdict_sensitive_task_ids
<1> QED BY <1>1, TasksAssumption, FS_Subset

\* The criterion's state only ever holds completed runs and a final verdict.
THEOREM JudgmentTypeCorrect == JudgmentSpec => []JudgmentTypeOK
<1>1. JudgmentInit => JudgmentTypeOK
  BY DEF JudgmentInit, JudgmentTypeOK
<1>2. JudgmentTypeOK /\ [JudgmentNext]_judgmentVars => JudgmentTypeOK'
  BY DEF JudgmentTypeOK, JudgmentNext, Call, Done, judgmentVars
<1> QED BY <1>1, <1>2, PTL DEF JudgmentSpec

\* A returned Loss means the bracket agreed, in every reachable state.
BracketAgreed == judgment = "loss" => ~unmeasurable(baselineRun, candidateRun)

LEMMA BracketAgreedInvariant == JudgmentSpec => []BracketAgreed
<1>1. JudgmentInit => BracketAgreed
  BY DEF JudgmentInit, BracketAgreed
<1>2. BracketAgreed /\ [JudgmentNext]_judgmentVars => BracketAgreed'
  <2> SUFFICES ASSUME BracketAgreed, [JudgmentNext]_judgmentVars
               PROVE  BracketAgreed'
    OBVIOUS
  <2>1. CASE Call
    BY <2>1 DEF Call, BracketAgreed
  <2>2. CASE UNCHANGED judgmentVars
    BY <2>2 DEF judgmentVars, BracketAgreed
  <2> QED BY <2>1, <2>2 DEF JudgmentNext, Done
<1> QED BY <1>1, <1>2, PTL DEF JudgmentSpec

\* What the bracket argument says of the runs at hand.
LEMMA JudgmentSound ==
  ASSUME JudgmentTypeOK, BracketAgreed, judgment = "loss",
         NEW lucky \in SUBSET verdict_sensitive_task_ids(candidateRun)
  PROVE  /\ Selects(Comparison(judged(baselineRun, candidateRun), candidateRun,
                               solved_task_ids(candidateRun) \cup lucky, {})) <=> Selects(JudgedReport)
         /\ Selects(JudgedReport) =>
              solved_task_ids(judged(baselineRun, candidateRun)) \subseteq solved_task_ids(candidateRun)
<1> DEFINE U == verdict_sensitive_task_ids(candidateRun)
           C == solved_task_ids(candidateRun)
           b == judged(baselineRun, candidateRun)
<1>1. U = {} \/ (Selects(Comparison(b, candidateRun, C, {}))
                  <=> Selects(Comparison(b, candidateRun, C \cup U, {})))
  <2>1. Selects(Comparison(b, candidateRun, C, {})) \in BOOLEAN
        /\ Selects(Comparison(b, candidateRun, C \cup U, {})) \in BOOLEAN
    BY DEF Selects
  <2> QED BY <2>1 DEF BracketAgreed, unmeasurable, pessimistic_report, optimistic_report
<1>2. IsFiniteSet(C) /\ IsFiniteSet(U) /\ IsFiniteSet(solved_task_ids(b))
  BY JudgedSetsFinite
<1>3. JudgedReport = Comparison(b, candidateRun, C, U)
  BY DEF JudgedReport, measured_report
<1> HIDE DEF U, C, b
<1>4. lucky \in SUBSET U
  BY DEF U
<1>5. /\ Selects(Comparison(b, candidateRun, C \cup lucky, {}))
           <=> Selects(Comparison(b, candidateRun, C, U))
      /\ Selects(Comparison(b, candidateRun, C, U)) => solved_task_ids(b) \subseteq C
  BY <1>1, <1>2, <1>4, BracketArgument
<1> QED BY <1>3, <1>5 DEF U, C, b

\* loss.py: "Sensitivity can only invalidate, never promote".  For every panel
\* and pair of runs, a Loss that selects the candidate leaves no task of the
\* baseline's solved set unsolved.
THEOREM SelectionSafe == JudgmentSpec => []SelectionNeverRegresses
<1>1. JudgmentTypeOK /\ BracketAgreed => SelectionNeverRegresses
  <2> SUFFICES ASSUME JudgmentTypeOK, BracketAgreed, judgment = "loss", Selects(JudgedReport)
               PROVE  solved_task_ids(judged(baselineRun, candidateRun))
                        \subseteq solved_task_ids(candidateRun)
    BY DEF SelectionNeverRegresses
  <2>1. {} \in SUBSET verdict_sensitive_task_ids(candidateRun)
    OBVIOUS
  <2> QED BY <2>1, JudgmentSound
<1> QED BY <1>1, JudgmentTypeCorrect, BracketAgreedInvariant, PTL

\* The two extreme views stand for all of them: however the untrusted tasks
\* would have been graded, the sign of a returned Loss is the same.
THEOREM NoiseSafe == JudgmentSpec => []InfraNoiseNeverDecides
<1>1. JudgmentTypeOK /\ BracketAgreed => InfraNoiseNeverDecides
  BY JudgmentSound DEF InfraNoiseNeverDecides
<1> QED BY <1>1, JudgmentTypeCorrect, BracketAgreedInvariant, PTL
-----------------------------------------------------------------------------
(* The reason and the sign of the loss. *)

\* The beginnings of a pair.
LEMMA Prefixes ==
  ASSUME NEW x, NEW y
  PROVE  SubSeq(<<x, y>>, 1, 1) = <<x>> /\ SubSeq(<<x, y>>, 1, 2) = <<x, y>>
<1>0. <<x, y>> \in Seq({x, y})
  OBVIOUS
<1>1. PICK s \in Seq({x, y}) : s = <<x, y>>
  BY <1>0
<1>2. Len(s) = 2 /\ s[1] = x /\ s[2] = y
  BY <1>1
<1>3. SubSeq(s, 1, 2) = s
  BY <1>2, SubSeqFull
<1>4. PICK t : t = SubSeq(s, 1, 1)
  OBVIOUS
<1>5. /\ t \in Seq({x, y}) /\ Len(t) = IF 1 <= 1 THEN 1 - 1 + 1 ELSE 0
      /\ \A i \in 1 .. 1 - 1 + 1 : t[i] = s[1 + i - 1]
  BY <1>2, <1>4, SubSeqProperties
<1>6. t = <<x>>
  BY <1>2, <1>5
<1> QED  BY <1>1, <1>3, <1>4, <1>6

\* The loop of _compare keeps one metric if the first decides, else both.
LEMMA RewardsCases ==
  ASSUME NEW b, NEW c
  PROVE  \E x, y :
           LET R == secondary_rewards(b, c) IN
           \/ x \in {"candidate_better", "baseline_better"} /\ R = <<x>>
           \/ x \notin {"candidate_better", "baseline_better"} /\ R = <<x, y>>
<1>1. PICK x, y : metricOutcomes(b, c) = <<x, y>>
  BY DEF metricOutcomes
<1> DEFINE D == {i \in DOMAIN <<x, y>> : <<x, y>>[i] \in {"candidate_better", "baseline_better"}}
<1>2. secondary_rewards(b, c) = IF D = {} THEN <<x, y>> ELSE SubSeq(<<x, y>>, 1, Min(D))
  BY <1>1, Zenon DEF secondary_rewards
<1>3. DOMAIN <<x, y>> = {1, 2} /\ <<x, y>>[1] = x /\ <<x, y>>[2] = y
  OBVIOUS
<1>4. CASE x \in {"candidate_better", "baseline_better"}
  <2>1. 1 \in D /\ D \subseteq {1, 2}
    BY <1>3, <1>4
  <2>2. Min(D) = 1
    BY <2>1 DEF Min
  <2>3. SubSeq(<<x, y>>, 1, 1) = <<x>>
    BY Prefixes
  <2> QED  BY <1>2, <1>4, <2>1, <2>2, <2>3
<1>5. CASE x \notin {"candidate_better", "baseline_better"}
  <2>1. D = {} \/ D = {2}
    BY <1>3, <1>5
  <2>2. Min({2}) = 2
    BY DEF Min
  <2>3. SubSeq(<<x, y>>, 1, 2) = <<x, y>>
    BY Prefixes
  <2> QED  BY <1>2, <1>5, <2>1, <2>2, <2>3
<1> QED  BY <1>4, <1>5

LEMMA Signs ==
  /\ sign("candidate_better") = -1 /\ sign("baseline_better") = 1
  /\ \A x : x \notin {"candidate_better", "baseline_better"} => sign(x) = 0
<1>1. "candidate_better" # "baseline_better"
  OBVIOUS
<1> QED  BY <1>1, Zenon DEF sign

\* A tie goes to the candidate exactly if a metric says it is better.
LEMMA TieTells ==
  ASSUME NEW b, NEW c
  PROVE  TieSelects(b, c) <=>
           \E i \in DOMAIN secondary_rewards(b, c) : secondary_rewards(b, c)[i] = "candidate_better"
<1>1. PICK x, y :
        \/ x \in {"candidate_better", "baseline_better"} /\ secondary_rewards(b, c) = <<x>>
        \/ x \notin {"candidate_better", "baseline_better"} /\ secondary_rewards(b, c) = <<x, y>>
  BY RewardsCases
<1>2. CASE x \in {"candidate_better", "baseline_better"} /\ secondary_rewards(b, c) = <<x>>
  <2>1. secondary_loss(<<x>>) = 2 * sign(x)
    <3>1. DOMAIN <<x>> = {1} /\ <<x>>[1] = x /\ weight[1] = 2
      BY DEF weight
    <3>2. sign(x) \in Int
      BY <1>2, Signs
    <3> QED  BY <3>1, <3>2 DEF secondary_loss
  <2>2. TieSelects(b, c) <=> x = "candidate_better"
    BY <1>2, <2>1, Signs DEF TieSelects
  <2> QED  BY <1>2, <2>2
<1>3. CASE x \notin {"candidate_better", "baseline_better"} /\ secondary_rewards(b, c) = <<x, y>>
  <2>0. sign(x) = 0 /\ sign(y) \in {-1, 0, 1} /\ (sign(y) = -1 <=> y = "candidate_better")
    BY <1>3, Signs
  <2>1. secondary_loss(<<x, y>>) = sign(y)
    <3>1. /\ DOMAIN <<x, y>> = {1, 2} /\ <<x, y>>[1] = x /\ <<x, y>>[2] = y
          /\ weight[1] = 2 /\ weight[2] = 1
      BY DEF weight
    <3> QED  BY <2>0, <3>1 DEF secondary_loss
  <2>2. TieSelects(b, c) <=> y = "candidate_better"
    BY <1>3, <2>0, <2>1 DEF TieSelects
  <2> QED  BY <1>3, <2>2
<1> QED  BY <1>1, <1>2, <1>3

\* The reason attached to a view, without the CASE.
LEMMA ReasonCases ==
  ASSUME NEW b, NEW c, NEW S, NEW I
  PROVE  LET B == solved_task_ids(b)
             r == Comparison(b, c, S, I)
             improves == reason(r) \in {"strict_improvement_without_regression",
                                        "secondary_reward_improvement"}
         IN /\ (B \ S) \ I # {} => ~improves
            /\ (B \ S) \ I = {} /\ Cardinality(S) > Cardinality(B) => improves
            /\ (B \ S) \ I = {} /\ ~(Cardinality(S) > Cardinality(B)) => (improves <=> TieSelects(b, c))
<1> DEFINE B == solved_task_ids(b)
           r == Comparison(b, c, S, I)
           improves == reason(r) \in {"strict_improvement_without_regression",
                                      "secondary_reward_improvement"}
           larger == Cardinality(S) > Cardinality(B)
<1>1. /\ r.baseline_solved = B /\ r.candidate_solved = S /\ r.regressions = (B \ S) \ I
      /\ r.secondary_rewards = IF (B \ S) \ I = {} /\ ~larger THEN secondary_rewards(b, c) ELSE <<>>
  BY DEF Comparison
<1> HIDE DEF B, r
<1>2. CASE (B \ S) \ I # {}
  <2>1. reason(r) = "regressed_baseline_tasks"
    BY <1>1, <1>2, Zenon DEF reason
  <2> QED  BY <1>2, <2>1 DEF B, r
<1>3. CASE (B \ S) \ I = {} /\ larger
  <2>1. reason(r) = "strict_improvement_without_regression"
    BY <1>1, <1>3, Zenon DEF reason
  <2> QED  BY <1>3, <2>1 DEF B, r
<1>4. CASE (B \ S) \ I = {} /\ ~larger
  <2>1. r.secondary_rewards = secondary_rewards(b, c)
    BY <1>1, <1>4
  <2>2. reason(r) = IF \E i \in DOMAIN secondary_rewards(b, c) :
                         secondary_rewards(b, c)[i] = "candidate_better"
                    THEN "secondary_reward_improvement" ELSE "no_net_improvement"
    BY <1>1, <1>4, <2>1, Zenon DEF reason
  <2>3. improves <=> TieSelects(b, c)
    BY <2>2, TieTells
  <2> QED  BY <1>4, <2>3 DEF B, r
<1> QED  BY <1>2, <1>3, <1>4 DEF B, r

\* The reported view is neither of the two that were compared: if it is smaller than the
\* baseline without a regression, the optimistic one ties, and the tie does not select.
LEMMA ReasonArgument ==
  ASSUME NEW b, NEW c, NEW C, NEW U,
         IsFiniteSet(C), IsFiniteSet(U), IsFiniteSet(solved_task_ids(b)),
         U = {} \/ (Selects(Comparison(b, c, C, {})) <=> Selects(Comparison(b, c, C \cup U, {})))
  PROVE  Selects(Comparison(b, c, C, U)) <=>
           reason(Comparison(b, c, C, U)) \in {"strict_improvement_without_regression",
                                               "secondary_reward_improvement"}
<1> DEFINE B == solved_task_ids(b)
           sel(S, I) == Selects(Comparison(b, c, S, I))
           improves == reason(Comparison(b, c, C, U))
                         \in {"strict_improvement_without_regression", "secondary_reward_improvement"}
<1>1. IsFiniteSet(C \cup U) /\ IsFiniteSet(B)
  BY FS_Union
<1>2. /\ (B \ C) \ U # {} => ~sel(C, U)
      /\ (B \ C) \ U = {} /\ Cardinality(C) > Cardinality(B) => sel(C, U)
      /\ (B \ C) \ U = {} /\ Cardinality(C) < Cardinality(B) => ~sel(C, U)
      /\ (B \ C) \ U = {} /\ Cardinality(C) = Cardinality(B) => (sel(C, U) <=> TieSelects(b, c))
  BY <1>1, SelectsCases
<1>3. /\ (B \ (C \cup U)) \ {} = {} /\ Cardinality(C \cup U) > Cardinality(B) => sel(C \cup U, {})
      /\ (B \ (C \cup U)) \ {} = {} /\ Cardinality(C \cup U) = Cardinality(B)
           => (sel(C \cup U, {}) <=> TieSelects(b, c))
  BY <1>1, SelectsCases
<1>4. /\ (B \ C) \ U # {} => ~improves
      /\ (B \ C) \ U = {} /\ Cardinality(C) > Cardinality(B) => improves
      /\ (B \ C) \ U = {} /\ ~(Cardinality(C) > Cardinality(B)) => (improves <=> TieSelects(b, c))
  BY ReasonCases
<1>5. sel(C \cup U, {}) <=> sel(C, U)
  <2>1. U \in SUBSET U
    OBVIOUS
  <2> QED  BY <2>1, BracketArgument
<1>6. /\ Cardinality(B) \in Nat /\ Cardinality(C) \in Nat /\ Cardinality(C \cup U) \in Nat
  BY <1>1, FS_CardinalityType
<1> HIDE DEF B, sel, improves
<1>7. CASE (B \ C) \ U = {} /\ Cardinality(C) < Cardinality(B)
  <2>1. B \subseteq C \cup U /\ (B \ (C \cup U)) \ {} = {}
    BY <1>7
  <2>2. Cardinality(B) <= Cardinality(C \cup U)
    BY <1>1, <2>1, SubsetCardinality
  <2>3. ~sel(C \cup U, {})
    BY <1>2, <1>5, <1>7
  <2>4. ~TieSelects(b, c)
    BY <1>3, <1>6, <2>1, <2>2, <2>3
  <2>5. ~sel(C, U) /\ ~improves
    BY <1>2, <1>4, <1>6, <1>7, <2>4
  <2> QED  BY <2>5 DEF sel, improves
<1>8. CASE ~((B \ C) \ U = {} /\ Cardinality(C) < Cardinality(B))
  <2>1. sel(C, U) <=> improves
    BY <1>2, <1>4, <1>6, <1>8
  <2> QED  BY <2>1 DEF sel, improves
<1> QED  BY <1>7, <1>8

\* If the extreme views differ, it is the optimistic one that selects, and then every
\* task the candidate seems to have lost is an untrusted one.
LEMMA UnmeasurableArgument ==
  ASSUME NEW b, NEW c, NEW C, NEW U,
         IsFiniteSet(C), IsFiniteSet(U), IsFiniteSet(solved_task_ids(b)),
         ~(Selects(Comparison(b, c, C, {})) <=> Selects(Comparison(b, c, C \cup U, {})))
  PROVE  /\ Selects(Comparison(b, c, C \cup U, {}))
         /\ ~Selects(Comparison(b, c, C, {}))
         /\ (solved_task_ids(b) \ C) \ U = {}
<1> DEFINE B == solved_task_ids(b)
           sel(S, I) == Selects(Comparison(b, c, S, I))
<1>1. IsFiniteSet(C \cup U) /\ IsFiniteSet(B)
  BY FS_Union
<1>2. ASSUME NEW S, IsFiniteSet(S)
      PROVE  /\ ~(B \subseteq S) => ~sel(S, {})
             /\ B \subseteq S /\ Cardinality(S) > Cardinality(B) => sel(S, {})
             /\ B \subseteq S /\ Cardinality(S) = Cardinality(B) => (sel(S, {}) <=> TieSelects(b, c))
  <2>1. (B \ S) \ {} = {} <=> B \subseteq S
    OBVIOUS
  <2> QED  BY <1>1, <1>2, <2>1, SelectsCases
<1>3. ~(sel(C, {}) <=> sel(C \cup U, {}))
  OBVIOUS
<1>4. Cardinality(B) \in Nat /\ Cardinality(C) \in Nat /\ Cardinality(C \cup U) \in Nat
  BY <1>1, FS_CardinalityType
<1> HIDE DEF B, sel
<1>5. ~sel(C, {})
  <2> SUFFICES ASSUME sel(C, {}) PROVE FALSE
    OBVIOUS
  <2>1. B \subseteq C /\ ~sel(C \cup U, {})
    BY <1>2, <1>3
  <2>2. Cardinality(B) <= Cardinality(C) /\ Cardinality(C) <= Cardinality(C \cup U)
    BY <1>1, <2>1, SubsetCardinality
  <2>3. B \subseteq C \cup U
    BY <2>1
  <2>4. Cardinality(C \cup U) = Cardinality(B) /\ ~TieSelects(b, c)
    BY <1>1, <1>2, <1>4, <2>1, <2>2, <2>3
  <2>5. Cardinality(C) = Cardinality(B)
    BY <1>4, <2>2, <2>4
  <2> QED  BY <1>2, <2>1, <2>4, <2>5
<1>6. sel(C \cup U, {})
  BY <1>3, <1>5
<1>7. B \subseteq C \cup U
  BY <1>1, <1>2, <1>6
<1> QED  BY <1>5, <1>6, <1>7 DEF B, sel

\* An UnmeasurableRun means the bracket did not agree, in every reachable state.
BracketDiffers == judgment = "unmeasurable" => unmeasurable(baselineRun, candidateRun)

LEMMA BracketDiffersInvariant == JudgmentSpec => []BracketDiffers
<1>1. JudgmentInit => BracketDiffers
  BY DEF JudgmentInit, BracketDiffers
<1>2. BracketDiffers /\ [JudgmentNext]_judgmentVars => BracketDiffers'
  <2> SUFFICES ASSUME BracketDiffers, [JudgmentNext]_judgmentVars
               PROVE  BracketDiffers'
    OBVIOUS
  <2>1. CASE Call
    BY <2>1 DEF Call, BracketDiffers
  <2>2. CASE UNCHANGED judgmentVars
    BY <2>2 DEF judgmentVars, BracketDiffers
  <2> QED BY <2>1, <2>2 DEF JudgmentNext, Done
<1> QED BY <1>1, <1>2, PTL DEF JudgmentSpec

\* For every panel and pair of runs: the reason recorded with a Loss tells its sign, though
\* _compare and _loss_value derive them separately and from a view whose sign was not
\* compared; an UnmeasurableRun is raised only where the untrusted tasks alone stand between
\* the candidate and its promotion; and a judgment leaves the two runs as they were.
THEOREM DecisionsSafe == JudgmentSpec => []DecisionsAreTrue
<1>1. JudgmentTypeOK /\ BracketAgreed => ReasonTellsTheLoss
  <2> SUFFICES ASSUME JudgmentTypeOK, BracketAgreed, judgment = "loss"
               PROVE  Selects(JudgedReport) <=>
                        reason(JudgedReport) \in {"strict_improvement_without_regression",
                                                  "secondary_reward_improvement"}
    BY DEF ReasonTellsTheLoss
  <2> DEFINE U == verdict_sensitive_task_ids(candidateRun)
             C == solved_task_ids(candidateRun)
             b == judged(baselineRun, candidateRun)
  <2>1. U = {} \/ (Selects(Comparison(b, candidateRun, C, {}))
                    <=> Selects(Comparison(b, candidateRun, C \cup U, {})))
    <3>1. Selects(Comparison(b, candidateRun, C, {})) \in BOOLEAN
          /\ Selects(Comparison(b, candidateRun, C \cup U, {})) \in BOOLEAN
      BY DEF Selects
    <3> QED BY <3>1 DEF BracketAgreed, unmeasurable, pessimistic_report, optimistic_report
  <2>2. IsFiniteSet(C) /\ IsFiniteSet(U) /\ IsFiniteSet(solved_task_ids(b))
    BY JudgedSetsFinite
  <2>3. JudgedReport = Comparison(b, candidateRun, C, U)
    BY DEF JudgedReport, measured_report
  <2> HIDE DEF U, C, b
  <2> QED  BY <2>1, <2>2, <2>3, ReasonArgument
<1>2. JudgmentTypeOK /\ BracketDiffers => UnmeasurableHangsOnInfra
  <2> SUFFICES ASSUME JudgmentTypeOK, BracketDiffers, judgment = "unmeasurable"
               PROVE  /\ Selects(optimistic_report(baselineRun, candidateRun))
                      /\ ~Selects(pessimistic_report(baselineRun, candidateRun))
                      /\ unmeasurable_decision(baselineRun, candidateRun).regressions = {}
    BY DEF UnmeasurableHangsOnInfra
  <2> DEFINE U == verdict_sensitive_task_ids(candidateRun)
             C == solved_task_ids(candidateRun)
             b == judged(baselineRun, candidateRun)
  <2>1. ~(Selects(Comparison(b, candidateRun, C, {}))
            <=> Selects(Comparison(b, candidateRun, C \cup U, {})))
    <3>1. Selects(Comparison(b, candidateRun, C, {})) \in BOOLEAN
          /\ Selects(Comparison(b, candidateRun, C \cup U, {})) \in BOOLEAN
      BY DEF Selects
    <3> QED BY <3>1 DEF BracketDiffers, unmeasurable, pessimistic_report, optimistic_report
  <2>2. IsFiniteSet(C) /\ IsFiniteSet(U) /\ IsFiniteSet(solved_task_ids(b))
    BY JudgedSetsFinite
  <2>3. /\ optimistic_report(baselineRun, candidateRun) = Comparison(b, candidateRun, C \cup U, {})
        /\ pessimistic_report(baselineRun, candidateRun) = Comparison(b, candidateRun, C, {})
    BY DEF optimistic_report, pessimistic_report
  <2>4. Comparison(b, candidateRun, C, {}).regressions = (solved_task_ids(b) \ C) \ {}
    BY DEF Comparison
  <2>5. unmeasurable_decision(baselineRun, candidateRun).regressions =
          Comparison(b, candidateRun, C, {}).regressions \ U
    BY <2>3 DEF unmeasurable_decision, decision_from_report
  <2> HIDE DEF U, C, b
  <2>6. /\ Selects(Comparison(b, candidateRun, C \cup U, {}))
        /\ ~Selects(Comparison(b, candidateRun, C, {}))
        /\ (solved_task_ids(b) \ C) \ U = {}
    BY <2>1, <2>2, UnmeasurableArgument
  <2> QED  BY <2>3, <2>4, <2>5, <2>6
<1> QED
  BY <1>1, <1>2, JudgmentTypeCorrect, BracketAgreedInvariant, BracketDiffersInvariant, PTL
     DEF DecisionsAreTrue
=============================================================================
