------------------------------- MODULE Replay -------------------------------
(***************************************************************************)
(* Certified replay of one task: the recorded step cache                   *)
(* (src/plugins/replay/step_cache.py) over the fail-open, first-write-wins *)
(* store (src/plugins/caching/store.py), the replay scope and its epoch    *)
(* (contract.py, bump_epoch.py), the live-only retry after a drift         *)
(* (src/rollout/sampler.py), the chain a rollout leaves behind             *)
(* (src/rollout/certification.py) and its audit (audit.py).                *)
(*                                                                         *)
(* The host-wide task lock makes the rollouts of a task sequential.  An    *)
(* output stands for a step result as scrubbed_hash sees it, a grader's for *)
(* its verdict_summary.                                                    *)
(***************************************************************************)
EXTENDS Integers, Sequences, SequencesExt

CONSTANTS
  RunActions,   \* the commands a policy may issue
  Flaky,        \* actions, Verify perhaps among them, whose output varies between environments
  Delicate,     \* commands that may background a process or come near their time limit
  MaxSteps,     \* bound: run actions of a rollout
  MaxRuns,      \* bound: experiments
  MaxTroubles   \* bound: epoch bumps, store operations that fail or are late, slow models

Verify == "verify"
Actions == RunActions \cup {Verify}

ASSUME ReplayAssumption ==
  /\ Verify \notin RunActions
  /\ Flaky \subseteq Actions /\ Delicate \subseteq RunActions
  /\ {MaxSteps, MaxRuns, MaxTroubles} \subseteq Nat

VARIABLES
  content,  \* the task has a content id; one without is live-only
  store,    \* rows [key, out] of the cache table
  late,     \* rows whose writer thread outlived the attempt that issued the write
  blocked,  \* keys with a live-only marker
  epoch,    \* the namespace's counter
  run,      \* the experiment: identity, retry state
  at,       \* the attempt under way
  chain,    \* determinism_chain.jsonl of the experiment's rollout
  prior,    \* the last certified baseline, whose certificates a later one inherits
  faults,   \* store operations that failed open, or landed after their attempt
  slow,     \* retries after a slow model
  worlds,   \* history: what the environments of replaying attempts showed, by scope
  drifted   \* history: the keys a rollout drifted at

vars == <<content, store, late, blocked, epoch, run, at, chain, prior, faults, slow, worlds,
          drifted>>

Output == {0, 1}
Outputs(a) == IF a \in Flaky THEN Output ELSE {0}

Event == [act: Actions, out: Output]

\* A row of a chain: an event, or the action the deadline cut, which has no output.
Cut == 2
Row == [act: Actions, out: Output \cup {Cut}]
Acts(events) == [i \in DOMAIN events |-> events[i].act]

\* The regime of an environment: the pinned snapshot's epoch, or none.
Unpinned == -1
Epochs == 0..MaxTroubles
Key == [epoch: Epochs, acts: Seq(Actions)]

IdleRun == [pc |-> "idle", no |-> 0, identity |-> 0, driftRetried |-> FALSE,
            slowRetried |-> FALSE, drifts |-> 0]
NoChain == [events |-> <<>>, timedOut |-> FALSE, regime |-> Unpinned, recorded |-> FALSE]
NoPrior == [verdict |-> "none", inherited |-> FALSE, identity |-> Unpinned,
            events |-> <<>>, audited |-> <<>>, recorded |-> FALSE]

\* Where an attempt stands: the executor's flags, the actions asked (the last one may be
\* pending), what the policy saw and what its own environment showed.
NoAttempt == [pc |-> "none", replay |-> FALSE, epoch |-> Unpinned, asked |-> <<>>,
              seen |-> <<>>, world |-> <<>>, live |-> FALSE, recordable |-> FALSE]

TypeOK ==
  /\ content \in BOOLEAN
  /\ \A row \in store \cup late : row.key \in Key /\ row.out \in Output
  /\ blocked \subseteq Key
  /\ epoch \in Epochs
  /\ run \in [pc: {"idle", "rollout", "ended", "failed"}, no: 0..MaxRuns, identity: Epochs,
              driftRetried: BOOLEAN, slowRetried: BOOLEAN, drifts: 0..1]
  /\ at.pc \in {"none", "ready", "catchup", "execute", "put"}
  /\ at.seen \in Seq(Event) /\ at.world \in Seq(Event) /\ at.asked \in Seq(Actions)
  /\ chain.events \in Seq(Row) /\ chain.regime \in Epochs \cup {Unpinned}
  /\ prior.verdict \in {"none", "deterministic", "forked", "no_chain"}
  /\ {faults, slow} \subseteq 0..MaxTroubles

Init ==
  /\ content \in BOOLEAN
  /\ store = {} /\ late = {} /\ blocked = {} /\ epoch = 0
  /\ run = IdleRun
  /\ at = NoAttempt /\ chain = NoChain /\ prior = NoPrior
  /\ faults = 0 /\ slow = 0 /\ worlds = {} /\ drifted = {}

-----------------------------------------------------------------------------
(* The store.  A value operation may fail open: a read as a miss, a write  *)
(* dropped.                                                                *)

Stored(key) == \E row \in store : row.key = key
Value(key) == (CHOOSE row \in store : row.key = key).out

Calm == epoch + faults + slow < MaxTroubles
Fault == Calm /\ faults' = faults + 1

\* INSERT OR IGNORE
Inserted(key, out) == IF Stored(key) THEN store ELSE store \cup {[key |-> key, out |-> out]}

\* Cancelling the await of a put does not stop the pool's thread: its insert may land while
\* another attempt, of this process or another, is under way, or never.
LatePut ==
  /\ Fault
  /\ \E row \in late : store' = Inserted(row.key, row.out) /\ late' = late \ {row}
  /\ UNCHANGED <<content, blocked, epoch, run, at, chain, prior, slow, worlds, drifted>>

\* bump_epoch: the operator's lever, at any moment.
BumpEpoch ==
  /\ Calm
  /\ epoch' = epoch + 1
  /\ UNCHANGED <<content, store, late, blocked, run, at, chain, prior, faults, slow, worlds, drifted>>

-----------------------------------------------------------------------------
(* An experiment and the attempts of its rollout.                          *)

\* resolve_measurement_identity reads the scope before any attempt does.
StartRun ==
  /\ run.pc = "idle" /\ run.no < MaxRuns
  /\ run' = [IdleRun EXCEPT !.pc = "rollout", !.no = run.no + 1, !.identity = epoch]
  /\ UNCHANGED <<content, store, late, blocked, epoch, at, chain, prior, faults, slow, worlds, drifted>>

\* Slip: keys are seeded with the namespace alone.
Unscoped(acts) == [epoch |-> 0, acts |-> acts]

\* canonical_scope seeds the digest of a chain.
Scoped(acts) == [epoch |-> at.epoch, acts |-> acts]

\* _advance
Prefix(n) == Scoped(SubSeq(at.asked, 1, n))
KeyNow == Scoped(at.asked)

\* Slip: the retry after a drift replays again.
AlwaysReplay == [NoAttempt EXCEPT !.pc = "ready", !.replay = content, !.recordable = content,
                                  !.epoch = IF content THEN epoch ELSE Unpinned,
                                  !.live = ~content]

\* step_executor: force_live, or no content id, gives the live executor on an environment
\* that no snapshot was pinned on.
Executor ==
  LET replay == content /\ ~run.driftRetried
  IN  [NoAttempt EXCEPT !.pc = "ready", !.replay = replay, !.recordable = replay,
                        !.epoch = IF replay THEN epoch ELSE Unpinned,
                        !.live = ~replay]

StartAttempt ==
  /\ run.pc = "rollout" /\ at.pc = "none"
  /\ at' = Executor
  /\ UNCHANGED <<content, store, late, blocked, epoch, run, chain, prior, faults, slow, worlds, drifted>>

\* The next action of the policy: a command, or its submission.
Asks(a) ==
  /\ at.pc = "ready" /\ Verify \notin ToSet(at.asked)
  /\ a # Verify => Len(at.asked) < MaxSteps

Asked(a) == Scoped(Append(at.asked, a))

\* An action of an executor that is live already.
AskLive(a) ==
  /\ Asks(a) /\ at.live
  /\ at' = [at EXCEPT !.asked = Append(@, a), !.pc = "execute"]
  /\ UNCHANGED <<content, store, late, blocked, epoch, run, chain, prior, faults, slow, worlds, drifted>>

\* Slip: a submission is never served.
ServedRun(a) == a # Verify /\ Asked(a) \notin blocked /\ Stored(Asked(a))

\* _serve_replay: a recording that no marker guards.
Served(a) == Asked(a) \notin blocked /\ Stored(Asked(a))

Recorded(a) == [act |-> a, out |-> Value(Asked(a))]

\* step_run and prepare_submit on a recorded key.
Serve(a) ==
  /\ Asks(a) /\ ~at.live /\ Served(a)
  /\ at' = [at EXCEPT !.asked = Append(@, a), !.seen = Append(@, Recorded(a))]
  /\ UNCHANGED <<content, store, late, blocked, epoch, run, chain, prior, faults, slow, worlds, drifted>>

\* _go_live: a miss, or the marker, which also ends the recording.
Miss(a) ==
  /\ Asks(a) /\ ~at.live /\ ~Served(a)
  /\ at' = [at EXCEPT !.asked = Append(@, a), !.live = TRUE, !.pc = "catchup",
                      !.recordable = Asked(a) \notin blocked]
  /\ UNCHANGED <<content, store, late, blocked, epoch, run, chain, prior, faults, slow, worlds, drifted>>

\* A read fails open: of the recording, or of the marker that guards it.
ReadFails(a) ==
  /\ Asks(a) /\ ~at.live /\ Stored(Asked(a)) /\ Fault
  /\ at' = IF Asked(a) \in blocked
           THEN [at EXCEPT !.asked = Append(@, a), !.seen = Append(@, Recorded(a))]
           ELSE [at EXCEPT !.asked = Append(@, a), !.live = TRUE, !.pc = "catchup"]
  /\ UNCHANGED <<content, store, late, blocked, epoch, run, chain, prior, slow, worlds, drifted>>

-----------------------------------------------------------------------------
(* Live work: catch-up, the step itself, its recording.                    *)

\* What an environment shows next is the environment's choice.
Shows(a, out) == out \in Outputs(a)

\* The history keeps the longest traces only.
Covers(long, short) == long.epoch = short.epoch /\ IsPrefix(short.events, long.events)
Known(shown) == \E old \in worlds : Covers(old, shown)

\* The rows of an attempt; the action that the deadline cut is the last one.
Rows(timedOut) ==
  IF timedOut THEN Append(at.seen, [act |-> Last(at.asked), out |-> Cut]) ELSE at.seen

\* The attempt is over; write_chain replaces what an earlier attempt wrote.
EndAttempt(world, timedOut) ==
  /\ at' = NoAttempt
  /\ chain' = [events |-> Rows(timedOut), timedOut |-> timedOut, regime |-> at.epoch,
               recorded |-> at.recordable]
  /\ worlds' = LET shown == [epoch |-> at.epoch, events |-> world]
               IN  IF at.replay /\ ~Known(shown)
                   THEN {old \in worlds : ~Covers(shown, old)} \cup {shown}
                   ELSE worlds

\* Slip: a mismatch is not looked for.
CatchUpUnchecked ==
  /\ at.pc = "catchup" /\ Len(at.world) < Len(at.seen)
  /\ LET due == at.seen[Len(at.world) + 1]
     IN  \E out \in Outputs(due.act) :
           at' = [at EXCEPT !.world = Append(@, [due EXCEPT !.out = out])]
  /\ UNCHANGED <<content, store, late, blocked, epoch, run, chain, prior, faults, slow, worlds, drifted>>

\* _materialize: one replayed action again, its output compared.
CatchUp ==
  /\ at.pc = "catchup" /\ Len(at.world) < Len(at.seen)
  /\ LET due == at.seen[Len(at.world) + 1]
     IN  Shows(due.act, due.out) /\ at' = [at EXCEPT !.world = Append(@, due)]
  /\ UNCHANGED <<content, store, late, blocked, epoch, run, chain, prior, faults, slow, worlds, drifted>>

CaughtUp ==
  /\ at.pc = "catchup" /\ Len(at.world) = Len(at.seen)
  /\ at' = [at EXCEPT !.pc = "execute"]
  /\ UNCHANGED <<content, store, late, blocked, epoch, run, chain, prior, faults, slow, worlds, drifted>>

\* Slip: the marker goes to the action that was missed, not to the one that drifted.
MarkedAtMiss(n) == KeyNow

\* _blocked_key: the marker goes to the action that drifted.
Marked(n) == Prefix(n)

\* A mismatch: the marker is written, unless that write is dropped.  The
\* ExecutionDriftError makes the sampler retry live-only; when the recorded payload, read
\* again for its diagnostic, cannot be had, the RuntimeError fails the run instead.
Drift ==
  /\ at.pc = "catchup" /\ Len(at.world) < Len(at.seen)
  /\ LET due == at.seen[Len(at.world) + 1]
         n == Len(at.world) + 1
         retried == [run EXCEPT !.driftRetried = TRUE, !.drifts = @ + 1]
         marked == blocked \cup {Marked(n)}
     IN  \E out \in Outputs(due.act) \ {due.out} :
           /\ EndAttempt(Append(at.world, [due EXCEPT !.out = out]), FALSE)
           /\ drifted' = drifted \cup {Prefix(n)}
           /\ \/ blocked' = marked /\ run' = retried /\ UNCHANGED faults
              \/ Fault /\ run' = retried /\ UNCHANGED blocked
              \/ Fault /\ run' = [run EXCEPT !.pc = "failed"] /\ blocked' = marked
  /\ UNCHANGED <<content, store, late, epoch, prior, slow>>

\* Slip: only this step goes unrecorded.
SkipOnlyThis(skip) == at.recordable

\* _record_run: after a step that was skipped nothing of the chain is recorded.
StillRecordable(skip) == at.recordable /\ ~skip

\* _skip_recording_reason: of a command, and of how long it took.
Skips(a) == IF a \in Delicate THEN BOOLEAN ELSE {FALSE}

\* execute_env_action.  Only a result that may be recorded goes on to the store.
Execute ==
  /\ at.pc = "execute"
  /\ \E out \in Outputs(Last(at.asked)), skip \in Skips(Last(at.asked)) :
       LET event == [act |-> Last(at.asked), out |-> out]
           shown == [at EXCEPT !.world = Append(@, event),
                               !.recordable = StillRecordable(skip)]
       IN  at' = IF at.recordable /\ ~skip
                 THEN [shown EXCEPT !.pc = "put"]
                 ELSE [shown EXCEPT !.pc = "ready", !.seen = Append(@, event)]
  /\ UNCHANGED <<content, store, late, blocked, epoch, run, chain, prior, faults, slow, worlds, drifted>>

\* cache.put, then the result is the policy's to see.
Put ==
  /\ at.pc = "put"
  /\ \/ store' = Inserted(KeyNow, Last(at.world).out) /\ UNCHANGED faults
     \/ Fault /\ UNCHANGED store
  /\ at' = [at EXCEPT !.pc = "ready", !.seen = Append(@, Last(at.world))]
  /\ UNCHANGED <<content, late, blocked, epoch, run, chain, prior, slow, worlds, drifted>>

\* An attempt ends with a put under way: the insert has landed, was never begun, or goes on
\* in its thread.
LeavesPut ==
  \/ UNCHANGED <<store, late>>
  \/ at.pc = "put" /\ store' = Inserted(KeyNow, Last(at.world).out) /\ UNCHANGED late
  \/ /\ at.pc = "put"
     /\ late' = late \cup {[key |-> KeyNow, out |-> Last(at.world).out]}
     /\ UNCHANGED store

\* The catch-up of a submission is timed by the agent deadline outside the step: no row.
Preparing == at.pc = "catchup" /\ Last(at.asked) = Verify

\* A budget runs out in the middle of an action.
TimeOut ==
  /\ at.pc \in {"catchup", "execute", "put"}
  /\ EndAttempt(at.world, ~Preparing)
  /\ LeavesPut
  /\ run' = [run EXCEPT !.pc = "ended"]
  /\ UNCHANGED <<content, blocked, epoch, prior, faults, slow, drifted>>

\* The policy stops, was graded, or the agent deadline passes during a model call.
Stop ==
  /\ at.pc = "ready"
  /\ EndAttempt(at.world, FALSE)
  /\ run' = [run EXCEPT !.pc = "ended"]
  /\ UNCHANGED <<content, store, late, blocked, epoch, prior, faults, slow, drifted>>

\* _slow_llm_timeout_retry: hit_timeout, once; a grader that timed out is not one.
SlowModel ==
  /\ at.pc # "none" /\ (Verify \notin ToSet(at.asked) \/ Preparing)
  /\ ~run.slowRetried /\ Calm
  /\ slow' = slow + 1
  /\ EndAttempt(at.world, at.pc # "ready" /\ ~Preparing)
  /\ LeavesPut
  /\ run' = [run EXCEPT !.slowRetried = TRUE]
  /\ UNCHANGED <<content, blocked, epoch, prior, faults, drifted>>

-----------------------------------------------------------------------------
(* exclude_nondeterministic_tasks on the experiment as a baseline.         *)

\* The audit, too, applies the scope it resolves now.
AuditRegime == IF content THEN epoch ELSE Unpinned

\* What a later baseline may inherit: the verdict, with what was re-executed for it.
Certified(verdict) ==
  [verdict |-> verdict, inherited |-> FALSE, identity |-> run.identity,
   events |-> chain.events, audited |-> chain.events,
   recorded |-> chain.recorded /\ chain.regime = run.identity]

\* Back to the trainer.
Over == run' = [IdleRun EXCEPT !.no = run.no] /\ chain' = NoChain

\* Same measurement identity, same chain digest (of the actions of all rows, one that timed
\* out included), and the new chain did not time out; whether the old one did is not asked.
Inheritable ==
  /\ prior.verdict # "none" /\ prior.identity = run.identity
  /\ ~chain.timedOut /\ Acts(chain.events) = Acts(prior.events)

Inherit ==
  /\ run.pc = "ended" /\ Inheritable
  /\ prior' = [prior EXCEPT !.inherited = TRUE, !.events = chain.events,
                 !.recorded = @ /\ chain.recorded /\ chain.regime = run.identity]
  /\ Over
  /\ UNCHANGED <<content, store, late, blocked, epoch, at, faults, slow, worlds, drifted>>

\* "A timed-out chain is not replayable, even by truncating it."
NothingToAudit ==
  /\ run.pc = "ended" /\ ~Inheritable /\ chain.timedOut
  /\ prior' = Certified("no_chain")
  /\ Over
  /\ UNCHANGED <<content, store, late, blocked, epoch, at, faults, slow, worlds, drifted>>

\* _check_task: the rows again in a fresh environment, up to the first mismatch.
Audit ==
  /\ run.pc = "ended" /\ ~Inheritable /\ ~chain.timedOut
  /\ \E shown \in [DOMAIN chain.events -> Output] :
       /\ \A i \in DOMAIN shown : Shows(chain.events[i].act, shown[i])
       /\ prior' = Certified(IF \A i \in DOMAIN shown : shown[i] = chain.events[i].out
                             THEN "deterministic" ELSE "forked")
  /\ Over
  /\ UNCHANGED <<content, store, late, blocked, epoch, at, faults, slow, worlds, drifted>>

\* A candidate's run is not certified, nor one that failed.
Discard ==
  /\ run.pc \in {"ended", "failed"}
  /\ Over
  /\ UNCHANGED <<content, store, late, blocked, epoch, at, prior, faults, slow, worlds, drifted>>

-----------------------------------------------------------------------------
Next ==
  \/ BumpEpoch \/ LatePut \/ StartRun \/ StartAttempt
  \/ \E a \in Actions : AskLive(a) \/ Serve(a) \/ Miss(a) \/ ReadFails(a)
  \/ CatchUp \/ CaughtUp \/ Drift \/ Execute \/ Put \/ TimeOut \/ Stop \/ SlowModel
  \/ Inherit \/ NothingToAudit \/ Audit \/ Discard

Spec == Init /\ [][Next]_vars

-----------------------------------------------------------------------------
(* Properties.                                                             *)

Own == [epoch |-> at.epoch, events |-> at.world]

\* At every moment the policy has seen a prefix of what one environment of the rollout's
\* own scope really showed, though its steps were recorded by several rollouts in
\* several environments ("a world that was never real"); as long as no store operation
\* failed, or outlived its attempt and landed during another.
SeenByOneEnvironment ==
  faults = 0 =>
    \E world \in worlds \cup {Own} : Covers(world, [Own EXCEPT !.events = at.seen])

\* Once a rollout has caught up, everything it saw, replayed or live, is what its own
\* environment showed, the one it will be graded in; whatever the store did.
LiveRolloutSeesItsOwnEnvironment ==
  at.live /\ at.pc \in {"ready", "execute"} => at.seen = at.world

\* A recording never starts in the middle: behind a step that was not recorded (blocked,
\* backgrounding, out of time) nothing of the chain is recorded either.
RecordedChainsHaveNoGaps ==
  faults = 0 =>
    \A row \in store : \A n \in 1..Len(row.key.acts) :
      Stored([row.key EXCEPT !.acts = SubSeq(@, 1, n)])

\* Replay shows what was: as long as no store operation fails or outlives its attempt, one
\* environment really showed all a policy sees, and no recorded chain has a gap another
\* rollout could fill.
ReplayIsReal ==
  /\ TypeOK
  /\ SeenByOneEnvironment
  /\ RecordedChainsHaveNoGaps

\* A step that drifted is never replayed again, so no later rollout drifts on it, unless
\* the store lost the marker.
NoStepDriftsTwice ==
  [][run'.drifts > run.drifts /\ faults' = 0 => drifted' # drifted]_vars

\* Inheriting a certificate compares actions only, yet an audit's verdict speaks of outputs:
\* when both baselines recorded their chains under the scope of their identity, the later
\* one's outputs are the ones that were audited.  (no_chain is no audit's verdict: see
\* NoChainMeansNoChain.)
InheritedCertificatesCoverOutputs ==
  prior.verdict \in {"deterministic", "forked"} /\ prior.inherited /\ prior.recorded
    /\ faults = 0 => prior.events = prior.audited

-----------------------------------------------------------------------------
(* What the repository says and the code does not do.                      *)

\* plugins/README.md: "a broken store reads as a miss, never as a wrong hit", and a rollout
\* fails "rather than grading a forked trajectory": what a graded rollout saw, one
\* environment showed, also when store operations failed open or landed late.
NoForkedTrajectoryIsGraded ==
  run.pc = "ended" /\ ~chain.timedOut /\ chain.regime # Unpinned =>
    Known([epoch |-> chain.regime, events |-> chain.events])

\* plugins/README.md: "no_chain (no chain was recorded, or it timed out ...)": the chain of
\* a baseline that holds this verdict is empty or has an action that was cut.
NoChainMeansNoChain ==
  prior.verdict = "no_chain" =>
    prior.events = <<>> \/ \E i \in DOMAIN prior.events : prior.events[i].out = Cut

\* contract.py, apply_replay_scope: "the audit always re-executes under the regime the chain
\* was recorded under".
AuditUnderRecordedRegime ==
  [][Audit /\ chain.events # <<>> => AuditRegime = chain.regime]_vars
=============================================================================
