---------------------------- MODULE Measurement ----------------------------
(***************************************************************************)
(* One isolated measurement: run_isolated_experiment (src/measurement.py)  *)
(* supervising the worker process (src/worker.py, run_experiment in        *)
(* src/rollout/sampler.py) over a pipe.  The worker may raise, quit, die,  *)
(* block or outstay its shutdown; docker may fail; the operator may        *)
(* interrupt the supervisor, its clean-up included.                        *)
(***************************************************************************)
EXTENDS Integers, Sequences, FiniteSets

CONSTANTS
  Tasks,         \* the requested panel
  Heartbeat,     \* HEARTBEAT_INTERVAL_SEC, in ticks
  Watchdog,      \* WATCHDOG_INACTIVITY_SEC, in ticks
  MaxPipe,       \* bound: events under way in the pipe
  MaxInterrupts  \* bound: keyboard interrupts

ASSUME MeasurementAssumption ==
  /\ IsFiniteSet(Tasks)
  /\ {Heartbeat, Watchdog, MaxPipe, MaxInterrupts} \subseteq Nat
  /\ 0 < Heartbeat /\ 2 * Heartbeat < Watchdog /\ 0 < MaxPipe  \* 60 s and 1800 s

VARIABLES
  child,       \* where the worker stands
  exit,        \* its exit code: "none" while it runs
  blocked,     \* its event loop is stuck: no step, no heartbeat
  sigint,      \* a SIGINT is pending in it
  containers,  \* it owns docker resources
  pipe,        \* events under way
  due,         \* ticks since the worker's last heartbeat or phase
  record,      \* experiment.json
  parent,      \* where the supervisor stands
  reported,    \* reported_id is set
  quiet,       \* ticks since last_activity
  watchdog,    \* killed_by_watchdog
  swept,       \* how the supervisor's own sweep went
  interrupts,
  outcome      \* what the call returns or raises

childVars == <<child, exit, blocked, sigint, containers, due>>
vars == <<childVars, pipe, record, parent, reported, quiet, watchdog, swept, interrupts, outcome>>

\* Log lines add nothing; "invalid" is what forward_event does not recognise.
Event == {"started", "task", "heartbeat", "invalid"}

Alive == exit = "none"
Healthy == Alive /\ ~blocked
Undisturbed == Healthy /\ ~sigint

TypeOK ==
  /\ child \in {"boot", "saved", "running", "finalized", "closed"}
  /\ exit \in {"none", "ok", "fail", "killed"}
  /\ {blocked, sigint, containers, reported, watchdog} \subseteq BOOLEAN
  /\ pipe \in Seq(Event) /\ Len(pipe) <= MaxPipe
  /\ due \in 0..Heartbeat
  /\ record \in [status: {"absent", "running", "complete", "crashed"},
                 requested: BOOLEAN, results: SUBSET Tasks]
  /\ parent \in {"poll", "drain", "terminate", "interrupting", "sweep", "conclude", "done"}
  /\ quiet \in 0..Watchdog
  /\ swept \in {"no", "done", "failed", "cut"}
  /\ interrupts \in 0..MaxInterrupts
  /\ outcome \in {"none", "ok", "failed", "failed_unmarked", "failed_without_result",
                 "wrong_panel", "interrupted", "invalid_event"}

Init ==
  /\ child = "boot" /\ exit = "none" /\ blocked = FALSE /\ sigint = FALSE
  /\ containers = FALSE /\ due = 0 /\ pipe = <<>>
  /\ record = [status |-> "absent", requested |-> TRUE, results |-> {}]
  /\ parent = "poll" /\ reported = FALSE /\ quiet = 0 /\ watchdog = FALSE
  /\ swept = "no" /\ interrupts = 0 /\ outcome = "none"

parentVars == <<parent, reported, quiet, watchdog, swept, interrupts, outcome>>

-----------------------------------------------------------------------------
(* The worker.  Once the supervisor closed its end a send raises.          *)

Listening == parent \in {"poll", "drain"}

Send(event) ==
  /\ Listening /\ Len(pipe) < MaxPipe
  /\ pipe' = Append(pipe, event)

\* Slip: the run is reported before its record is on disk.
ReportFirst ==
  /\ child = "boot" /\ Undisturbed
  /\ Send("started")
  /\ child' = "saved" /\ due' = 0
  /\ UNCHANGED <<exit, blocked, sigint, containers, record, parentVars>>

\* Config, cache check and repository, then save_experiment.  Candidate code may
\* have run another panel than the one it was given.
ChildSave ==
  /\ child = "boot" /\ Undisturbed
  /\ child' = "saved" /\ due' = 0
  /\ \E requested \in BOOLEAN :
       record' = [status |-> "running", requested |-> requested, results |-> {}]
  /\ UNCHANGED <<exit, blocked, sigint, containers, pipe, parentVars>>

\* observer.experiment_started, "so a parent watchdog can finalize a wedged child";
\* the task set is loaded and rollouts start their containers.
ChildStart ==
  /\ child = "saved" /\ Undisturbed
  /\ Send("started")
  /\ child' = "running" /\ containers' = TRUE /\ due' = 0
  /\ UNCHANGED <<exit, blocked, sigint, record, parentVars>>

\* log_rollout, then task_finished.
ChildTask ==
  /\ child = "running" /\ Undisturbed
  /\ \E t \in Tasks \ record.results :
       record' = [record EXCEPT !.results = @ \cup {t}]
  /\ Send("task")
  /\ UNCHANGED <<childVars, parentVars>>

\* Candidate code writes something else to the pipe.
ChildBabbles ==
  /\ child = "running" /\ Undisturbed
  /\ Send("invalid")
  /\ UNCHANGED <<childVars, record, parentVars>>

\* _emit_heartbeats
ChildHeartbeat ==
  /\ child \in {"saved", "running"} /\ Undisturbed /\ due = Heartbeat
  /\ Send("heartbeat")
  /\ due' = 0
  /\ UNCHANGED <<child, exit, blocked, sigint, containers, record, parentVars>>

\* Every rollout is in: finished_at is saved.
ChildFinalize ==
  /\ child = "running" /\ Undisturbed /\ record.results = Tasks
  /\ record' = [record EXCEPT !.status = "complete"]
  /\ child' = "finalized" /\ due' = 0
  /\ UNCHANGED <<exit, blocked, sigint, containers, pipe, parentVars>>

\* The finally of _experiment_worker: events.close().
ChildClose ==
  /\ child = "finalized" /\ Undisturbed
  /\ child' = "closed" /\ due' = 0
  /\ UNCHANGED <<exit, blocked, sigint, containers, pipe, record, parentVars>>

\* Interpreter exit runs docker_shell's atexit hook, which gives up in silence when
\* docker fails.
AtExit == containers' \in {FALSE, containers}

ChildExit ==
  /\ child = "closed" /\ Healthy
  /\ exit' = "ok" /\ AtExit
  /\ UNCHANGED <<child, blocked, sigint, due, pipe, record, parentVars>>

\* mark_crashed keeps the first crash reason.
mark_crashed == [record EXCEPT !.status = IF @ = "absent" THEN @ ELSE "crashed"]

\* An exception, or the pending SIGINT, unwinds the worker; the SystemExit of a
\* sys.exit() in candidate code ends it with exit code 0.  Only run_experiment's try
\* block marks the record; experiment_started is outside it.
ChildRaises ==
  /\ Healthy /\ child # "closed"
  /\ record' = IF child = "running" THEN mark_crashed ELSE record
  /\ exit' \in {"fail", "ok"} /\ AtExit
  /\ UNCHANGED <<child, blocked, sigint, due, pipe, parentVars>>

\* Candidate code leaves with os._exit(0): nothing is unwound, marked or removed.
ChildQuits ==
  /\ Healthy
  /\ exit' = "ok"
  /\ UNCHANGED <<child, blocked, sigint, containers, due, pipe, record, parentVars>>

\* The kernel or an operator kills the worker.
ChildDies ==
  /\ Alive
  /\ exit' = "killed"
  /\ UNCHANGED <<child, blocked, sigint, containers, due, pipe, record, parentVars>>

\* A blocking call on the event loop, or a cleanup that hangs.
ChildBlocks ==
  /\ Healthy
  /\ blocked' = TRUE
  /\ UNCHANGED <<child, exit, sigint, containers, due, pipe, record, parentVars>>

\* Time passes.  A worker whose loop turns sends its heartbeat on time, and the
\* phases without one (imports, exit) are short.
Tick ==
  /\ parent = "poll" /\ pipe = <<>> /\ Alive /\ quiet < Watchdog
  /\ blocked \/ due < Heartbeat
  /\ quiet' = quiet + 1
  /\ due' = IF blocked THEN due ELSE due + 1
  /\ UNCHANGED <<child, exit, blocked, sigint, containers, pipe, record, parent, reported,
                 watchdog, swept, interrupts, outcome>>

-----------------------------------------------------------------------------
(* The supervisor.                                                         *)

\* Slip: what the worker sent is handed on as it is.
ForwardUnchecked ==
  /\ pipe # <<>>
  /\ pipe' = Tail(pipe)
  /\ reported' = (reported \/ Head(pipe) = "started")
  /\ IF Head(pipe) = "invalid"
     THEN parent' = "terminate" /\ outcome' = Head(pipe)
     ELSE UNCHANGED <<parent, outcome>>

\* forward_event; an invalid event raises ValueError out of the loop.
Forward ==
  /\ pipe # <<>>
  /\ pipe' = Tail(pipe)
  /\ reported' = (reported \/ Head(pipe) = "started")
  /\ IF Head(pipe) = "invalid"
     THEN parent' = "terminate" /\ outcome' = "invalid_event"
     ELSE UNCHANGED <<parent, outcome>>

\* Slip: heartbeats do not count as activity.
ReceiveIgnoringHeartbeats ==
  /\ parent = "poll" /\ Alive
  /\ Forward
  /\ quiet' = IF Head(pipe) = "heartbeat" THEN quiet ELSE 0
  /\ UNCHANGED <<childVars, record, watchdog, swept, interrupts>>

Receive ==
  /\ parent = "poll" /\ Alive
  /\ Forward
  /\ quiet' = 0
  /\ UNCHANGED <<childVars, record, watchdog, swept, interrupts>>

\* The loop ends when the worker is gone or closed its end.
StopPolling ==
  /\ parent = "poll"
  /\ ~Alive \/ (child = "closed" /\ pipe = <<>>)
  /\ parent' = "drain"
  /\ UNCHANGED <<childVars, pipe, record, reported, quiet, watchdog, swept, interrupts,
                 outcome>>

\* process.kill(); process.wait()
WatchdogKill ==
  /\ parent = "poll" /\ pipe = <<>> /\ Alive /\ child # "closed" /\ quiet = Watchdog
  /\ exit' = "killed" /\ watchdog' = TRUE /\ parent' = "drain"
  /\ UNCHANGED <<child, blocked, sigint, containers, due, pipe, record, reported, quiet,
                 swept, interrupts, outcome>>

\* Slip: what is still in the pipe is not read.
SkipDrain ==
  /\ parent = "drain"
  /\ parent' = "terminate" /\ pipe' = <<>>
  /\ UNCHANGED <<childVars, record, reported, quiet, watchdog, swept, interrupts,
                 outcome>>

\* while receive.poll(): forward_event(); then receive.close().
Drain ==
  /\ parent = "drain"
  /\ \/ Forward
     \/ pipe = <<>> /\ parent' = "terminate" /\ UNCHANGED <<pipe, reported, outcome>>
  /\ UNCHANGED <<childVars, record, quiet, watchdog, swept, interrupts>>

\* KeyboardInterrupt while polling or draining: pass it on, stop listening.
Interrupt ==
  /\ parent \in {"poll", "drain"} /\ interrupts < MaxInterrupts
  /\ interrupts' = interrupts + 1
  /\ sigint' = Alive /\ parent' = "terminate" /\ pipe' = <<>>
  /\ outcome' = "interrupted"
  /\ UNCHANGED <<child, exit, blocked, containers, due, record, reported, quiet, watchdog,
                 swept>>

\* _terminate_experiment_process: the grace passes, or is cut short by another
\* interrupt, and the worker gets a SIGINT ...
SendSigint ==
  /\ parent = "terminate" /\ Alive
  /\ interrupts' \in {interrupts, interrupts + 1} /\ interrupts' <= MaxInterrupts
  /\ sigint' = TRUE /\ parent' = "interrupting"
  /\ UNCHANGED <<child, exit, blocked, containers, due, pipe, record, reported, quiet,
                 watchdog, swept, outcome>>

\* Slip: the supervisor only waits once the SIGINT is sent.
WaitAfterSigint ==
  /\ parent = "interrupting" /\ ~Alive
  /\ parent' = "sweep"
  /\ UNCHANGED <<childVars, pipe, record, reported, quiet, watchdog, swept, interrupts,
                 outcome>>

\* ... then a kill.
KillChild ==
  /\ parent = "interrupting" /\ Alive
  /\ interrupts' \in {interrupts, interrupts + 1} /\ interrupts' <= MaxInterrupts
  /\ exit' = "killed" /\ parent' = "sweep"
  /\ UNCHANGED <<child, blocked, sigint, containers, due, pipe, record, reported, quiet,
                 watchdog, swept, outcome>>

ChildReaped ==
  /\ parent \in {"terminate", "interrupting"} /\ ~Alive
  /\ parent' = "sweep"
  /\ UNCHANGED <<childVars, pipe, record, reported, quiet, watchdog, swept, interrupts,
                 outcome>>

\* Slip: only a worker the watchdog killed is swept.
SweepKilledByWatchdog ==
  /\ parent = "sweep"
  /\ \/ swept' = "done" /\ containers' = (containers /\ ~watchdog)
     \/ swept' = "failed" /\ UNCHANGED containers
  /\ parent' = IF outcome # "none" THEN "done" ELSE "conclude"
  /\ UNCHANGED <<child, exit, blocked, sigint, due, pipe, record, reported, quiet, watchdog,
                 interrupts, outcome>>

\* sweep_owner_resources, in the finally: an exception goes on after it.  It returns in
\* silence when docker cannot be reached or does not remove what it is told to.
Sweep ==
  /\ parent = "sweep"
  /\ \/ swept' = "done" /\ containers' = FALSE
     \/ swept' = "failed" /\ UNCHANGED containers
  /\ parent' = IF outcome # "none" THEN "done" ELSE "conclude"
  /\ UNCHANGED <<child, exit, blocked, sigint, due, pipe, record, reported, quiet, watchdog,
                 interrupts, outcome>>

\* A KeyboardInterrupt in the wait that follows the kill, in the sweep, or while the
\* failure is concluded: nothing catches it there, and what was to follow is left out.
InterruptCleanup ==
  /\ parent \in {"sweep", "conclude"} /\ interrupts < MaxInterrupts
  /\ interrupts' = interrupts + 1
  /\ swept' = IF parent = "sweep" THEN "cut" ELSE swept
  /\ parent' = "done" /\ outcome' = "interrupted"
  /\ UNCHANGED <<childVars, pipe, record, reported, quiet, watchdog>>

\* Slip: a worker that exits cleanly is believed.
TrustExitCode ==
  /\ parent = "conclude"
  /\ outcome' = IF ~reported THEN "failed_without_result"
                ELSE IF exit # "ok" THEN "failed_unmarked" ELSE "ok"
  /\ parent' = "done"
  /\ UNCHANGED <<childVars, pipe, record, reported, quiet, watchdog, swept, interrupts>>

\* The worker did not come to the end of a run: killed, a failing exit code, or a clean
\* exit that left the record running or crashed.
Broken == watchdog \/ exit # "ok" \/ record.status # "complete"

\* The tail of run_isolated_experiment.  _load_crashed_result goes on without a result
\* when the record cannot be marked.
Conclude ==
  /\ parent = "conclude"
  /\ \/ /\ ~reported /\ outcome' = "failed_without_result"
        /\ UNCHANGED record
     \/ /\ reported /\ Broken /\ record.status # "absent"
        /\ record' = mark_crashed /\ outcome' = "failed"
     \/ /\ reported /\ Broken /\ (exit = "ok" => record.status # "crashed")
        /\ outcome' = "failed_unmarked"
        /\ UNCHANGED record
     \/ /\ reported /\ ~Broken
        /\ outcome' = IF record.requested THEN "ok" ELSE "wrong_panel"
        /\ UNCHANGED record
  /\ parent' = "done"
  /\ UNCHANGED <<childVars, pipe, reported, quiet, watchdog, swept, interrupts>>

Done == parent = "done" /\ UNCHANGED vars

-----------------------------------------------------------------------------
Child ==
  \/ ChildSave \/ ChildStart \/ ChildTask \/ ChildHeartbeat \/ ChildFinalize
  \/ ChildClose \/ ChildExit

Faults == ChildBabbles \/ ChildRaises \/ ChildQuits \/ ChildDies \/ ChildBlocks

Parent ==
  \/ Receive \/ StopPolling \/ WatchdogKill \/ Drain \/ SendSigint \/ KillChild
  \/ ChildReaped \/ Sweep \/ Conclude

Next == Child \/ Faults \/ Tick \/ Parent \/ Interrupt \/ InterruptCleanup \/ Done

Spec == Init /\ [][Next]_vars

\* The supervisor keeps running, time passes, rollouts end within their budgets.
FairSpec == Spec /\ WF_vars(Parent) /\ WF_vars(Tick) /\ WF_vars(ChildTask)
                 /\ WF_vars(ChildSave \/ ChildStart \/ ChildFinalize \/ ChildClose \/ ChildExit)

-----------------------------------------------------------------------------
(* Properties.                                                             *)

\* A run handed to the criterion is one whose worker came to its end: every
\* requested task has a result, none was left out and nothing marked it crashed
\* ("omissions could hide regressions").
ReturnedRunsAreComplete ==
  outcome = "ok" =>
    /\ record.status = "complete" /\ record.results = Tasks /\ record.requested
    /\ exit = "ok"

\* A worker that finalized its record and exited cleanly is believed: whatever it left in
\* the pipe when it went is still read, its id is not lost.
NoFinishedRunIsLost ==
  parent = "done" /\ exit = "ok" /\ child \in {"finalized", "closed"}
  /\ outcome \notin {"interrupted", "invalid_event"} =>
    outcome \in {"ok", "wrong_panel"}

\* A failure the supervisor concludes carries a result only if the record is crashed on
\* disk, and a failure whose id was reported carries one unless the mark itself could not
\* be written; an id that was reported names a record that exists.  A call that ends in
\* an interrupt or an invalid event concludes nothing: there the record of a killed worker
\* stays "running".
FailedRunsAreFinalized ==
  parent = "done" =>
    /\ outcome = "failed" => reported /\ record.status = "crashed"
    /\ outcome = "failed_unmarked" => reported /\ record.status # "absent"
    /\ outcome = "failed_without_result" => ~reported

\* What the call concludes is what is on disk, though a worker may exit with code 0 at any
\* point: a run it returns is complete, one that finished is returned, the result that
\* comes with a failure is crashed.
OutcomeIsTrue ==
  /\ TypeOK
  /\ ReturnedRunsAreComplete
  /\ NoFinishedRunIsLost
  /\ FailedRunsAreFinalized

\* The watchdog never kills a worker whose loop still turns, however long a phase
\* takes ("silence means a dead or blocked worker, not a long phase").
WatchdogSparesTheLiving == watchdog => blocked

\* Docker resources of the worker survive the call only if docker failed in the sweep, or
\* the call ends in a KeyboardInterrupt that hit the clean-up itself.  An interrupt of the
\* loop or of the grace periods, an invalid event, the watchdog, a worker that quits or
\* whose own atexit sweep fails leave nothing behind.
NothingLeftBehind ==
  parent = "done" /\ containers => swept = "failed" \/ (swept = "cut" /\ outcome = "interrupted")

\* The supervisor always gets to an outcome, though the worker may block at any
\* point, even after it closed the pipe or after a SIGINT.
MeasurementEnds == <>(parent = "done")

\* store.py, mark_crashed: "For a run whose process died before it could finalize
\* itself".
OnlyUnfinalizedRunsAreMarked ==
  [][record.status = "complete" => record'.status = "complete"]_vars
=============================================================================
