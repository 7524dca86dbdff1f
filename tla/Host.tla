-------------------------------- MODULE Host --------------------------------
(***************************************************************************)
(* Several experiment processes on one host: admission and the host-wide   *)
(* task lock (src/concurrency.py), the pool threads every docker call and  *)
(* every wait for a lock needs (src/rollout/sampler.py), and the docker     *)
(* session of a rollout with its network on the task's fixed subnet         *)
(* (src/env/docker_shell.py).  A docker call may fail or outlive the await  *)
(* that gave up on it; a process may be interrupted or killed, its          *)
(* resources are then swept by their owner label.                          *)
(***************************************************************************)
EXTENDS Integers, FiniteSets

CONSTANTS
  Procs,        \* the experiment processes
  Tasks,        \* the panel, the same for every process
  Slots,        \* max_rollout_concurrency
  Threads,      \* TO_THREAD_POOL_WORKERS
  Retries,      \* DOCKER_INFRA_RETRY_BUDGET
  MaxTroubles,  \* bound: docker failures, timeouts, interrupts and kills
  Auditors,     \* the processes that audit: they start environments without the task lock
  Nobody

ASSUME HostAssumption ==
  /\ IsFiniteSet(Procs) /\ IsFiniteSet(Tasks)
  /\ {Slots, Threads, Retries, MaxTroubles} \subseteq Nat
  /\ 0 < Slots /\ Slots <= Threads
  /\ Nobody \notin Procs /\ Auditors \subseteq Procs

VARIABLES
  proc,       \* "up", "interrupted", "exited", "killed", "swept"
  pc,         \* where the rollout of a process for a task stands
  free,       \* free slots of a process's semaphore
  active,     \* its admitted rollouts
  lock,       \* the process whose open file holds a task's flock
  parked,     \* rollouts whose flock call blocks a pool thread, cancelled ones too
  starter,    \* the thread that runs _run_container_sync: "none", "net", "run"
  attempts,   \* start attempts that failed
  session,    \* the session's started flag and its network handle
  networks,   \* docker's networks [task, owner], one per subnet
  containers, \* docker's containers [task, owner]
  troubles

limiter == <<free, active>>
docker == <<networks, containers>>
vars == <<proc, pc, limiter, lock, parked, starter, attempts, session, docker, troubles>>

Rollouts == Procs \X Tasks
Id(p, t) == [task |-> t, owner |-> p]

Steps == {"queued", "admitting", "waiting", "start", "starting", "live", "close",
          "network", "release", "done"}
\* between __aenter__ and __aexit__ of the limiter
Admitted == Steps \ {"queued", "admitting", "done"}
Working == {"start", "starting", "live", "close", "network"}

TypeOK ==
  /\ proc \in [Procs -> {"up", "interrupted", "exited", "killed", "swept"}]
  /\ pc \in [Procs -> [Tasks -> Steps]]
  /\ free \in [Procs -> 0..Slots]
  /\ active \in [Procs -> 0..Slots]
  /\ lock \in [Tasks -> Procs \cup {Nobody}]
  /\ parked \subseteq Rollouts
  /\ starter \in [Procs -> [Tasks -> {"none", "net", "run"}]]
  /\ attempts \in [Procs -> [Tasks -> 0..Retries + 1]]
  /\ session \in [Procs -> [Tasks -> [started: BOOLEAN, network: BOOLEAN]]]
  /\ {networks, containers} \subseteq SUBSET [task: Tasks, owner: Procs]
  /\ troubles \in 0..MaxTroubles

Init ==
  /\ proc = [p \in Procs |-> "up"]
  /\ pc = [p \in Procs |-> [t \in Tasks |-> "queued"]]
  /\ free = [p \in Procs |-> Slots]
  /\ active = [p \in Procs |-> 0]
  /\ lock = [t \in Tasks |-> Nobody]
  /\ parked = {}
  /\ starter = [p \in Procs |-> [t \in Tasks |-> "none"]]
  /\ attempts = [p \in Procs |-> [t \in Tasks |-> 0]]
  /\ session = [p \in Procs |-> [t \in Tasks |-> [started |-> FALSE, network |-> FALSE]]]
  /\ networks = {} /\ containers = {}
  /\ troubles = 0

Alive(p) == proc[p] \in {"up", "interrupted"}
Goto(p, t, step) == pc' = [pc EXCEPT ![p][t] = step]
At(p, t, step) == Alive(p) /\ pc[p][t] = step
Trouble == troubles < MaxTroubles /\ troubles' = troubles + 1

\* Pool threads taken for longer than a moment: parked waiters and container starts.
Busy(p) == Cardinality({r \in parked : r[1] = p})
             + Cardinality({t \in Tasks : starter[p][t] # "none"})

\* Slip: the pool is sized below the rollouts that may wait in it.
SmallerPool(p) == Busy(p) < Threads - 1

FreeThread(p) == Busy(p) < Threads

-----------------------------------------------------------------------------
(* CpuConcurrencyLimiter                                                   *)

TakeSlot(p, t) ==
  /\ At(p, t, "queued") /\ proc[p] = "up" /\ free[p] > 0
  /\ free' = [free EXCEPT ![p] = @ - 1]
  /\ Goto(p, t, "admitting")
  /\ UNCHANGED <<proc, active, lock, parked, starter, attempts, session, docker, troubles>>

Locks(p) == p \notin Auditors

\* One at a time behind the admission lock.  With nothing active the CPU is not looked at;
\* otherwise a pool thread samples it until it is below the target.  The first,
\* non-blocking flock follows without an await; an audit starts without one.
Admit(p, t) ==
  /\ At(p, t, "admitting") /\ proc[p] = "up"
  /\ active[p] > 0 => FreeThread(p)
  /\ active' = [active EXCEPT ![p] = @ + 1]
  /\ \/ /\ Locks(p) => lock[t] = Nobody
        /\ lock' = IF Locks(p) THEN [lock EXCEPT ![t] = p] ELSE lock
        /\ Goto(p, t, "start")
     \/ /\ Locks(p) /\ lock[t] # Nobody
        /\ Goto(p, t, "waiting") /\ UNCHANGED lock
  /\ UNCHANGED <<proc, free, parked, starter, attempts, session, docker, troubles>>

\* The rollout's result is out: the lock's file is closed, the limiter left.
Release(p, t) ==
  /\ At(p, t, "release")
  /\ lock' = IF lock[t] = p THEN [lock EXCEPT ![t] = Nobody] ELSE lock
  /\ active' = [active EXCEPT ![p] = @ - 1]
  /\ free' = [free EXCEPT ![p] = @ + 1]
  /\ Goto(p, t, "done")
  /\ UNCHANGED <<proc, parked, starter, attempts, session, docker, troubles>>

-----------------------------------------------------------------------------
(* cross_process_task_lock                                                 *)

\* A pool thread takes up the blocking call.
Park(p, t) ==
  /\ At(p, t, "waiting") /\ <<p, t>> \notin parked /\ FreeThread(p)
  /\ parked' = parked \cup {<<p, t>>}
  /\ UNCHANGED <<proc, pc, limiter, lock, starter, attempts, session, docker, troubles>>

\* Slip: the blocking call does not wait for the holder (LOCK_SH).
GrantedShared(p, t) ==
  /\ Alive(p) /\ <<p, t>> \in parked /\ pc[p][t] = "waiting"
  /\ parked' = parked \ {<<p, t>>}
  /\ lock' = [lock EXCEPT ![t] = p]
  /\ Goto(p, t, "start")
  /\ UNCHANGED <<proc, limiter, starter, attempts, session, docker, troubles>>

\* The kernel grants the lock.  The file of a cancelled waiter is closed already: its
\* lock goes with the call.
Granted(p, t) ==
  /\ Alive(p) /\ <<p, t>> \in parked /\ lock[t] = Nobody
  /\ parked' = parked \ {<<p, t>>}
  /\ \/ /\ pc[p][t] = "waiting"
        /\ lock' = [lock EXCEPT ![t] = p]
        /\ Goto(p, t, "start")
     \/ /\ pc[p][t] # "waiting"
        /\ UNCHANGED <<lock, pc>>
  /\ UNCHANGED <<proc, limiter, starter, attempts, session, docker, troubles>>

-----------------------------------------------------------------------------
(* DockerShellSession: start                                               *)

Set(p, t, field, value) == [session EXCEPT ![p][t][field] = value]

\* network.remove: docker refuses while a container is attached, which is suppressed.
Removable(p, t) == IF Id(p, t) \in containers THEN {} ELSE {Id(p, t)}

\* to_thread(_run_container_sync)
Start(p, t) ==
  /\ At(p, t, "start") /\ FreeThread(p)
  /\ starter' = [starter EXCEPT ![p][t] = "net"]
  /\ Goto(p, t, "starting")
  /\ UNCHANGED <<proc, limiter, lock, parked, attempts, session, docker, troubles>>

\* _create_managed_network, once per session; the subnet must be free.
CreateNetwork(p, t) ==
  /\ starter[p][t] = "net"
  /\ \/ session[p][t].network /\ UNCHANGED <<session, networks>>
     \/ /\ ~session[p][t].network /\ \A n \in networks : n.task # t
        /\ session' = Set(p, t, "network", TRUE)
        /\ networks' = networks \cup {Id(p, t)}
  /\ starter' = [starter EXCEPT ![p][t] = "run"]
  /\ UNCHANGED <<proc, pc, limiter, lock, parked, attempts, containers, troubles>>

\* containers.run; nobody may be waiting for the result any more.
RunContainer(p, t) ==
  /\ starter[p][t] = "run"
  /\ Id(p, t) \in networks \ containers
  /\ containers' = containers \cup {Id(p, t)}
  /\ starter' = [starter EXCEPT ![p][t] = "none"]
  /\ \/ /\ pc[p][t] = "starting"
        /\ session' = Set(p, t, "started", TRUE) /\ Goto(p, t, "live")
     \/ pc[p][t] # "starting" /\ UNCHANGED <<session, pc>>
  /\ UNCHANGED <<proc, limiter, lock, parked, attempts, networks, troubles>>

\* What is retried, and what is not any more: the network goes, start raises.
StartFailed(p, t) ==
  \/ /\ pc[p][t] = "starting" /\ attempts[p][t] < Retries
     /\ attempts' = [attempts EXCEPT ![p][t] = @ + 1]
     /\ Goto(p, t, "start")
     /\ UNCHANGED <<session, networks>>
  \/ /\ pc[p][t] = "starting" /\ attempts[p][t] = Retries
     /\ attempts' = [attempts EXCEPT ![p][t] = @ + 1]
     /\ Goto(p, t, "close")
     /\ session' = Set(p, t, "network", FALSE)
     /\ networks' = networks \ Removable(p, t)
  \/ /\ pc[p][t] # "starting"
     /\ UNCHANGED <<attempts, pc, session, networks>>

\* A DockerException: the subnet is taken, the name is taken, the network is gone, or the
\* daemon has a blip, before or after it created the container.
StarterFails(p, t) ==
  /\ starter[p][t] # "none"
  /\ \/ /\ starter[p][t] = "net" /\ ~session[p][t].network /\ \E n \in networks : n.task = t
        /\ UNCHANGED <<troubles, containers>>
     \/ /\ starter[p][t] = "run" /\ Id(p, t) \notin networks \ containers
        /\ UNCHANGED <<troubles, containers>>
     \/ /\ starter[p][t] = "net" /\ Trouble /\ UNCHANGED containers
     \/ /\ starter[p][t] = "run" /\ Trouble /\ containers' = containers \cup {Id(p, t)}
  /\ StartFailed(p, t)
  /\ starter' = [starter EXCEPT ![p][t] = "none"]
  /\ UNCHANGED <<proc, limiter, lock, parked>>

\* wait_for gives up; the thread does not.
StartTimesOut(p, t) ==
  /\ At(p, t, "starting") /\ Trouble
  /\ Goto(p, t, "close")
  /\ session' = Set(p, t, "network", FALSE)
  /\ networks' = IF session[p][t].network THEN networks \ Removable(p, t) ELSE networks
  /\ UNCHANGED <<proc, limiter, lock, parked, starter, attempts, containers>>

\* The required setup command fails: container and network are removed again.
SetupFails(p, t) ==
  /\ At(p, t, "live") /\ Trouble
  /\ containers' = containers \ {Id(p, t)} /\ networks' = networks \ {Id(p, t)}
  /\ session' = [session EXCEPT ![p][t] = [started |-> FALSE, network |-> FALSE]]
  /\ Goto(p, t, "close")
  /\ UNCHANGED <<proc, limiter, lock, parked, starter, attempts>>

-----------------------------------------------------------------------------
(* The rollout's commands, then RolloutRunner's close.                     *)

Live(p, t) ==
  /\ At(p, t, "live") /\ FreeThread(p)
  /\ Goto(p, t, "close")
  /\ UNCHANGED <<proc, limiter, lock, parked, starter, attempts, session, docker, troubles>>

\* A command outlives its backstop: the container is removed under it.
Backstop(p, t) ==
  /\ At(p, t, "live") /\ Trouble
  /\ containers' = containers \ {Id(p, t)}
  /\ session' = Set(p, t, "started", FALSE)
  /\ Goto(p, t, "close")
  /\ UNCHANGED <<proc, limiter, lock, parked, starter, attempts, networks>>

\* Slip: a session that was started is not asked for its container.
CloseNetworkOnly(p, t) ==
  /\ At(p, t, "close")
  /\ Goto(p, t, "network")
  /\ UNCHANGED <<proc, limiter, lock, parked, starter, attempts, session, docker, troubles>>

\* close: only a session known as started has a container to remove.
CloseContainer(p, t) ==
  /\ At(p, t, "close")
  /\ \/ ~session[p][t].started /\ UNCHANGED <<session, containers, troubles>>
     \/ /\ session[p][t].started /\ FreeThread(p)
        /\ session' = Set(p, t, "started", FALSE)
        /\ containers' = containers \ {Id(p, t)}
        /\ UNCHANGED troubles
     \/ session[p][t].started /\ Trouble /\ UNCHANGED <<session, containers>>
  /\ Goto(p, t, "network")
  /\ UNCHANGED <<proc, limiter, lock, parked, starter, attempts, networks>>

\* _remove_managed_network, in the finally.
CloseNetwork(p, t) ==
  /\ At(p, t, "network")
  /\ \/ ~session[p][t].network /\ UNCHANGED <<session, networks>>
     \/ /\ session[p][t].network /\ FreeThread(p)
        /\ session' = Set(p, t, "network", FALSE)
        /\ networks' = networks \ Removable(p, t)
  /\ Goto(p, t, "release")
  /\ UNCHANGED <<proc, limiter, lock, parked, starter, attempts, containers, troubles>>

-----------------------------------------------------------------------------
(* Interrupts, exits, kills.                                               *)

\* Ctrl-C, or the failure of one rollout: the others are cancelled.
Interrupt(p) ==
  /\ proc[p] = "up" /\ Trouble
  /\ proc' = [proc EXCEPT ![p] = "interrupted"]
  /\ UNCHANGED <<pc, limiter, lock, parked, starter, attempts, session, docker>>

\* Slip: a rollout cancelled during admission keeps its slot.
KeepSlot(p, t) == UNCHANGED free

\* Slip: the except clause and a finally both give it back.
GiveSlotBackTwice(p, t) == free' = [free EXCEPT ![p] = @ + 2]

\* "except BaseException: self._slots.release()"
GiveSlotBack(p, t) == free' = [free EXCEPT ![p] = @ + 1]

\* Cancellation arrives at the await the rollout is in.
Cancelled(p, t) ==
  /\ proc[p] = "interrupted"
  /\ \/ /\ pc[p][t] = "queued" /\ Goto(p, t, "done") /\ UNCHANGED free
     \/ /\ pc[p][t] = "admitting" /\ Goto(p, t, "done")
        /\ GiveSlotBack(p, t)
     \/ /\ pc[p][t] = "waiting" /\ Goto(p, t, "release")
        /\ UNCHANGED free
     \/ /\ pc[p][t] \in {"start", "starting", "live"} /\ Goto(p, t, "close")
        /\ UNCHANGED free
  /\ UNCHANGED <<proc, active, lock, parked, starter, attempts, session, docker, troubles>>

Swept(p) ==
  /\ networks' = {n \in networks : n.owner # p}
  /\ containers' = {c \in containers : c.owner # p}

\* The kernel closes its files.
Unlocked(p) == lock' = [t \in Tasks |-> IF lock[t] = p THEN Nobody ELSE lock[t]]

\* Slip: the interpreter does not wait for its pool threads.
ExitAtOnce(p) ==
  \/ proc[p] = "interrupted"
  \/ proc[p] = "up" /\ \A t \in Tasks : pc[p][t] = "done"

\* An interrupt may tear the event loop down with rollouts still open.  The pool is joined
\* before the atexit sweep.
MayExit(p) == ExitAtOnce(p) /\ Busy(p) = 0

Exit(p) ==
  /\ MayExit(p)
  /\ proc' = [proc EXCEPT ![p] = "exited"]
  /\ Swept(p) /\ Unlocked(p)
  /\ UNCHANGED <<pc, limiter, parked, starter, attempts, session, troubles>>

\* A docker call under way lands, at the latest before the sweep, or not.
Kill(p) ==
  /\ Alive(p) /\ Trouble
  /\ proc' = [proc EXCEPT ![p] = "killed"]
  /\ Unlocked(p)
  /\ parked' = {r \in parked : r[1] # p}
  /\ \E landed \in SUBSET {t \in Tasks : starter[p][t] = "run" /\ Id(p, t) \in networks} :
       containers' = containers \cup {Id(p, t) : t \in landed}
  /\ starter' = [starter EXCEPT ![p] = [t \in Tasks |-> "none"]]
  /\ UNCHANGED <<pc, limiter, attempts, session, networks>>

\* sweep_owner_resources by the supervisor that reaped it.
Sweep(p) ==
  /\ proc[p] = "killed"
  /\ proc' = [proc EXCEPT ![p] = "swept"]
  /\ Swept(p)
  /\ UNCHANGED <<pc, limiter, lock, parked, starter, attempts, session, troubles>>

-----------------------------------------------------------------------------
Rollout(p, t) ==
  \/ TakeSlot(p, t) \/ Admit(p, t) \/ Release(p, t)
  \/ Park(p, t) \/ Granted(p, t)
  \/ Start(p, t) \/ CreateNetwork(p, t) \/ RunContainer(p, t) \/ StarterFails(p, t)
  \/ StartTimesOut(p, t) \/ SetupFails(p, t)
  \/ Live(p, t) \/ Backstop(p, t) \/ CloseContainer(p, t) \/ CloseNetwork(p, t)
  \/ Cancelled(p, t)

Next ==
  \/ \E p \in Procs, t \in Tasks : Rollout(p, t)
  \/ \E p \in Procs : Interrupt(p) \/ Exit(p) \/ Kill(p) \/ Sweep(p)

Spec == Init /\ [][Next]_vars

\* What a rollout does when nothing goes wrong.  That the CPU ever goes idle while other
\* rollouts are active is not assumed.
Progress(p, t) ==
  \/ TakeSlot(p, t) \/ (active[p] = 0 /\ Admit(p, t)) \/ Release(p, t)
  \/ Park(p, t) \/ Granted(p, t)
  \/ Start(p, t) \/ CreateNetwork(p, t) \/ RunContainer(p, t) \/ StarterFails(p, t)
  \/ Live(p, t) \/ CloseContainer(p, t) \/ CloseNetwork(p, t) \/ Cancelled(p, t)

\* Event loops turn, the kernel grants free locks, docker calls return, commands end within
\* their budgets, processes exit and are reaped: something that can happen does.  No step
\* can be repeated for ever, so this starves nobody.
Fairness ==
  WF_vars(\E p \in Procs : Exit(p) \/ Sweep(p) \/ \E t \in Tasks : Progress(p, t))

FairSpec == Spec /\ Fairness

-----------------------------------------------------------------------------
(* Properties.                                                             *)

\* Two overlapping experiments never work on one task at the same time, however locks are
\* waited for, cancelled and lost with their process.
OneProcessPerTask ==
  \A t \in Tasks : \A p, q \in Procs \ Auditors :
    /\ Alive(p) /\ pc[p][t] \in Working
    /\ Alive(q) /\ pc[q][t] \in Working
    => p = q

\* Slots and the active count are exactly the rollouts inside the limiter, so
\* none is lost or given back twice by a cancellation.
LimiterIsExact ==
  \A p \in Procs :
    /\ free[p] = Slots - Cardinality({t \in Tasks : pc[p][t] \notin {"queued", "done"}})
    /\ active[p] = Cardinality({t \in Tasks : pc[p][t] \in Admitted})

\* The limiter neither loses nor invents a slot, whatever is cancelled.
SlotsAreExact ==
  /\ TypeOK
  /\ LimiterIsExact

\* As long as nothing goes wrong the flock spans the whole life of what docker holds for
\* the task, so the fixed subnets do not collide.
LockSpansEnvironment ==
  troubles = 0 =>
    \A thing \in networks \cup containers :
      thing.owner \notin Auditors => lock[thing.task] = thing.owner

\* A task belongs to one process at a time, in the event loops and in docker.
TasksAreExclusive ==
  /\ OneProcessPerTask
  /\ LockSpansEnvironment

\* Whatever failed, timed out late, was cancelled or killed: once a process is gone and
\* swept, docker holds nothing of it.
NothingOutlivesItsOwner ==
  \A thing \in networks \cup containers : proc[thing.owner] \notin {"exited", "swept"}

\* Every process comes to its end: rollouts that wait for locks of other processes in pool
\* threads do not starve the docker calls of the rollouts those processes wait for.
EveryProcessEnds == \A p \in Procs : <>(proc[p] \in {"exited", "swept"})

-----------------------------------------------------------------------------
(* What the repository says and the code does not do.                      *)

\* concurrency.py, cross_process_task_lock: the same task in two processes "would collide on
\* network creation", hence "the flock spans the caller's whole env lifetime": no rollout
\* ever finds its task's subnet taken.
SubnetsNeverCollide ==
  \A p \in Procs, t \in Tasks :
    starter[p][t] = "net" /\ ~session[p][t].network => \A n \in networks : n.task # t
=============================================================================
