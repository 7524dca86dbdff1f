------------------------------ MODULE Grading ------------------------------
(***************************************************************************)
(* Submits of the concurrent rollouts of one worker process: the verify()  *)
(* of both benchmarks (src/env/swe.py, src/env/terminal_bench.py), the     *)
(* official SWE-bench grader in a thread (src/env/swebench_verify.py), its *)
(* memo (src/plugins/replay/verify_cache.py), the boundary they cross      *)
(* (src/env/base.py) and the deadline run_task_loop puts around them.      *)
(*                                                                         *)
(* How long anything takes is left open: a deadline may pass at any await. *)
(***************************************************************************)
EXTENDS Integers, Sequences, SequencesExt

CONSTANTS
  Swe,       \* the SWE-bench rollouts; each is the only one of its instance
  Terminal,  \* the Terminal-Bench rollouts
  Patches,   \* what a solve container's working tree may differ by
  NoPatch,   \* the empty diff
  Graded,    \* bound: the instances earlier experiments may have left a grade of
  Nobody, Default

ASSUME GradingAssumption ==
  /\ NoPatch \in Patches /\ Graded \subseteq Swe
  /\ {Nobody, Default} \cap (Swe \cup Terminal) = {}

Rollouts == Swe \cup Terminal

VARIABLES
  kind,      \* the experiment's benchmark
  wrapped,   \* SweEnv got a verify_wrapper: the execution is replay
  tree,      \* SWE: the diff in the solve container
  patch,     \* SWE: the diff verify() captured
  reward,    \* Terminal: reward.txt in the container
  verifier,  \* Terminal: what the verifier itself wrote there
  pc,        \* where a submit stands
  retried,   \* Terminal: the reward was read once already
  holder, queue,  \* _SWEBENCH_LOG_DIR_LOCK
  logDir,    \* run_evaluation.RUN_EVALUATION_LOG_DIR
  previous,  \* its value before the lock's holder set it
  thread,    \* run_instance in its thread
  reports,   \* <<root, instance>> pairs that hold report and test output
  graded,    \* what official gradings found, ever
  memo,      \* the verify cache
  ending     \* how the submit ended

inputs == <<kind, wrapped, tree>>
lock == <<holder, queue, logDir, previous>>
container == <<reward, verifier, retried>>
official == <<thread, reports, graded>>
vars == <<inputs, patch, container, pc, lock, official, memo, ending>>

-----------------------------------------------------------------------------
\* VerifyVerdict: a completed one says passed, an incomplete one has an error
Grade == {"passed", "failed"}
Endings == {"none", "incomplete", "corrupt", "error", "timeout"} \cup Grade
Thread == [state : {"none", "queued", "running", "ended"}, root : Swe \cup {Default},
           found : Grade \cup {"none", "incomplete", "raised"}]
NoThread == [state |-> "none", root |-> Default, found |-> "none"]

TypeOK ==
  /\ kind \in {"swe", "terminal_bench"}
  /\ wrapped \in BOOLEAN
  /\ tree \in [Swe -> Patches] /\ patch \in [Swe -> Patches]
  /\ reward \in [Terminal -> {"absent", "0", "1", "junk"}]
  /\ verifier \in [Terminal -> {"absent", "0", "1", "junk"}]
  /\ retried \in [Terminal -> BOOLEAN]
  /\ pc \in [Rollouts -> {"working", "capture", "lookup", "grader", "waiting", "grading", "store",
                          "install", "reward", "ended"}]
  /\ holder \in Swe \cup {Nobody} /\ queue \in Seq(Swe)
  /\ holder # Nobody => pc[holder] = "grading"
  /\ ToSet(queue) = {r \in Swe : pc[r] = "waiting"} /\ IsInjective(queue)
  /\ {logDir, previous} \subseteq Swe \cup {Default}
  /\ thread \in [Swe -> Thread]
  /\ reports \subseteq (Swe \cup {Default}) \X Swe
  /\ graded \subseteq Swe \X Patches \X Grade
  /\ memo \in [Swe \X Patches -> Grade \cup {"none", "unusable"}]
  /\ ending \in [Rollouts -> Endings]
  /\ \A r \in Rollouts : pc[r] = "ended" <=> ending[r] # "none"

\* Earlier experiments may have memoized grades; the agent's own commands may have left
\* anything in the container.
Init ==
  /\ kind \in {"swe", "terminal_bench"}
  /\ wrapped \in (IF kind = "swe" THEN BOOLEAN ELSE {FALSE})
  /\ tree \in [Swe -> Patches \ {NoPatch}] /\ patch = [r \in Swe |-> NoPatch]
  /\ reward \in [Terminal -> IF kind = "swe" THEN {"absent"} ELSE {"absent", "1"}]
  /\ verifier = [r \in Terminal |-> "absent"] /\ retried = [r \in Terminal |-> FALSE]
  /\ pc = [r \in Rollouts |-> "working"]
  /\ holder = Nobody /\ queue = <<>> /\ logDir = Default /\ previous = Default
  /\ thread = [r \in Swe |-> NoThread]
  /\ reports = {}
  /\ \E old \in IF wrapped THEN Grade \cup {"none", "unusable"} ELSE {"none"} :
       memo = [k \in Swe \X Patches |-> IF k[2] # NoPatch /\ k[1] \in Graded THEN old ELSE "none"]
  /\ graded = {k \in Swe \X Patches \X Grade : memo[<<k[1], k[2]>>] = k[3]}
  /\ ending = [r \in Rollouts |-> "none"]

Ends(r, how) == pc' = [pc EXCEPT ![r] = "ended"] /\ ending' = [ending EXCEPT ![r] = how]
GoesTo(r, where) == pc' = [pc EXCEPT ![r] = where] /\ UNCHANGED ending

\* run_task_loop: the policy submits
Submit(r) ==
  /\ pc[r] = "working"
  /\ r \in (IF kind = "swe" THEN Swe ELSE Terminal)
  /\ GoesTo(r, IF r \in Swe THEN "capture" ELSE "install")
  /\ UNCHANGED <<inputs, patch, container, lock, official, memo>>

-----------------------------------------------------------------------------
(* SweEnv.verify and the verify cache. *)

\* The diff is taken and the solve container closed; a diff command that fails (or runs
\* into its 120 s) leaves the empty diff.
Capture(r) ==
  /\ pc[r] = "capture"
  /\ \E p \in {tree[r], NoPatch} : patch' = [patch EXCEPT ![r] = p]
  /\ GoesTo(r, IF wrapped THEN "lookup" ELSE "grader")
  /\ UNCHANGED <<inputs, container, lock, official, memo>>

\* restore_cached: only a completed grade is restored; its files replace the rollout's
Restore(r) ==
  /\ pc[r] = "lookup" /\ memo[<<r, patch[r]>>] \in Grade
  /\ reports' = reports \cup {<<r, r>>}
  /\ Ends(r, memo[<<r, patch[r]>>])
  /\ UNCHANGED <<inputs, patch, container, lock, thread, graded, memo>>

\* no entry, an unusable one, or a cache that fails open
Miss(r) ==
  /\ pc[r] = "lookup"
  /\ GoesTo(r, "grader")
  /\ UNCHANGED <<inputs, patch, container, lock, official, memo>>

-----------------------------------------------------------------------------
(* swebench_verify. *)

\* _swebench_run_log_root is entered and the thread asked for
Acquired(r) ==
  /\ holder' = r
  /\ previous' = logDir /\ logDir' = r
  /\ thread' = [thread EXCEPT ![r] = [state |-> "queued", root |-> Default, found |-> "none"]]
  /\ GoesTo(r, "grading")

\* Slip: the roots of all rollouts are removed
AskAndClear(r) ==
  /\ pc[r] = "grader"
  /\ reports' = {}
  /\ IF holder = Nobody /\ queue = <<>>
     THEN Acquired(r) /\ UNCHANGED queue
     ELSE queue' = Append(queue, r) /\ GoesTo(r, "waiting")
          /\ UNCHANGED <<holder, logDir, previous, thread>>
  /\ UNCHANGED <<inputs, patch, container, graded, memo>>

\* _run_official_eval: what an earlier attempt left is removed; an asyncio lock is taken
\* at once if it is free and nobody is before us
AskForLock(r) ==
  /\ pc[r] = "grader"
  /\ reports' = {f \in reports : f[1] # r}
  /\ IF holder = Nobody /\ queue = <<>>
     THEN Acquired(r) /\ UNCHANGED queue
     ELSE queue' = Append(queue, r) /\ GoesTo(r, "waiting")
          /\ UNCHANGED <<holder, logDir, previous, thread>>
  /\ UNCHANGED <<inputs, patch, container, graded, memo>>

\* Slip: the lock waits for a grader thread that was abandoned
WokenUpAfterThreads(r) ==
  /\ pc[r] = "waiting" /\ holder = Nobody /\ Head(queue) = r
  /\ \A other \in Swe : thread[other].state # "running"
  /\ queue' = Tail(queue) /\ Acquired(r)
  /\ UNCHANGED <<inputs, patch, container, reports, graded, memo>>

WokenUp(r) ==
  /\ pc[r] = "waiting" /\ holder = Nobody /\ Head(queue) = r
  /\ queue' = Tail(queue) /\ Acquired(r)
  /\ UNCHANGED <<inputs, patch, container, reports, graded, memo>>

\* run_instance reads the module's log directory when it starts.  (A thread preempted between
\* the two reads a later rollout's root, where its paths, which contain its instance, are in
\* nobody's way.)
ThreadStarts(r) ==
  /\ thread[r].state = "queued"
  /\ thread' = [thread EXCEPT ![r] = [state |-> "running", root |-> logDir, found |-> "none"]]
  /\ UNCHANGED <<inputs, patch, container, pc, lock, reports, graded, memo, ending>>

\* It ends: with a report in that directory, without completing, or with an exception.
\* An abandoned one ends as well, and writes its report all the same.
ThreadEnds(r) ==
  /\ thread[r].state = "running"
  /\ \E found \in Grade \cup {"incomplete", "raised"} :
       /\ thread' = [thread EXCEPT ![r] = [state |-> "ended", root |-> thread[r].root, found |-> found]]
       /\ IF found \in Grade
          THEN /\ reports' = reports \cup {<<thread[r].root, r>>}
               /\ graded' = graded \cup {<<r, patch[r], found>>}
          ELSE UNCHANGED <<reports, graded>>
  /\ UNCHANGED <<inputs, patch, container, pc, lock, memo, ending>>

\* Slip: the log root stays where it was set
ReleaseOnly(r) == holder' = (IF holder = r THEN Nobody ELSE holder) /\ UNCHANGED <<logDir, previous>>

\* leaving the two with-statements, by whatever way
Release(r) ==
  IF holder = r
  THEN holder' = Nobody /\ logDir' = previous /\ UNCHANGED previous
  ELSE UNCHANGED <<holder, logDir, previous>>

\* verify: a completed grade needs its report in the rollout's own directory
Found(r) ==
  LET found == thread[r].found IN
  IF found \notin Grade THEN found
  ELSE IF <<r, r>> \in reports THEN found ELSE "corrupt"

\* The coroutine goes on after the thread.
Resume(r) ==
  /\ pc[r] = "grading" /\ thread[r].state = "ended"
  /\ Release(r)
  /\ IF Found(r) \in Grade /\ wrapped THEN GoesTo(r, "store")
     ELSE Ends(r, IF Found(r) = "raised" THEN "error" ELSE Found(r))
  /\ UNCHANGED <<inputs, patch, container, queue, official, memo>>

\* Slip: one key for every diff of an instance
KeyOfInstance(r) == <<r, CHOOSE p \in Patches : p # NoPatch>>

\* verify_cache_key
VerifyCacheKey(r) == <<r, patch[r]>>

\* cache_wrapper: the grade is put, unless the key is taken or the cache fails open
Store(r) ==
  /\ pc[r] = "store"
  /\ \/ /\ memo[VerifyCacheKey(r)] = "none"
        /\ memo' = [memo EXCEPT ![VerifyCacheKey(r)] = thread[r].found]
     \/ UNCHANGED memo
  /\ Ends(r, thread[r].found)
  /\ UNCHANGED <<inputs, patch, container, lock, official>>

-----------------------------------------------------------------------------
(* TerminalBenchEnv.verify. *)

\* Slip: the verifier starts with the reward file it finds
VerifyInPlace(r) ==
  /\ pc[r] = "install"
  /\ \E out \in {"absent", "0", "1", "junk"} :
       /\ reward' = [reward EXCEPT ![r] = IF out = "absent" THEN @ ELSE out]
       /\ verifier' = [verifier EXCEPT ![r] = out]
  /\ GoesTo(r, "reward")
  /\ UNCHANGED <<inputs, patch, retried, lock, official, memo>>

\* The tests are installed; the verifier command removes reward.txt and runs them.  They
\* may be stopped before they write one.
RunVerifier(r) ==
  /\ pc[r] = "install"
  /\ \E out \in {"absent", "0", "1", "junk"} :
       /\ reward' = [reward EXCEPT ![r] = out]
       /\ verifier' = [verifier EXCEPT ![r] = out]
  /\ GoesTo(r, "reward")
  /\ UNCHANGED <<inputs, patch, retried, lock, official, memo>>

\* a read of _read_reward that returned nothing: it is read once more
ReadLost(r) ==
  IF retried[r] THEN Ends(r, "incomplete") /\ UNCHANGED retried
  ELSE retried' = [retried EXCEPT ![r] = TRUE] /\ UNCHANGED <<pc, ending>>

\* the verdict of what was read
Read(text) ==
  CASE text = "1" -> "passed"
    [] text = "0" -> "failed"
    [] OTHER -> "incomplete"

\* _read_reward; reading may lose the output, or fail
ReadReward(r) ==
  /\ pc[r] = "reward"
  /\ \/ ReadLost(r)
     \/ Ends(r, Read(reward[r])) /\ UNCHANGED retried
     \/ Ends(r, "incomplete") /\ UNCHANGED retried
  /\ UNCHANGED <<inputs, patch, reward, verifier, lock, official, memo>>

-----------------------------------------------------------------------------
(* The boundary. *)

\* A docker call of verify() raises: execute_env_action makes it a StepExecutionError.
Raises(r) ==
  /\ pc[r] \in {"capture", "grader", "install", "reward"}
  /\ Ends(r, "error")
  /\ UNCHANGED <<inputs, patch, container, lock, official, memo>>

\* Slip: who gives up keeps his place in the queue
ExpireInQueue(r) ==
  /\ pc[r] \notin {"working", "ended"}
  /\ Ends(r, "timeout")
  /\ Release(r)
  /\ thread' = IF r \in Swe /\ thread[r].state = "queued" THEN [thread EXCEPT ![r] = NoThread] ELSE thread
  /\ UNCHANGED <<inputs, patch, container, queue, reports, graded, memo>>

\* The verify deadline cancels whatever verify() awaits: a place in the queue is given
\* up, a thread that did not start never does, one that runs goes on unobserved.
Expire(r) ==
  /\ pc[r] \notin {"working", "ended"}
  /\ Ends(r, "timeout")
  /\ Release(r)
  /\ queue' = RemoveFirst(queue, r)
  /\ thread' = IF r \in Swe /\ thread[r].state = "queued" THEN [thread EXCEPT ![r] = NoThread] ELSE thread
  /\ UNCHANGED <<inputs, patch, container, reports, graded, memo>>

-----------------------------------------------------------------------------
SweStep(r) ==
  \/ Capture(r) \/ Restore(r) \/ Miss(r)
  \/ AskForLock(r) \/ WokenUp(r) \/ Resume(r) \/ Store(r)
  \/ ThreadStarts(r) \/ ThreadEnds(r)

Next ==
  \/ \E r \in Rollouts : Submit(r) \/ Raises(r) \/ Expire(r)
  \/ \E r \in Swe : SweStep(r)
  \/ \E r \in Terminal : RunVerifier(r) \/ ReadReward(r)

\* The event loop wakes who is next for a free lock and fires the deadline of who grades; no
\* thread, container or policy is trusted to go on, and no waiter's own deadline either.
Spec ==
  /\ Init /\ [][Next]_vars
  /\ \A r \in Swe : WF_vars(WokenUp(r)) /\ WF_vars(pc[r] = "grading" /\ Expire(r))

-----------------------------------------------------------------------------
(* Properties *)

\* A grade a rollout is given was found by an official grading of that instance and of
\* the diff captured from this rollout, or by the verifier run in its own container:
\* never by what the agent left there, an output that got lost, an older diff or a
\* grading that was given up.
VerdictIsOwn ==
  \A r \in Rollouts : ending[r] \in Grade =>
    IF r \in Swe THEN <<r, patch[r], ending[r]>> \in graded
    ELSE verifier[r] # "absent" /\ ending[r] = Read(verifier[r])

\* No completed grading is lost to a VerifierCorruptError, which run_task_loop would score as
\* a crash of the environment: while a rollout awaits its grader the module-wide log
\* directory is its own, however many others submit, time out or still have threads running.
ReportsAreFound == \A r \in Swe : ending[r] # "corrupt"

\* Whoever leaves, the module-wide log directory is back at its default when nobody
\* grades: an abandoned thread never starts in the directory of a rollout that ended.
LogDirIsRestored == holder = Nobody => logDir = Default

\* The module-wide log directory belongs to the rollout that grades, and to nobody else
\* afterwards.
LogDirIsOwn ==
  /\ ReportsAreFound
  /\ LogDirIsRestored

\* What the verify cache holds was found by an official grading of that very diff.
MemoIsEarned ==
  \A k \in Swe \X Patches : memo[k] \in Grade => <<k[1], k[2], memo[k]>> \in graded

\* A grade, given or memoized, was found for the very diff or container it is given for.
GradesAreOwn ==
  /\ TypeOK
  /\ VerdictIsOwn
  /\ MemoIsEarned

\* The grader lock moves on: whoever waits for it gets it unless he gives up himself, though
\* every grader thread may hang for ever and waiters before him may be cancelled in the queue.
\* His own deadline is not what gets him out.
LockMovesOn == \A r \in Swe : pc[r] = "waiting" ~> pc[r] # "waiting"
=============================================================================
