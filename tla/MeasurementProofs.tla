------------------------- MODULE MeasurementProofs -------------------------
(***************************************************************************)
(* The safety properties of one isolated measurement, for every panel, any *)
(* heartbeat and watchdog interval the constants allow, any pipe and any   *)
(* number of interrupts.                                                   *)
(***************************************************************************)
EXTENDS Measurement, SequenceTheorems, TLAPS

-----------------------------------------------------------------------------
(* The inductive invariant.                                                *)

\* experiment_started is under way.
Announced == \E i \in 1..Len(pipe) : pipe[i] = "started"

\* The worker went past experiment_started.
Started == child \in {"running", "finalized", "closed"}

\* What is on disk follows the phase of a living worker; what it finalized stays complete
\* until the supervisor concludes.
RecordInv ==
  /\ Alive => record.status = IF child = "boot" THEN "absent"
                              ELSE IF child \in {"saved", "running"} THEN "running"
                              ELSE "complete"
  /\ child \in {"finalized", "closed"} /\ parent # "done" => record.status = "complete"
  /\ record.status = "complete" => record.results = Tasks

\* An id is under way or known only once the record exists, and it is not lost as long
\* as the supervisor has no other outcome.
IdInv ==
  /\ Announced \/ reported => record.status # "absent"
  /\ Started /\ outcome = "none" => Announced \/ reported
  /\ ~Listening /\ outcome = "none" => pipe = <<>>

\* The supervisor goes on from its finally only when the worker is gone.
SupervisorInv ==
  /\ parent \in {"sweep", "conclude", "done"} => ~Alive
  /\ parent \in {"conclude", "done"} /\ containers =>
       swept = "failed" \/ (swept = "cut" /\ outcome = "interrupted")
  /\ parent = "conclude" => swept \in {"done", "failed"}
  /\ parent \in {"poll", "drain", "conclude"} => outcome = "none"
  /\ parent # "done" => outcome \in {"none", "interrupted", "invalid_event"}
  /\ parent = "done" => outcome # "none"
  /\ watchdog => blocked /\ exit = "killed"

\* Silence is bounded by the heartbeat interval while the worker's loop turns; the one
\* phase change that sends nothing may double it.
QuietInv ==
  parent = "poll" /\ pipe = <<>> /\ Healthy =>
    /\ child \in {"boot", "running"} => quiet <= due
    /\ child \in {"saved", "finalized"} => quiet <= Heartbeat + due

\* What the call ended with agrees with what it found.
ConcludedInv ==
  parent = "done" =>
    /\ outcome = "ok" => exit = "ok" /\ record.status = "complete" /\ record.requested
    /\ exit = "ok" /\ child \in {"finalized", "closed"} =>
         outcome \notin {"failed", "failed_unmarked", "failed_without_result"}
    /\ outcome = "failed" => reported /\ record.status = "crashed"
    /\ outcome = "failed_unmarked" => reported /\ record.status # "absent"
    /\ outcome = "failed_without_result" => ~reported

IInv ==
  /\ TypeOK /\ RecordInv /\ IdInv /\ SupervisorInv /\ QuietInv /\ ConcludedInv

-----------------------------------------------------------------------------
(* The pipe.                                                               *)

\* An event that is sent adds itself to what is under way and nothing else.
LEMMA SendAnnounces ==
  ASSUME pipe \in Seq(Event), NEW event \in Event, Send(event)
  PROVE  /\ pipe' \in Seq(Event) /\ Len(pipe') <= MaxPipe /\ pipe' # <<>>
         /\ Announced' <=> Announced \/ event = "started"
         /\ Listening
<1>1. /\ pipe' = Append(pipe, event) /\ Len(pipe) < MaxPipe /\ Listening
  BY DEF Send
<1>2. /\ pipe' \in Seq(Event) /\ pipe' # <<>> /\ Len(pipe') = Len(pipe) + 1
      /\ \A i \in 1..Len(pipe) : pipe'[i] = pipe[i]
      /\ pipe'[Len(pipe) + 1] = event
  BY <1>1, AppendProperties
<1>3. Len(pipe) \in Nat
  BY LenProperties
<1>4. Len(pipe') <= MaxPipe
  BY <1>1, <1>2, <1>3, MeasurementAssumption
<1>5. Announced' <=> Announced \/ event = "started"
  BY <1>2, <1>3 DEF Announced
<1>6. QED
  BY <1>1, <1>2, <1>4, <1>5

\* forward_event takes one event, and an id with it.
LEMMA ForwardReports ==
  ASSUME pipe \in Seq(Event), Len(pipe) <= MaxPipe, Forward
  PROVE  /\ pipe' \in Seq(Event) /\ Len(pipe') <= MaxPipe /\ reported' \in BOOLEAN
         /\ Announced' \/ reported' <=> Announced \/ reported
         /\ \/ parent' = "terminate" /\ outcome' = "invalid_event"
            \/ UNCHANGED <<parent, outcome>>
<1>1. /\ pipe # <<>> /\ pipe' = Tail(pipe)
      /\ reported' = (reported \/ Head(pipe) = "started")
  BY DEF Forward
<1>2. /\ pipe' \in Seq(Event) /\ Len(pipe') = Len(pipe) - 1
      /\ \A i \in 1..Len(pipe') : pipe'[i] = pipe[i + 1]
  BY <1>1, HeadTailProperties
<1>3. Len(pipe) \in Nat \ {0} /\ Head(pipe) = pipe[1]
  BY <1>1, EmptySeq
<1>4. Len(pipe') <= MaxPipe
  BY <1>2, <1>3, MeasurementAssumption
<1>5. Announced <=> Announced' \/ Head(pipe) = "started"
  <2>1. ASSUME Announced PROVE Announced' \/ Head(pipe) = "started"
    <3>1. PICK i \in 1..Len(pipe) : pipe[i] = "started"
      BY <2>1 DEF Announced
    <3>2. CASE i = 1
      BY <3>1, <3>2, <1>3
    <3>3. CASE i # 1
      <4>1. i - 1 \in 1..Len(pipe') /\ pipe'[i - 1] = "started"
        BY <3>1, <3>3, <1>2, <1>3
      <4>2. QED
        BY <4>1 DEF Announced
    <3>4. QED
      BY <3>2, <3>3
  <2>2. ASSUME Announced' PROVE Announced
    <3>1. PICK i \in 1..Len(pipe') : pipe'[i] = "started"
      BY <2>2 DEF Announced
    <3>2. i + 1 \in 1..Len(pipe) /\ pipe[i + 1] = "started"
      BY <3>1, <1>2, <1>3
    <3>3. QED
      BY <3>2 DEF Announced
  <2>3. ASSUME Head(pipe) = "started" PROVE Announced
    BY <2>3, <1>3 DEF Announced
  <2>4. QED
    BY <2>1, <2>2, <2>3
<1>6. \/ parent' = "terminate" /\ outcome' = "invalid_event"
      \/ UNCHANGED <<parent, outcome>>
  BY DEF Forward
<1>7. QED
  BY <1>1, <1>2, <1>4, <1>5, <1>6

LEMMA EmptyPipe == pipe = <<>> => ~Announced
BY DEF Announced

LEMMA SamePipe == pipe' = pipe => (Announced' <=> Announced)
BY DEF Announced

-----------------------------------------------------------------------------
(* Every step keeps it.                                                    *)

LEMMA InitInvariant == Init => IInv
<1> SUFFICES ASSUME Init PROVE IInv
  OBVIOUS
<1>1. TypeOK
  <2>1. pipe \in Seq(Event) /\ Len(pipe) <= MaxPipe
    BY MeasurementAssumption, EmptySeq DEF Init
  <2>2. due \in 0..Heartbeat /\ quiet \in 0..Watchdog /\ interrupts \in 0..MaxInterrupts
    BY MeasurementAssumption DEF Init
  <2>3. QED
    BY <2>1, <2>2 DEF Init, TypeOK
<1>2. RecordInv /\ IdInv /\ SupervisorInv /\ QuietInv /\ ConcludedInv
  BY EmptyPipe
  DEF Init, RecordInv, IdInv, SupervisorInv, QuietInv, ConcludedInv, Started, Listening, Alive,
      Healthy
<1>3. QED
  BY <1>1, <1>2 DEF IInv

\* The worker, its faults and the time it takes.
LEMMA WorkerStep ==
  ASSUME IInv, Child \/ Faults \/ Tick
  PROVE  IInv'
<1> USE MeasurementAssumption
    DEF IInv, TypeOK, RecordInv, IdInv, SupervisorInv, QuietInv, ConcludedInv, Started, Listening,
        Alive, Healthy, Undisturbed, childVars, parentVars
<1>1. CASE ChildSave
  BY <1>1, SamePipe DEF ChildSave
<1>2. CASE ChildStart
  <2>1. /\ pipe' \in Seq(Event) /\ Len(pipe') <= MaxPipe /\ pipe' # <<>>
        /\ Announced' /\ Listening
    BY <1>2, SendAnnounces DEF ChildStart, Event
  <2>2. TypeOK' /\ RecordInv' /\ IdInv'
    BY <1>2, <2>1 DEF ChildStart
  <2>3. SupervisorInv' /\ QuietInv' /\ ConcludedInv'
    BY <1>2, <2>1 DEF ChildStart
  <2>4. QED
    BY <2>2, <2>3
<1>3. CASE ChildTask
  <2>1. /\ pipe' \in Seq(Event) /\ Len(pipe') <= MaxPipe /\ pipe' # <<>>
        /\ (Announced' <=> Announced) /\ Listening
    BY <1>3, SendAnnounces DEF ChildTask, Event
  <2>2. TypeOK' /\ RecordInv'
    <3>1. PICK t \in Tasks : record' = [record EXCEPT !.results = @ \cup {t}]
      BY <1>3 DEF ChildTask
    <3>2. /\ record' \in [status: {"absent", "running", "complete", "crashed"},
                          requested: BOOLEAN, results: SUBSET Tasks]
          /\ record'.status = "running"
      BY <1>3, <3>1 DEF ChildTask
    <3>3. QED
      BY <1>3, <2>1, <3>2 DEF ChildTask
  <2>3. IdInv' /\ SupervisorInv' /\ QuietInv' /\ ConcludedInv'
    BY <1>3, <2>1 DEF ChildTask
  <2>4. QED
    BY <2>2, <2>3
<1>4. CASE ChildHeartbeat
  BY <1>4, SendAnnounces DEF ChildHeartbeat, Event
<1>5. CASE ChildFinalize
  BY <1>5, SamePipe DEF ChildFinalize
<1>6. CASE ChildClose
  BY <1>6, SamePipe DEF ChildClose
<1>7. CASE ChildExit
  <2>1. Announced' <=> Announced
    BY <1>7, SamePipe DEF ChildExit
  <2>2. TypeOK'
    BY <1>7 DEF ChildExit, AtExit
  <2>3. RecordInv' /\ IdInv' /\ SupervisorInv'
    BY <1>7, <2>1 DEF ChildExit
  <2>4. QuietInv' /\ ConcludedInv'
    BY <1>7 DEF ChildExit
  <2>5. QED
    BY <2>2, <2>3, <2>4
<1>8. CASE ChildBabbles
  BY <1>8, SendAnnounces DEF ChildBabbles, Event
<1>9. CASE ChildRaises
  <2>1. CASE child = "running"
    <3>1. record' = [record EXCEPT !.status = "crashed"]
      BY <1>9, <2>1 DEF ChildRaises, mark_crashed
    <3>2. TypeOK'
      BY <1>9, <2>1, <3>1 DEF ChildRaises, AtExit
    <3>3. RecordInv' /\ IdInv'
      BY <1>9, <2>1, <3>1, SamePipe DEF ChildRaises
    <3>4. SupervisorInv' /\ QuietInv' /\ ConcludedInv'
      BY <1>9, <2>1, <3>1 DEF ChildRaises, AtExit
    <3>5. QED
      BY <3>2, <3>3, <3>4
  <2>2. CASE child # "running"
    <3>1. record' = record
      BY <1>9, <2>2 DEF ChildRaises
    <3>2. TypeOK'
      BY <1>9, <3>1 DEF ChildRaises, AtExit
    <3>3. RecordInv' /\ IdInv'
      BY <1>9, <3>1, SamePipe DEF ChildRaises
    <3>4. SupervisorInv' /\ QuietInv' /\ ConcludedInv'
      BY <1>9, <3>1 DEF ChildRaises, AtExit
    <3>5. QED
      BY <3>2, <3>3, <3>4
  <2>3. QED
    BY <2>1, <2>2
<1>10. CASE ChildDies
  BY <1>10, SamePipe DEF ChildDies
<1>11. CASE ChildBlocks
  BY <1>11, SamePipe DEF ChildBlocks
<1>12. CASE Tick
  BY <1>12, SamePipe DEF Tick
<1>13. CASE ChildQuits
  BY <1>13, SamePipe DEF ChildQuits
<1>14. QED
  BY <1>1, <1>2, <1>3, <1>4, <1>5, <1>6, <1>7, <1>8, <1>9, <1>10, <1>11, <1>12, <1>13
  DEF Child, Faults

\* The supervisor and its operator.
LEMMA SupervisorStep ==
  ASSUME IInv, Parent \/ Interrupt \/ InterruptCleanup
  PROVE  IInv'
<1> USE MeasurementAssumption
    DEF IInv, TypeOK, RecordInv, IdInv, SupervisorInv, QuietInv, ConcludedInv, Started, Listening,
        Alive, Healthy, Undisturbed, childVars, parentVars
<1>1. CASE Receive
  BY <1>1, ForwardReports DEF Receive
<1>2. CASE StopPolling
  BY <1>2, SamePipe, EmptyPipe DEF StopPolling
<1>3. CASE WatchdogKill
  BY <1>3, SamePipe, EmptyPipe DEF WatchdogKill
<1>4. CASE Drain
  <2>1. CASE Forward
    BY <1>4, <2>1, ForwardReports DEF Drain
  <2>2. CASE pipe = <<>> /\ parent' = "terminate" /\ UNCHANGED <<pipe, reported, outcome>>
    BY <1>4, <2>2, SamePipe DEF Drain
  <2>3. QED
    BY <1>4, <2>1, <2>2 DEF Drain
<1>5. CASE SendSigint
  BY <1>5, SamePipe DEF SendSigint
<1>6. CASE KillChild
  BY <1>6, SamePipe DEF KillChild
<1>7. CASE ChildReaped
  BY <1>7, SamePipe DEF ChildReaped
<1>8. CASE Sweep
  <2>1. Announced' <=> Announced
    BY <1>8, SamePipe DEF Sweep
  <2>2. TypeOK'
    BY <1>8 DEF Sweep
  <2>3. RecordInv' /\ IdInv'
    BY <1>8, <2>1 DEF Sweep
  <2>4. SupervisorInv' /\ QuietInv' /\ ConcludedInv'
    BY <1>8 DEF Sweep
  <2>5. QED
    BY <2>2, <2>3, <2>4
<1>9. CASE Conclude
  <2> USE SamePipe DEF Conclude
  <2>1. record.status # "absent" \/ ~reported
    OBVIOUS
  <2>2. Started => reported
    BY <1>9, EmptyPipe
  <2>3. CASE ~reported /\ outcome' = "failed_without_result" /\ record' = record
    BY <1>9, <2>2, <2>3
  <2>4. CASE reported /\ Broken /\ record' = mark_crashed /\ outcome' = "failed"
    <3>1. record' = [record EXCEPT !.status = "crashed"]
      BY <2>1, <2>4 DEF mark_crashed
    <3>2. QED
      BY <1>9, <2>4, <3>1 DEF Broken
  <2>5. CASE reported /\ Broken /\ outcome' = "failed_unmarked" /\ record' = record
    BY <1>9, <2>1, <2>5 DEF Broken
  <2>6. CASE reported /\ ~Broken /\ outcome' \in {"ok", "wrong_panel"} /\ record' = record
             /\ (outcome' = "ok" => record.requested)
    BY <1>9, <2>1, <2>6 DEF Broken
  <2>7. QED
    BY <1>9, <2>3, <2>4, <2>5, <2>6
<1>10. CASE Interrupt
  BY <1>10 DEF Interrupt, Announced
<1>11. CASE InterruptCleanup
  BY <1>11, SamePipe DEF InterruptCleanup
<1>12. QED
  BY <1>1, <1>2, <1>3, <1>4, <1>5, <1>6, <1>7, <1>8, <1>9, <1>10, <1>11 DEF Parent

LEMMA Invariance == Spec => []IInv
<1>1. IInv /\ [Next]_vars => IInv'
  <2> SUFFICES ASSUME IInv, [Next]_vars PROVE IInv'
    OBVIOUS
  <2>1. CASE UNCHANGED vars
    BY <2>1, SamePipe
    DEF vars, childVars, IInv, TypeOK, RecordInv, IdInv, SupervisorInv, QuietInv, ConcludedInv,
        Started, Listening, Alive, Healthy
  <2>2. QED
    BY <2>1, WorkerStep, SupervisorStep DEF Next, Done
<1>2. QED
  BY <1>1, InitInvariant, PTL DEF Spec

-----------------------------------------------------------------------------
(* What follows from it.                                                   *)

\* What run_isolated_experiment concludes is what is on disk, wherever the worker died,
\* unwound or exited with code 0 and however the pipe was read: a run it returns came to
\* its end with every requested task, one whose worker finished is returned, the result
\* that comes with a failure is crashed on disk.
THEOREM OutcomeSafe == Spec => []OutcomeIsTrue
<1>1. IInv => ReturnedRunsAreComplete
  BY DEF IInv, RecordInv, SupervisorInv, ConcludedInv, ReturnedRunsAreComplete
<1>2. IInv => NoFinishedRunIsLost
  BY DEF IInv, TypeOK, SupervisorInv, ConcludedInv, NoFinishedRunIsLost
<1>3. IInv => FailedRunsAreFinalized
  BY DEF IInv, ConcludedInv, FailedRunsAreFinalized
<1>4. IInv => OutcomeIsTrue
  BY <1>1, <1>2, <1>3 DEF IInv, OutcomeIsTrue
<1>5. QED
  BY <1>4, Invariance, PTL

\* The watchdog kills none but a blocked worker, for every watchdog longer than two
\* heartbeats (WATCHDOG_INACTIVITY_SEC against HEARTBEAT_INTERVAL_SEC).
THEOREM WatchdogSafe == Spec => []WatchdogSparesTheLiving
<1>1. IInv => WatchdogSparesTheLiving
  BY DEF IInv, SupervisorInv, WatchdogSparesTheLiving
<1>2. QED
  BY <1>1, Invariance, PTL

\* The sweep in the finally leaves no docker resources of the worker, unless docker fails in
\* it or a KeyboardInterrupt hits the clean-up.
THEOREM SweepSafe == Spec => []NothingLeftBehind
<1>1. IInv => NothingLeftBehind
  BY DEF IInv, SupervisorInv, NothingLeftBehind
<1>2. QED
  BY <1>1, Invariance, PTL
=============================================================================
