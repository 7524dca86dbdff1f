----------------------------- MODULE HostProofs -----------------------------
(***************************************************************************)
(* The safety properties of experiment processes that share a host, for    *)
(* any processes, auditors among them, any panel, any number of slots,     *)
(* pool threads, retries and troubles.                                     *)
(***************************************************************************)
EXTENDS Host, FiniteSetTheorems, TLAPS

-----------------------------------------------------------------------------
(* The inductive invariant.                                                *)

\* A rollout that works on its task has the task's flock.
LockHeld ==
  \A p \in Procs \ Auditors, t \in Tasks :
    Alive(p) /\ pc[p][t] \in Working => lock[t] = p

\* A process that is gone left no thread behind.
NoStarterOutlives ==
  \A p \in Procs, t \in Tasks : starter[p][t] # "none" => Alive(p)

\* Without troubles, what docker holds and what the session remembers agree, and both
\* end before the rollout gets to its release.
Tracked(p, t) ==
  /\ proc[p] \in {"up", "exited"}
  /\ Id(p, t) \in networks => proc[p] = "up" /\ session[p][t].network
  /\ Id(p, t) \in containers => proc[p] = "up" /\ session[p][t].started
  /\ proc[p] = "up" =>
       /\ session[p][t].network =>
            Id(p, t) \in networks /\ pc[p][t] \in {"start", "starting", "live", "close", "network"}
       /\ session[p][t].started => pc[p][t] \in {"live", "close"}
       /\ starter[p][t] # "none" => pc[p][t] = "starting"
       /\ starter[p][t] = "run" => session[p][t].network

Calm == troubles = 0 => \A p \in Procs, t \in Tasks : Tracked(p, t)

IInv ==
  /\ TypeOK
  /\ LimiterIsExact
  /\ LockHeld
  /\ NoStarterOutlives
  /\ NothingOutlivesItsOwner
  /\ Calm

-----------------------------------------------------------------------------
(* What an assignment to one rollout's entry does.                         *)

LEMMA EntryUpdated ==
  ASSUME NEW C, NEW f \in [Procs -> [Tasks -> C]], NEW p \in Procs, NEW t \in Tasks, NEW c \in C
  PROVE  /\ [f EXCEPT ![p][t] = c] \in [Procs -> [Tasks -> C]]
         /\ \A q \in Procs, u \in Tasks :
              [f EXCEPT ![p][t] = c][q][u] = IF q = p /\ u = t THEN c ELSE f[q][u]
OBVIOUS

LEMMA GotoIs ==
  ASSUME TypeOK, NEW p \in Procs, NEW t \in Tasks, NEW step \in Steps, Goto(p, t, step)
  PROVE  /\ pc' \in [Procs -> [Tasks -> Steps]]
         /\ \A q \in Procs, u \in Tasks :
              pc'[q][u] = IF q = p /\ u = t THEN step ELSE pc[q][u]
BY EntryUpdated DEF TypeOK, Goto

LEMMA StarterIs ==
  ASSUME TypeOK, NEW p \in Procs, NEW t \in Tasks, NEW c \in {"none", "net", "run"},
         starter' = [starter EXCEPT ![p][t] = c]
  PROVE  /\ starter' \in [Procs -> [Tasks -> {"none", "net", "run"}]]
         /\ \A q \in Procs, u \in Tasks :
              starter'[q][u] = IF q = p /\ u = t THEN c ELSE starter[q][u]
BY EntryUpdated DEF TypeOK

LEMMA SessionIs ==
  ASSUME TypeOK, NEW p \in Procs, NEW t \in Tasks, NEW field \in {"started", "network"},
         NEW value \in BOOLEAN, session' = Set(p, t, field, value)
  PROVE  /\ session' \in [Procs -> [Tasks -> [started: BOOLEAN, network: BOOLEAN]]]
         /\ \A q \in Procs, u \in Tasks :
              /\ session'[q][u].started = IF q = p /\ u = t /\ field = "started" THEN value
                                          ELSE session[q][u].started
              /\ session'[q][u].network = IF q = p /\ u = t /\ field = "network" THEN value
                                          ELSE session[q][u].network
BY DEF TypeOK, Set

LEMMA SetNetwork ==
  ASSUME TypeOK, NEW p \in Procs, NEW t \in Tasks, NEW value \in BOOLEAN,
         session' = Set(p, t, "network", value)
  PROVE  /\ session'[p][t].network <=> value
         /\ session'[p][t].started = session[p][t].started
         /\ \A q \in Procs, u \in Tasks : q # p \/ u # t => session'[q][u] = session[q][u]
BY DEF TypeOK, Set

LEMMA SetStarted ==
  ASSUME TypeOK, NEW p \in Procs, NEW t \in Tasks, NEW value \in BOOLEAN,
         session' = Set(p, t, "started", value)
  PROVE  /\ session'[p][t].started <=> value
         /\ session'[p][t].network = session[p][t].network
         /\ \A q \in Procs, u \in Tasks : q # p \/ u # t => session'[q][u] = session[q][u]
BY DEF TypeOK, Set

-----------------------------------------------------------------------------
(* The limiter.                                                            *)

Inside(p) == {t \in Tasks : pc[p][t] \notin {"queued", "done"}}
Counted(p) == {t \in Tasks : pc[p][t] \in Admitted}

LimiterType == free \in [Procs -> 0..Slots] /\ active \in [Procs -> 0..Slots]

\* How many slots, and how many admissions, a rollout has at a step.
SlotAt(step) == IF step \in {"queued", "done"} THEN 0 ELSE 1
AdmissionAt(step) == IF step \in Admitted THEN 1 ELSE 0

\* A set that gains or loses one task.
LEMMA OneMoves ==
  ASSUME NEW A \in SUBSET Tasks, NEW B \in SUBSET Tasks, NEW t \in Tasks,
         \A u \in Tasks \ {t} : u \in A <=> u \in B
  PROVE  /\ Cardinality(A) \in Nat /\ Cardinality(B) \in Nat
         /\ Cardinality(B) + (IF t \in A THEN 1 ELSE 0) = Cardinality(A) + (IF t \in B THEN 1 ELSE 0)
<1>1. IsFiniteSet(A) /\ IsFiniteSet(B)
  BY HostAssumption, FS_Subset
<1>2. Cardinality(A) \in Nat /\ Cardinality(B) \in Nat
  BY <1>1, FS_CardinalityType
<1>3. CASE t \in A /\ t \notin B
  <2>1. B = A \ {t}
    BY <1>3
  <2>2. QED
    BY <1>1, <1>2, <1>3, <2>1, FS_RemoveElement
<1>4. CASE t \notin A /\ t \in B
  <2>1. B = A \cup {t}
    BY <1>4
  <2>2. QED
    BY <1>1, <1>2, <1>4, <2>1, FS_AddElement
<1>5. CASE t \in A <=> t \in B
  <2>1. A = B
    BY <1>5
  <2>2. QED
    BY <1>2, <2>1
<1>6. QED
  BY <1>3, <1>4, <1>5

LEMMA SlotArithmetic ==
  ASSUME NEW n \in Nat, NEW i \in Nat, NEW j \in Nat, NEW c \in Nat, NEW d \in Nat,
         NEW s \in 0..1, NEW r \in 0..1, NEW a \in 0..1, NEW b \in 0..1,
         j + s = i + r, d + a = c + b, d <= j, i <= n, s < r => n - i > 0
  PROVE  /\ n - i + s - r = n - j /\ c + b - a = d
         /\ n - j \in 0..n /\ d \in 0..n
OBVIOUS

\* A rollout that goes from one step to another keeps the limiter exact when the slots
\* and the active count move with it.
LEMMA LimiterFollows ==
  ASSUME TypeOK, LimiterIsExact, NEW p \in Procs, NEW t \in Tasks, NEW step \in Steps,
         Goto(p, t, step),
         free' = [q \in Procs |-> free'[q]],
         active' = [q \in Procs |-> active'[q]],
         free'[p] = free[p] + SlotAt(pc[p][t]) - SlotAt(step),
         active'[p] = active[p] + AdmissionAt(step) - AdmissionAt(pc[p][t]),
         \A q \in Procs \ {p} : free'[q] = free[q] /\ active'[q] = active[q],
         SlotAt(pc[p][t]) < SlotAt(step) => free[p] > 0
  PROVE  LimiterType' /\ LimiterIsExact'
<1>1. /\ \A q \in Procs, u \in Tasks :
           pc'[q][u] = IF q = p /\ u = t THEN step ELSE pc[q][u]
      /\ pc' \in [Procs -> [Tasks -> Steps]]
  BY GotoIs
<1>2. \A q \in Procs \ {p} : Inside(q)' = Inside(q) /\ Counted(q)' = Counted(q)
  BY <1>1 DEF Inside, Counted
<1>3. Slots \in Nat
  BY HostAssumption
<1>4. \A q \in Procs : /\ free[q] \in 0..Slots /\ active[q] \in 0..Slots
                       /\ free[q] = Slots - Cardinality(Inside(q))
                       /\ active[q] = Cardinality(Counted(q))
  BY DEF TypeOK, LimiterIsExact, Inside, Counted
<1>5. /\ Cardinality(Inside(p)) \in Nat /\ Cardinality(Inside(p)') \in Nat
      /\ Cardinality(Inside(p)') + SlotAt(pc[p][t]) = Cardinality(Inside(p)) + SlotAt(step)
  <2>1. /\ Inside(p) \in SUBSET Tasks /\ Inside(p)' \in SUBSET Tasks
        /\ \A u \in Tasks \ {t} : u \in Inside(p) <=> u \in Inside(p)'
        /\ t \in Inside(p) <=> SlotAt(pc[p][t]) = 1
        /\ t \in Inside(p)' <=> SlotAt(step) = 1
    BY <1>1 DEF Inside, SlotAt
  <2>2. QED
    BY <2>1, OneMoves DEF SlotAt
<1>6. /\ Cardinality(Counted(p)) \in Nat /\ Cardinality(Counted(p)') \in Nat
      /\ Cardinality(Counted(p)') + AdmissionAt(pc[p][t]) = Cardinality(Counted(p)) + AdmissionAt(step)
  <2>1. /\ Counted(p) \in SUBSET Tasks /\ Counted(p)' \in SUBSET Tasks
        /\ \A u \in Tasks \ {t} : u \in Counted(p) <=> u \in Counted(p)'
        /\ t \in Counted(p) <=> AdmissionAt(pc[p][t]) = 1
        /\ t \in Counted(p)' <=> AdmissionAt(step) = 1
    BY <1>1 DEF Counted, AdmissionAt
  <2>2. QED
    BY <2>1, OneMoves DEF AdmissionAt
<1>7. Cardinality(Counted(p)') <= Cardinality(Inside(p)')
  <2>1. Counted(p)' \in SUBSET Inside(p)' /\ IsFiniteSet(Inside(p)')
    BY HostAssumption, FS_Subset DEF Counted, Inside, Admitted
  <2>2. QED
    BY <2>1, FS_Subset
<1>8. /\ SlotAt(pc[p][t]) \in 0..1 /\ SlotAt(step) \in 0..1
      /\ AdmissionAt(pc[p][t]) \in 0..1 /\ AdmissionAt(step) \in 0..1
  BY DEF SlotAt, AdmissionAt
<1>9. /\ free'[p] = Slots - Cardinality(Inside(p)') /\ active'[p] = Cardinality(Counted(p)')
      /\ free'[p] \in 0..Slots /\ active'[p] \in 0..Slots
  BY ONLY p \in Procs, SlotAt(pc[p][t]) < SlotAt(step) => free[p] > 0,
     free'[p] = free[p] + SlotAt(pc[p][t]) - SlotAt(step),
     active'[p] = active[p] + AdmissionAt(step) - AdmissionAt(pc[p][t]),
     <1>3, <1>4, <1>5, <1>6, <1>7, <1>8, SlotArithmetic
<1>10. LimiterType'
  BY <1>4, <1>9 DEF LimiterType
<1>11. LimiterIsExact'
  BY <1>2, <1>4, <1>9 DEF LimiterIsExact, Inside, Counted
<1>12. QED
  BY <1>10, <1>11

\* A step that leaves every rollout where it is and the limiter alone.
LEMMA LimiterStays ==
  ASSUME TypeOK, LimiterIsExact, UNCHANGED <<pc, limiter>>
  PROVE  LimiterType' /\ LimiterIsExact'
BY DEF TypeOK, LimiterIsExact, LimiterType, limiter

LEMMA LimiterKept ==
  ASSUME TypeOK, LimiterIsExact, NEW p \in Procs, NEW t \in Tasks, NEW step \in Steps,
         Goto(p, t, step), UNCHANGED limiter,
         SlotAt(step) = SlotAt(pc[p][t]), AdmissionAt(step) = AdmissionAt(pc[p][t])
  PROVE  LimiterType' /\ LimiterIsExact'
<1>1. SlotAt(step) \in 0..1 /\ AdmissionAt(step) \in 0..1
  BY DEF SlotAt, AdmissionAt
<1>2. free[p] \in Int /\ active[p] \in Int
  BY HostAssumption DEF TypeOK
<1>3. /\ free[p] + SlotAt(step) - SlotAt(step) = free[p]
      /\ active[p] + AdmissionAt(step) - AdmissionAt(step) = active[p]
  BY <1>1, <1>2
<1>4. /\ free' = [q \in Procs |-> free'[q]] /\ active' = [q \in Procs |-> active'[q]]
      /\ free' = free /\ active' = active
  BY DEF limiter, TypeOK
<1>5. ~(SlotAt(pc[p][t]) < SlotAt(step))
  BY <1>1
<1>6. QED
  BY <1>3, <1>4, <1>5, LimiterFollows

LEMMA RolloutLimiter ==
  ASSUME TypeOK, LimiterIsExact, NEW p \in Procs, NEW t \in Tasks, Rollout(p, t)
  PROVE  LimiterType' /\ LimiterIsExact'
<1>0. /\ \A q \in Procs : free[q] \in Int /\ active[q] \in Int
      /\ free = [q \in Procs |-> free[q]] /\ active = [q \in Procs |-> active[q]]
  BY HostAssumption DEF TypeOK
<1> USE DEF At, Steps
<1>1. CASE TakeSlot(p, t)
  <2>1. /\ SlotAt(pc[p][t]) = 0 /\ SlotAt("admitting") = 1
        /\ AdmissionAt(pc[p][t]) = 0 /\ AdmissionAt("admitting") = 0
    BY <1>1 DEF TakeSlot, SlotAt, AdmissionAt, Admitted
  <2>2. /\ Goto(p, t, "admitting") /\ free[p] > 0 /\ free' = [free EXCEPT ![p] = @ - 1]
        /\ active' = active
    BY <1>1 DEF TakeSlot
  <2>3. QED
    BY <1>0, <2>1, <2>2, LimiterFollows
<1>2. CASE Admit(p, t)
  <2>1. PICK step \in {"start", "waiting"} : Goto(p, t, step)
    BY <1>2 DEF Admit
  <2>2. /\ SlotAt(pc[p][t]) = 1 /\ SlotAt(step) = 1
        /\ AdmissionAt(pc[p][t]) = 0 /\ AdmissionAt(step) = 1
    BY <1>2, <2>1 DEF Admit, SlotAt, AdmissionAt, Admitted
  <2>3. free' = free /\ active' = [active EXCEPT ![p] = @ + 1]
    BY <1>2 DEF Admit
  <2>4. QED
    BY <1>0, <2>1, <2>2, <2>3, LimiterFollows
<1>3. CASE Release(p, t)
  <2>1. /\ SlotAt(pc[p][t]) = 1 /\ SlotAt("done") = 0
        /\ AdmissionAt(pc[p][t]) = 1 /\ AdmissionAt("done") = 0
    BY <1>3 DEF Release, SlotAt, AdmissionAt, Admitted
  <2>2. /\ Goto(p, t, "done")
        /\ free' = [free EXCEPT ![p] = @ + 1] /\ active' = [active EXCEPT ![p] = @ - 1]
    BY <1>3 DEF Release
  <2>3. /\ free' = [q \in Procs |-> free'[q]] /\ free'[p] = free[p] + 1
        /\ \A q \in Procs \ {p} : free'[q] = free[q]
    BY <1>0, <2>2
  <2>4. /\ active' = [q \in Procs |-> active'[q]] /\ active'[p] = active[p] - 1
        /\ \A q \in Procs \ {p} : active'[q] = active[q]
    BY <1>0, <2>2
  <2>5. /\ free[p] + SlotAt(pc[p][t]) - SlotAt("done") = free[p] + 1
        /\ active[p] + AdmissionAt("done") - AdmissionAt(pc[p][t]) = active[p] - 1
    BY <1>0, <2>1
  <2>6. ~(SlotAt(pc[p][t]) < SlotAt("done"))
    BY <2>1
  <2>7. QED
    BY <2>2, <2>3, <2>4, <2>5, <2>6, LimiterFollows
<1>4. CASE Park(p, t)
  BY <1>4, LimiterStays DEF Park
<1>5. CASE Granted(p, t)
  BY <1>5, LimiterStays, LimiterKept DEF SlotAt, AdmissionAt, Admitted, Granted
<1>6. CASE Start(p, t)
  BY <1>6, LimiterKept DEF SlotAt, AdmissionAt, Admitted, Start
<1>7. CASE CreateNetwork(p, t)
  BY <1>7, LimiterStays DEF CreateNetwork
<1>8. CASE RunContainer(p, t)
  BY <1>8, LimiterStays, LimiterKept DEF SlotAt, AdmissionAt, Admitted, RunContainer
<1>9. CASE StarterFails(p, t)
  BY <1>9, LimiterStays, LimiterKept DEF SlotAt, AdmissionAt, Admitted, StarterFails, StartFailed
<1>10. CASE StartTimesOut(p, t)
  BY <1>10, LimiterKept DEF SlotAt, AdmissionAt, Admitted, StartTimesOut
<1>11. CASE SetupFails(p, t)
  BY <1>11, LimiterKept DEF SlotAt, AdmissionAt, Admitted, SetupFails
<1>12. CASE Live(p, t)
  BY <1>12, LimiterKept DEF SlotAt, AdmissionAt, Admitted, Live
<1>13. CASE Backstop(p, t)
  BY <1>13, LimiterKept DEF SlotAt, AdmissionAt, Admitted, Backstop
<1>14. CASE CloseContainer(p, t)
  BY <1>14, LimiterKept DEF SlotAt, AdmissionAt, Admitted, CloseContainer
<1>15. CASE CloseNetwork(p, t)
  BY <1>15, LimiterKept DEF SlotAt, AdmissionAt, Admitted, CloseNetwork
<1>16. CASE Cancelled(p, t)
  <2>1. CASE pc[p][t] = "admitting"
    <3>1. /\ SlotAt(pc[p][t]) = 1 /\ SlotAt("done") = 0
          /\ AdmissionAt(pc[p][t]) = 0 /\ AdmissionAt("done") = 0
      BY <2>1 DEF SlotAt, AdmissionAt, Admitted
    <3>2. Goto(p, t, "done") /\ free' = [free EXCEPT ![p] = @ + 1] /\ active' = active
      BY <1>16, <2>1 DEF Cancelled, GiveSlotBack
    <3>3. QED
      BY <1>0, <3>1, <3>2, LimiterFollows
  <2>2. CASE pc[p][t] # "admitting"
    BY <1>16, <2>2, LimiterKept DEF SlotAt, AdmissionAt, Admitted, Cancelled, limiter
  <2>3. QED
    BY <2>1, <2>2
<1>17. QED
  BY <1>1, <1>2, <1>3, <1>4, <1>5, <1>6, <1>7, <1>8, <1>9, <1>10, <1>11, <1>12, <1>13, <1>14,
     <1>15, <1>16 DEF Rollout

-----------------------------------------------------------------------------
(* Types.                                                                  *)

Things == [task: Tasks, owner: Procs]

LEMMA IdIsThing ==
  /\ \A p \in Procs, t \in Tasks : /\ Id(p, t) \in Things
                                   /\ Id(p, t).task = t /\ Id(p, t).owner = p
  /\ \A thing \in Things : thing = Id(thing.owner, thing.task)
BY DEF Id, Things

\* TypeOK, one variable at a time.
ProcType == proc \in [Procs -> {"up", "interrupted", "exited", "killed", "swept"}]
PcType == pc \in [Procs -> [Tasks -> Steps]]
LockType == lock \in [Tasks -> Procs \cup {Nobody}]
ParkedType == parked \subseteq Rollouts
StarterType == starter \in [Procs -> [Tasks -> {"none", "net", "run"}]]
AttemptsType == attempts \in [Procs -> [Tasks -> 0..Retries + 1]]
SessionType == session \in [Procs -> [Tasks -> [started: BOOLEAN, network: BOOLEAN]]]
NetworksType == networks \subseteq Things
ContainersType == containers \subseteq Things
TroublesType == troubles \in 0..MaxTroubles

LEMMA TypeParts ==
  TypeOK <=> /\ ProcType /\ PcType /\ LimiterType /\ LockType /\ ParkedType /\ StarterType
             /\ AttemptsType /\ SessionType /\ NetworksType /\ ContainersType /\ TroublesType
BY DEF TypeOK, ProcType, PcType, LimiterType, LockType, ParkedType, StarterType, AttemptsType,
       SessionType, NetworksType, ContainersType, TroublesType, Things

LEMMA TypePartsNext ==
  ASSUME ProcType', PcType', LimiterType', LockType', ParkedType', StarterType', AttemptsType',
         SessionType', NetworksType', ContainersType', TroublesType'
  PROVE  TypeOK'
BY DEF TypeOK, ProcType, PcType, LimiterType, LockType, ParkedType, StarterType, AttemptsType,
       SessionType, NetworksType, ContainersType, TroublesType, Things

LEMMA TypeFrame ==
  ASSUME TypeOK
  PROVE  /\ proc' = proc => ProcType'
         /\ pc' = pc => PcType'
         /\ UNCHANGED limiter => LimiterType'
         /\ lock' = lock => LockType'
         /\ parked' \subseteq parked => ParkedType'
         /\ starter' = starter => StarterType'
         /\ attempts' = attempts => AttemptsType'
         /\ session' = session => SessionType'
         /\ networks' \subseteq networks => NetworksType'
         /\ containers' \subseteq containers => ContainersType'
         /\ troubles' = troubles => TroublesType'
<1>1. /\ ProcType /\ PcType /\ LimiterType /\ LockType /\ ParkedType /\ StarterType
      /\ AttemptsType /\ SessionType /\ NetworksType /\ ContainersType /\ TroublesType
  BY TypeParts
<1>2. QED
  BY <1>1
  DEF ProcType, PcType, LimiterType, LockType, ParkedType, StarterType, AttemptsType,
      SessionType, NetworksType, ContainersType, TroublesType, limiter

\* What the assignments of the actions leave typed.
LEMMA Assigned ==
  ASSUME TypeOK, NEW p \in Procs, NEW t \in Tasks
  PROVE  /\ \A step \in Steps : Goto(p, t, step) => PcType'
         /\ lock' = [lock EXCEPT ![t] = p] => LockType'
         /\ lock' = [lock EXCEPT ![t] = Nobody] => LockType'
         /\ \A c \in {"none", "net", "run"} : starter' = [starter EXCEPT ![p][t] = c] => StarterType'
         /\ \A field \in {"started", "network"}, value \in BOOLEAN :
              session' = Set(p, t, field, value) => SessionType'
         /\ networks' = networks \cup {Id(p, t)} => NetworksType'
         /\ containers' = containers \cup {Id(p, t)} => ContainersType'
         /\ Trouble => TroublesType' /\ troubles' # 0
<1>1. \A step \in Steps : Goto(p, t, step) => PcType'
  BY GotoIs DEF PcType
<1>2. /\ lock' = [lock EXCEPT ![t] = p] => LockType'
      /\ lock' = [lock EXCEPT ![t] = Nobody] => LockType'
  BY DEF TypeOK, LockType
<1>3. \A c \in {"none", "net", "run"} : starter' = [starter EXCEPT ![p][t] = c] => StarterType'
  BY StarterIs DEF StarterType
<1>4. \A field \in {"started", "network"}, value \in BOOLEAN :
        session' = Set(p, t, field, value) => SessionType'
  BY SessionIs DEF SessionType
<1>5. /\ networks' = networks \cup {Id(p, t)} => NetworksType'
      /\ containers' = containers \cup {Id(p, t)} => ContainersType'
  BY IdIsThing DEF TypeOK, NetworksType, ContainersType, Things
<1>6. Trouble => TroublesType' /\ troubles' # 0
  BY HostAssumption DEF TypeOK, Trouble, TroublesType
<1>7. QED
  BY <1>1, <1>2, <1>3, <1>4, <1>5, <1>6

LEMMA StartFailedType ==
  ASSUME TypeOK, NEW p \in Procs, NEW t \in Tasks, StartFailed(p, t)
  PROVE  PcType' /\ AttemptsType' /\ SessionType' /\ NetworksType'
<1>1. ASSUME attempts[p][t] < Retries \/ attempts[p][t] = Retries,
             attempts' = [attempts EXCEPT ![p][t] = @ + 1]
      PROVE  AttemptsType'
  <2>1. attempts \in [Procs -> [Tasks -> 0..Retries + 1]] /\ Retries \in Nat
    BY HostAssumption DEF TypeOK
  <2>2. attempts[p][t] + 1 \in 0..Retries + 1
    BY <1>1, <2>1
  <2>3. QED
    BY <1>1, <2>1, <2>2, EntryUpdated DEF AttemptsType
<1>2. QED
  BY <1>1, TypeFrame, Assigned DEF StartFailed, Steps

LEMMA RolloutType ==
  ASSUME TypeOK, LimiterType', NEW p \in Procs, NEW t \in Tasks, Rollout(p, t)
  PROVE  TypeOK'
<1> SUFFICES /\ ProcType' /\ PcType' /\ LockType' /\ ParkedType' /\ StarterType'
             /\ AttemptsType' /\ SessionType' /\ NetworksType' /\ ContainersType' /\ TroublesType'
  BY TypePartsNext
<1> USE TypeFrame, Assigned DEF docker, Steps
<1>1. CASE TakeSlot(p, t)
  BY <1>1 DEF TakeSlot
<1>2. CASE Admit(p, t)
  BY <1>2 DEF Admit
<1>3. CASE Release(p, t)
  BY <1>3 DEF Release
<1>4. CASE Park(p, t)
  BY <1>4 DEF Park, TypeOK, ParkedType, Rollouts
<1>5. CASE Granted(p, t)
  BY <1>5 DEF Granted
<1>6. CASE Start(p, t)
  BY <1>6 DEF Start
<1>7. CASE CreateNetwork(p, t)
  BY <1>7 DEF CreateNetwork
<1>8. CASE RunContainer(p, t)
  BY <1>8 DEF RunContainer
<1>9. CASE StarterFails(p, t)
  BY <1>9, StartFailedType DEF StarterFails
<1>10. CASE StartTimesOut(p, t)
  BY <1>10 DEF StartTimesOut
<1>11. CASE SetupFails(p, t)
  BY <1>11, EntryUpdated DEF SetupFails, TypeOK, SessionType
<1>12. CASE Live(p, t)
  BY <1>12 DEF Live
<1>13. CASE Backstop(p, t)
  BY <1>13 DEF Backstop
<1>14. CASE CloseContainer(p, t)
  BY <1>14 DEF CloseContainer
<1>15. CASE CloseNetwork(p, t)
  BY <1>15 DEF CloseNetwork
<1>16. CASE Cancelled(p, t)
  BY <1>16 DEF Cancelled
<1>17. QED
  BY <1>1, <1>2, <1>3, <1>4, <1>5, <1>6, <1>7, <1>8, <1>9, <1>10, <1>11, <1>12, <1>13, <1>14, <1>15, <1>16 DEF Rollout

LEMMA ProcessType ==
  ASSUME TypeOK, LimiterType', NEW p \in Procs, Interrupt(p) \/ Exit(p) \/ Kill(p) \/ Sweep(p)
  PROVE  TypeOK'
<1> SUFFICES /\ ProcType' /\ PcType' /\ LockType' /\ ParkedType' /\ StarterType'
             /\ AttemptsType' /\ SessionType' /\ NetworksType' /\ ContainersType' /\ TroublesType'
  BY TypePartsNext
<1>1. \A state \in {"interrupted", "exited", "killed", "swept"} :
        proc' = [proc EXCEPT ![p] = state] => ProcType'
  BY DEF TypeOK, ProcType
<1>2. Unlocked(p) => LockType'
  BY DEF Unlocked, TypeOK, LockType
<1>3. Trouble => TroublesType'
  BY HostAssumption DEF TypeOK, Trouble, TroublesType
<1>4. Swept(p) => networks' \subseteq networks /\ containers' \subseteq containers
  BY DEF Swept
<1>5. CASE Interrupt(p)
  BY <1>1, <1>3, <1>5, TypeFrame DEF Interrupt, docker
<1>6. CASE Exit(p)
  BY <1>1, <1>2, <1>4, <1>6, TypeFrame DEF Exit
<1>7. CASE Kill(p)
  <2>1. StarterType'
    BY <1>7 DEF Kill, TypeOK, StarterType
  <2>2. ContainersType'
    BY <1>7, IdIsThing DEF Kill, TypeOK, ContainersType, Things
  <2>3. parked' \subseteq parked
    BY <1>7 DEF Kill
  <2>4. QED
    BY <1>1, <1>2, <1>3, <1>7, <2>1, <2>2, <2>3, TypeFrame DEF Kill
<1>8. CASE Sweep(p)
  BY <1>1, <1>4, <1>8, TypeFrame DEF Sweep
<1>9. QED
  BY <1>5, <1>6, <1>7, <1>8

-----------------------------------------------------------------------------
(* The task lock.                                                          *)

\* A rollout that does not start to work keeps every holder where it is.
LEMMA LockKept ==
  ASSUME TypeOK, LockHeld, proc' = proc, lock' = lock,
         NEW p \in Procs, NEW t \in Tasks, NEW step \in Steps, Goto(p, t, step),
         step \in Working => pc[p][t] \in Working
  PROVE  LockHeld'
BY GotoIs DEF LockHeld, Alive

LEMMA LockStays == LockHeld /\ UNCHANGED <<proc, pc, lock>> => LockHeld'
BY DEF LockHeld, Alive

LEMMA RolloutLock ==
  ASSUME TypeOK, LockHeld, NEW p \in Procs, NEW t \in Tasks, Rollout(p, t)
  PROVE  LockHeld'
<1>0. lock \in [Tasks -> Procs \cup {Nobody}] /\ Nobody \notin Procs
  BY HostAssumption DEF TypeOK
<1> USE DEF At, Steps
<1>1. CASE TakeSlot(p, t)
  BY <1>1, LockKept DEF TakeSlot, Working
<1>2. CASE Admit(p, t)
  <2>1. CASE Goto(p, t, "waiting") /\ UNCHANGED lock
    BY <1>2, <2>1, LockKept DEF Admit, Working
  <2>2. CASE ~Locks(p) /\ lock' = lock /\ Goto(p, t, "start")
    BY <1>2, <2>2, GotoIs DEF Admit, LockHeld, Alive, Locks
  <2>3. CASE Locks(p) /\ lock[t] = Nobody /\ lock' = [lock EXCEPT ![t] = p] /\ Goto(p, t, "start")
    BY <1>0, <1>2, <2>3, GotoIs DEF Admit, LockHeld, Alive, Working
  <2>4. QED
    BY <1>2, <2>1, <2>2, <2>3 DEF Admit
<1>3. CASE Release(p, t)
  BY <1>0, <1>3, GotoIs DEF Release, LockHeld, Alive, Working
<1>4. CASE Park(p, t)
  BY <1>4, LockStays DEF Park
<1>5. CASE Granted(p, t)
  <2>1. CASE UNCHANGED <<lock, pc>>
    BY <1>5, <2>1, LockStays DEF Granted
  <2>2. CASE lock' = [lock EXCEPT ![t] = p] /\ Goto(p, t, "start")
    <3>1. \A q \in Procs, u \in Tasks :
            pc'[q][u] = IF q = p /\ u = t THEN "start" ELSE pc[q][u]
      BY <2>2, GotoIs DEF Steps
    <3>2. UNCHANGED proc /\ lock[t] = Nobody
      BY <1>5, <2>2 DEF Granted
    <3>3. QED
      BY <1>0, <2>2, <3>1, <3>2 DEF LockHeld, Alive, Working, TypeOK
  <2>3. QED
    BY <1>5, <2>1, <2>2 DEF Granted
<1>6. CASE Start(p, t)
  BY <1>6, LockKept DEF Start, Working
<1>7. CASE CreateNetwork(p, t)
  BY <1>7, LockStays DEF CreateNetwork
<1>8. CASE RunContainer(p, t)
  BY <1>8, LockKept, LockStays DEF RunContainer, Working
<1>9. CASE StarterFails(p, t)
  BY <1>9, LockKept, LockStays DEF StarterFails, StartFailed, Working
<1>10. CASE StartTimesOut(p, t)
  BY <1>10, LockKept DEF StartTimesOut, Working
<1>11. CASE SetupFails(p, t)
  BY <1>11, LockKept DEF SetupFails, Working
<1>12. CASE Live(p, t)
  BY <1>12, LockKept DEF Live, Working
<1>13. CASE Backstop(p, t)
  BY <1>13, LockKept DEF Backstop, Working
<1>14. CASE CloseContainer(p, t)
  BY <1>14, LockKept DEF CloseContainer, Working
<1>15. CASE CloseNetwork(p, t)
  BY <1>15, LockKept DEF CloseNetwork, Working
<1>16. CASE Cancelled(p, t)
  BY <1>16, LockKept DEF Cancelled, Working
<1>17. QED
  BY <1>1, <1>2, <1>3, <1>4, <1>5, <1>6, <1>7, <1>8, <1>9, <1>10, <1>11, <1>12, <1>13, <1>14, <1>15, <1>16 DEF Rollout

LEMMA ProcessLock ==
  ASSUME TypeOK, LockHeld, NEW p \in Procs, Interrupt(p) \/ Exit(p) \/ Kill(p) \/ Sweep(p)
  PROVE  LockHeld'
<1>1. CASE Interrupt(p)
  BY <1>1 DEF Interrupt, LockHeld, Alive, TypeOK
<1>2. CASE Exit(p) \/ Kill(p)
  <2>1. Unlocked(p) /\ pc' = pc
        /\ (proc' = [proc EXCEPT ![p] = "exited"] \/ proc' = [proc EXCEPT ![p] = "killed"])
    BY <1>2 DEF Exit, Kill
  <2>2. QED
    BY <2>1 DEF Unlocked, LockHeld, Alive, TypeOK
<1>3. CASE Sweep(p)
  BY <1>3 DEF Sweep, LockHeld, Alive, TypeOK
<1>4. QED
  BY <1>1, <1>2, <1>3

-----------------------------------------------------------------------------
(* Owners.                                                                 *)

Owned == NoStarterOutlives /\ NothingOutlivesItsOwner

\* A step of a living process adds things and threads of its own only.
LEMMA OwnedKept ==
  ASSUME TypeOK, Owned, proc' = proc, NEW p \in Procs, NEW t \in Tasks, Alive(p),
         networks' \subseteq networks \cup {Id(p, t)},
         containers' \subseteq containers \cup {Id(p, t)},
         \A q \in Procs \ {p}, u \in Tasks : starter'[q][u] = starter[q][u]
  PROVE  Owned'
BY IdIsThing DEF Owned, NoStarterOutlives, NothingOutlivesItsOwner, Alive

LEMMA RolloutOwned ==
  ASSUME TypeOK, Owned, NEW p \in Procs, NEW t \in Tasks, Rollout(p, t)
  PROVE  Owned'
<1>0. starter[p][t] # "none" => Alive(p)
  BY DEF Owned, NoStarterOutlives
<1> USE DEF At, docker
<1>1. CASE TakeSlot(p, t)
  BY <1>1, OwnedKept DEF TakeSlot
<1>2. CASE Admit(p, t)
  BY <1>2, OwnedKept DEF Admit
<1>3. CASE Release(p, t)
  BY <1>3, OwnedKept DEF Release
<1>4. CASE Park(p, t)
  BY <1>4, OwnedKept DEF Park
<1>5. CASE Granted(p, t)
  BY <1>5, OwnedKept DEF Granted
<1>6. CASE Start(p, t)
  BY <1>6, OwnedKept, StarterIs DEF Start
<1>7. CASE CreateNetwork(p, t)
  BY <1>7, <1>0, OwnedKept, StarterIs DEF CreateNetwork
<1>8. CASE RunContainer(p, t)
  BY <1>8, <1>0, OwnedKept, StarterIs DEF RunContainer
<1>9. CASE StarterFails(p, t)
  BY <1>9, <1>0, OwnedKept, StarterIs DEF StarterFails, StartFailed
<1>10. CASE StartTimesOut(p, t)
  BY <1>10, OwnedKept DEF StartTimesOut
<1>11. CASE SetupFails(p, t)
  BY <1>11, OwnedKept DEF SetupFails
<1>12. CASE Live(p, t)
  BY <1>12, OwnedKept DEF Live
<1>13. CASE Backstop(p, t)
  BY <1>13, OwnedKept DEF Backstop
<1>14. CASE CloseContainer(p, t)
  BY <1>14, OwnedKept DEF CloseContainer
<1>15. CASE CloseNetwork(p, t)
  BY <1>15, OwnedKept DEF CloseNetwork
<1>16. CASE Cancelled(p, t)
  BY <1>16, OwnedKept DEF Cancelled, Alive
<1>17. QED
  BY <1>1, <1>2, <1>3, <1>4, <1>5, <1>6, <1>7, <1>8, <1>9, <1>10, <1>11, <1>12, <1>13, <1>14, <1>15, <1>16 DEF Rollout

LEMMA ProcessOwned ==
  ASSUME TypeOK, Owned, NEW p \in Procs, Interrupt(p) \/ Exit(p) \/ Kill(p) \/ Sweep(p)
  PROVE  Owned'
<1> USE DEF Owned, NoStarterOutlives, NothingOutlivesItsOwner, Alive
<1>0. proc \in [Procs -> {"up", "interrupted", "exited", "killed", "swept"}]
  BY DEF TypeOK
<1>1. CASE Interrupt(p)
  BY <1>0, <1>1 DEF Interrupt, docker
<1>2. CASE Exit(p)
  <2>1. Busy(p) = 0
    BY <1>2 DEF Exit, MayExit
  <2>2. \A t \in Tasks : starter[p][t] = "none"
    <3> DEFINE waiters == {r \in parked : r[1] = p}
               starters == {t \in Tasks : starter[p][t] # "none"}
    <3>1. IsFiniteSet(starters) /\ Cardinality(starters) \in Nat
      BY HostAssumption, FS_Subset, FS_CardinalityType
    <3>2. IsFiniteSet(waiters) /\ Cardinality(waiters) \in Nat
      <4>1. IsFiniteSet(Rollouts)
        BY HostAssumption, FS_Product DEF Rollouts
      <4>2. waiters \subseteq Rollouts
        BY DEF TypeOK
      <4>3. QED
        BY <4>1, <4>2, FS_Subset, FS_CardinalityType
    <3>3. Cardinality(starters) = 0
      BY <2>1, <3>1, <3>2 DEF Busy
    <3>4. starters = {}
      BY <3>1, <3>3, FS_EmptySet
    <3>5. QED
      BY <3>4
  <2>3. /\ proc' = [proc EXCEPT ![p] = "exited"] /\ starter' = starter
        /\ networks' = {n \in networks : n.owner # p}
        /\ containers' = {c \in containers : c.owner # p}
    BY <1>2 DEF Exit, Swept
  <2>4. QED
    BY <1>0, <2>2, <2>3
<1>3. CASE Kill(p)
  <2>1. /\ proc[p] \in {"up", "interrupted"} /\ proc' = [proc EXCEPT ![p] = "killed"]
        /\ starter' = [starter EXCEPT ![p] = [t \in Tasks |-> "none"]]
        /\ networks' = networks
        /\ \A c \in containers' : c \in containers \/ \E t \in Tasks : c = Id(p, t)
    BY <1>3 DEF Kill
  <2>2. starter \in [Procs -> [Tasks -> {"none", "net", "run"}]]
    BY DEF TypeOK
  <2>3. NoStarterOutlives'
    BY <1>0, <2>1, <2>2
  <2>4. NothingOutlivesItsOwner'
    BY <1>0, <2>1, IdIsThing
  <2>5. QED
    BY <2>3, <2>4
<1>4. CASE Sweep(p)
  BY <1>0, <1>4 DEF Sweep, Swept
<1>5. QED
  BY <1>1, <1>2, <1>3, <1>4

-----------------------------------------------------------------------------
(* Without troubles.                                                       *)

\* A step of one rollout is the business of that rollout.
LEMMA CalmElsewhere ==
  ASSUME Calm, proc' = proc, NEW p \in Procs, NEW t \in Tasks, troubles' = troubles,
         networks' \ {Id(p, t)} = networks \ {Id(p, t)},
         containers' \ {Id(p, t)} = containers \ {Id(p, t)},
         \A q \in Procs, u \in Tasks :
           q # p \/ u # t => /\ pc'[q][u] = pc[q][u] /\ starter'[q][u] = starter[q][u]
                             /\ session'[q][u] = session[q][u],
         troubles = 0 /\ Tracked(p, t) => Tracked(p, t)'
  PROVE  Calm'
<1> SUFFICES ASSUME troubles = 0, NEW q \in Procs, NEW u \in Tasks
             PROVE  Tracked(q, u)'
  BY DEF Calm
<1>1. Tracked(q, u) /\ Tracked(p, t)
  BY DEF Calm
<1>2. CASE q = p /\ u = t
  BY <1>1, <1>2
<1>3. CASE q # p \/ u # t
  <2>1. Id(q, u) # Id(p, t)
    BY <1>3, IdIsThing
  <2>2. /\ Id(q, u) \in networks' <=> Id(q, u) \in networks
        /\ Id(q, u) \in containers' <=> Id(q, u) \in containers
    BY <2>1
  <2>3. QED
    BY <1>1, <1>3, <2>2 DEF Tracked, Id
<1>4. QED
  BY <1>2, <1>3

LEMMA CalmTrouble == TypeOK /\ Trouble => Calm'
BY HostAssumption DEF TypeOK, Trouble, Calm

\* A step that only moves the rollout.
LEMMA CalmGoto ==
  ASSUME TypeOK, Calm, NEW p \in Procs, NEW t \in Tasks, NEW step \in Steps, Goto(p, t, step),
         UNCHANGED <<proc, starter, session, docker, troubles>>,
         troubles = 0 /\ Tracked(p, t) /\ proc[p] = "up" =>
           /\ session[p][t].network => step \in {"start", "starting", "live", "close", "network"}
           /\ session[p][t].started => step \in {"live", "close"}
           /\ starter[p][t] # "none" => step = "starting"
  PROVE  Calm'
<1>1. \A q \in Procs, u \in Tasks : pc'[q][u] = IF q = p /\ u = t THEN step ELSE pc[q][u]
  BY GotoIs
<1>2. troubles = 0 /\ Tracked(p, t) => Tracked(p, t)'
  BY <1>1 DEF Tracked, docker, Id
<1>3. QED
  BY <1>1, <1>2, CalmElsewhere DEF docker

LEMMA CalmStays ==
  ASSUME Calm, UNCHANGED <<proc, pc, starter, session, docker, troubles>>
  PROVE  Calm'
<1>1. \A p \in Procs, t \in Tasks : Tracked(p, t) => Tracked(p, t)'
  BY DEF Tracked, docker, Id
<1>2. QED
  BY <1>1 DEF Calm

LEMMA RolloutCalm ==
  ASSUME TypeOK, NoStarterOutlives, Calm, NEW p \in Procs, NEW t \in Tasks, Rollout(p, t)
  PROVE  Calm'
<1>0. starter[p][t] # "none" => Alive(p)
  BY DEF NoStarterOutlives
<1> USE DEF At, Steps
<1>1. CASE TakeSlot(p, t)
  BY <1>1, CalmGoto DEF TakeSlot, Tracked
<1>2. CASE Admit(p, t)
  BY <1>2, CalmGoto DEF Admit, Tracked
<1>3. CASE Release(p, t)
  BY <1>3, CalmGoto DEF Release, Tracked
<1>4. CASE Park(p, t)
  BY <1>4, CalmStays DEF Park
<1>5. CASE Granted(p, t)
  BY <1>5, CalmGoto, CalmStays DEF Granted, Tracked
<1>6. CASE Start(p, t)
  <2>1. \A q \in Procs, u \in Tasks :
          pc'[q][u] = IF q = p /\ u = t THEN "starting" ELSE pc[q][u]
    BY <1>6, GotoIs DEF Start
  <2>2. \A q \in Procs, u \in Tasks :
          starter'[q][u] = IF q = p /\ u = t THEN "net" ELSE starter[q][u]
    <3>1. starter' = [starter EXCEPT ![p][t] = "net"]
      BY <1>6 DEF Start
    <3>2. starter \in [Procs -> [Tasks -> {"none", "net", "run"}]]
      BY DEF TypeOK
    <3>3. QED
      BY <3>1, <3>2
  <2>3. UNCHANGED <<proc, session, docker, troubles>> /\ pc[p][t] = "start"
    BY <1>6 DEF Start
  <2>4. Tracked(p, t) => Tracked(p, t)'
    BY <2>1, <2>2, <2>3 DEF Tracked, Id, docker
  <2>5. QED
    BY <2>1, <2>2, <2>3, <2>4, CalmElsewhere DEF docker
<1>7. CASE CreateNetwork(p, t)
  <2>1. UNCHANGED <<proc, pc, containers, troubles>> /\ starter[p][t] = "net" /\ Alive(p)
    BY <1>0, <1>7 DEF CreateNetwork
  <2>2. \A q \in Procs, u \in Tasks :
          starter'[q][u] = IF q = p /\ u = t THEN "run" ELSE starter[q][u]
    <3>1. starter' = [starter EXCEPT ![p][t] = "run"]
      BY <1>7 DEF CreateNetwork
    <3>2. starter \in [Procs -> [Tasks -> {"none", "net", "run"}]]
      BY DEF TypeOK
    <3>3. QED
      BY <3>1, <3>2
  <2>3. CASE session[p][t].network /\ UNCHANGED <<session, networks>>
    <3>1. Tracked(p, t) => Tracked(p, t)'
      BY <2>1, <2>2, <2>3 DEF Tracked, Id, Alive
    <3>2. QED
      BY <2>1, <2>2, <2>3, <3>1, CalmElsewhere
  <2>4. CASE session' = Set(p, t, "network", TRUE) /\ networks' = networks \cup {Id(p, t)}
    <3>1. /\ session'[p][t].network /\ session'[p][t].started = session[p][t].started
          /\ \A q \in Procs, u \in Tasks : q # p \/ u # t => session'[q][u] = session[q][u]
      BY <2>4, SetNetwork
    <3>2. Tracked(p, t) => Tracked(p, t)'
      BY <2>1, <2>2, <2>4, <3>1 DEF Tracked, Id, Alive
    <3>3. QED
      BY <2>1, <2>2, <2>4, <3>1, <3>2, CalmElsewhere
  <2>5. QED
    BY <1>7, <2>3, <2>4 DEF CreateNetwork
<1>8. CASE RunContainer(p, t)
  <2>1. /\ UNCHANGED <<proc, networks, troubles>> /\ starter[p][t] = "run" /\ Alive(p)
        /\ containers' = containers \cup {Id(p, t)} /\ Id(p, t) \in networks
    BY <1>0, <1>8 DEF RunContainer
  <2>2. \A q \in Procs, u \in Tasks :
          starter'[q][u] = IF q = p /\ u = t THEN "none" ELSE starter[q][u]
    <3>1. starter' = [starter EXCEPT ![p][t] = "none"]
      BY <1>8 DEF RunContainer
    <3>2. starter \in [Procs -> [Tasks -> {"none", "net", "run"}]]
      BY DEF TypeOK
    <3>3. QED
      BY <3>1, <3>2
  <2>3. CASE pc[p][t] = "starting" /\ session' = Set(p, t, "started", TRUE) /\ Goto(p, t, "live")
    <3>1. \A q \in Procs, u \in Tasks :
            pc'[q][u] = IF q = p /\ u = t THEN "live" ELSE pc[q][u]
      BY <2>3, GotoIs
    <3>2. /\ session'[p][t].started /\ session'[p][t].network = session[p][t].network
          /\ \A q \in Procs, u \in Tasks : q # p \/ u # t => session'[q][u] = session[q][u]
      BY <2>3, SetStarted
    <3>3. Tracked(p, t) => Tracked(p, t)'
      BY <2>1, <2>2, <2>3, <3>1, <3>2 DEF Tracked, Id, Alive
    <3>4. QED
      BY <2>1, <2>2, <3>1, <3>2, <3>3, CalmElsewhere
  <2>4. CASE pc[p][t] # "starting" /\ UNCHANGED <<session, pc>>
    <3>1. ~Tracked(p, t)
      BY <2>1, <2>4 DEF Tracked, Alive
    <3>2. QED
      BY <2>1, <2>2, <2>4, <3>1, CalmElsewhere
  <2>5. QED
    BY <1>8, <2>3, <2>4 DEF RunContainer
<1>9. CASE StarterFails(p, t)
  <2>1. CASE Trouble
    BY <2>1, CalmTrouble
  <2>2. CASE ~Trouble
    <3>1. /\ UNCHANGED <<proc, troubles, containers>> /\ Alive(p) /\ StartFailed(p, t)
          /\ \/ starter[p][t] = "net" /\ ~session[p][t].network
             \/ starter[p][t] = "run" /\ Id(p, t) \notin networks \ containers
      BY <1>0, <1>9, <2>2 DEF StarterFails
    <3>2. \A q \in Procs, u \in Tasks :
            starter'[q][u] = IF q = p /\ u = t THEN "none" ELSE starter[q][u]
      <4>1. starter' = [starter EXCEPT ![p][t] = "none"]
        BY <1>9 DEF StarterFails
      <4>2. starter \in [Procs -> [Tasks -> {"none", "net", "run"}]]
        BY DEF TypeOK
      <4>3. QED
        BY <4>1, <4>2
    <3>3. CASE ~(troubles = 0 /\ Tracked(p, t))
      BY <3>1, <3>3 DEF Calm
    <3>4. CASE troubles = 0 /\ Tracked(p, t)
      <4>1. /\ proc[p] = "up" /\ pc[p][t] = "starting" /\ starter[p][t] = "net"
            /\ ~session[p][t].network /\ ~session[p][t].started
            /\ Id(p, t) \notin networks /\ Id(p, t) \notin containers
        BY <3>1, <3>4 DEF Tracked, Alive
      <4>2. PICK step \in {"start", "close"} :
              /\ Goto(p, t, step) /\ networks' \ {Id(p, t)} = networks \ {Id(p, t)}
              /\ Id(p, t) \notin networks'
              /\ session' = session \/ session' = Set(p, t, "network", FALSE)
        BY <3>1, <4>1 DEF StartFailed, Removable
      <4>3. \A q \in Procs, u \in Tasks : pc'[q][u] = IF q = p /\ u = t THEN step ELSE pc[q][u]
        BY <4>2, GotoIs
      <4>4. /\ ~session'[p][t].network /\ session'[p][t].started = session[p][t].started
            /\ \A q \in Procs, u \in Tasks : q # p \/ u # t => session'[q][u] = session[q][u]
        BY <4>1, <4>2, SetNetwork
      <4>5. Tracked(p, t)'
        BY <3>1, <3>2, <4>1, <4>2, <4>3, <4>4 DEF Tracked, Id
      <4>6. QED
        BY <3>1, <3>2, <4>2, <4>3, <4>4, <4>5, CalmElsewhere
    <3>5. QED
      BY <3>3, <3>4
  <2>3. QED
    BY <2>1, <2>2
<1>10. CASE StartTimesOut(p, t)
  BY <1>10, CalmTrouble DEF StartTimesOut
<1>11. CASE SetupFails(p, t)
  BY <1>11, CalmTrouble DEF SetupFails
<1>12. CASE Live(p, t)
  BY <1>12, CalmGoto DEF Live, Tracked
<1>13. CASE Backstop(p, t)
  BY <1>13, CalmTrouble DEF Backstop
<1>14. CASE CloseContainer(p, t)
  <2>1. CASE ~session[p][t].started /\ UNCHANGED <<session, containers, troubles>>
    BY <1>14, <2>1, CalmGoto DEF CloseContainer, Tracked, docker
  <2>2. CASE /\ session[p][t].started /\ session' = Set(p, t, "started", FALSE)
             /\ containers' = containers \ {Id(p, t)} /\ UNCHANGED troubles
    <3>1. \A q \in Procs, u \in Tasks :
            pc'[q][u] = IF q = p /\ u = t THEN "network" ELSE pc[q][u]
      BY <1>14, GotoIs DEF CloseContainer
    <3>2. /\ ~session'[p][t].started /\ session'[p][t].network = session[p][t].network
          /\ \A q \in Procs, u \in Tasks : q # p \/ u # t => session'[q][u] = session[q][u]
      BY <2>2, SetStarted
    <3>3. UNCHANGED <<proc, starter, networks>> /\ pc[p][t] = "close"
      BY <1>14 DEF CloseContainer
    <3>4. Tracked(p, t) => Tracked(p, t)'
      BY <2>2, <3>1, <3>2, <3>3 DEF Tracked, Id
    <3>5. QED
      BY <2>2, <3>1, <3>2, <3>3, <3>4, CalmElsewhere
  <2>3. CASE Trouble
    BY <2>3, CalmTrouble
  <2>4. QED
    BY <1>14, <2>1, <2>2, <2>3 DEF CloseContainer
<1>15. CASE CloseNetwork(p, t)
  <2>1. CASE ~session[p][t].network /\ UNCHANGED <<session, networks>>
    BY <1>15, <2>1, CalmGoto DEF CloseNetwork, Tracked, docker
  <2>2. CASE /\ session[p][t].network /\ session' = Set(p, t, "network", FALSE)
             /\ networks' = networks \ Removable(p, t)
    <3>1. \A q \in Procs, u \in Tasks :
            pc'[q][u] = IF q = p /\ u = t THEN "release" ELSE pc[q][u]
      BY <1>15, GotoIs DEF CloseNetwork
    <3>2. /\ ~session'[p][t].network /\ session'[p][t].started = session[p][t].started
          /\ \A q \in Procs, u \in Tasks : q # p \/ u # t => session'[q][u] = session[q][u]
      BY <2>2, SetNetwork
    <3>3. UNCHANGED <<proc, starter, containers, troubles>> /\ pc[p][t] = "network" /\ Alive(p)
      BY <1>15 DEF CloseNetwork
    <3>4. networks' \ {Id(p, t)} = networks \ {Id(p, t)}
      BY <2>2 DEF Removable
    <3>5. Tracked(p, t) => Id(p, t) \notin networks'
      BY <2>2, <3>3 DEF Tracked, Removable, Alive
    <3>6. Tracked(p, t) => Tracked(p, t)'
      BY <3>1, <3>2, <3>3, <3>5 DEF Tracked, Id, Alive
    <3>7. QED
      BY <3>1, <3>2, <3>3, <3>4, <3>6, CalmElsewhere
  <2>3. QED
    BY <1>15, <2>1, <2>2 DEF CloseNetwork
<1>16. CASE Cancelled(p, t)
  BY <1>16, CalmGoto DEF Cancelled, Tracked
<1>17. QED
  BY <1>1, <1>2, <1>3, <1>4, <1>5, <1>6, <1>7, <1>8, <1>9, <1>10, <1>11, <1>12, <1>13, <1>14, <1>15, <1>16 DEF Rollout

LEMMA ProcessCalm ==
  ASSUME TypeOK, Calm, NEW p \in Procs, Interrupt(p) \/ Exit(p) \/ Kill(p) \/ Sweep(p)
  PROVE  Calm'
<1>1. CASE Interrupt(p) \/ Kill(p)
  BY <1>1, CalmTrouble DEF Interrupt, Kill
<1>2. CASE Exit(p)
  <2> SUFFICES ASSUME troubles = 0, NEW q \in Procs, NEW u \in Tasks
               PROVE  Tracked(q, u)'
    BY <1>2 DEF Exit, Calm
  <2>1. Tracked(q, u)
    BY DEF Calm
  <2>2. /\ proc' = [proc EXCEPT ![p] = "exited"] /\ UNCHANGED <<pc, starter, session>>
        /\ networks' = {n \in networks : n.owner # p}
        /\ containers' = {c \in containers : c.owner # p}
    BY <1>2 DEF Exit, Swept
  <2>3. /\ Id(q, u) \in networks' <=> Id(q, u) \in networks /\ q # p
        /\ Id(q, u) \in containers' <=> Id(q, u) \in containers /\ q # p
    BY <2>2, IdIsThing
  <2>4. proc'[q] = IF q = p THEN "exited" ELSE proc[q]
    BY <2>2 DEF TypeOK
  <2>5. QED
    BY <2>1, <2>2, <2>3, <2>4 DEF Tracked, Id
<1>3. CASE Sweep(p)
  <2>1. troubles = 0 => Tasks = {}
    BY <1>3 DEF Calm, Tracked, Sweep
  <2>2. QED
    BY <1>3, <2>1 DEF Calm, Sweep
<1>4. QED
  BY <1>1, <1>2, <1>3

-----------------------------------------------------------------------------
LEMMA InitInvariant == Init => IInv
<1> SUFFICES ASSUME Init PROVE IInv
  OBVIOUS
<1>1. TypeOK
  BY HostAssumption DEF Init, TypeOK, Steps
<1>2. LimiterIsExact
  <2>1. \A p \in Procs : /\ {t \in Tasks : pc[p][t] \notin {"queued", "done"}} = {}
                         /\ {t \in Tasks : pc[p][t] \in Admitted} = {}
    BY DEF Init, Admitted
  <2>2. \A p \in Procs : free[p] = Slots /\ active[p] = 0 /\ Slots \in Nat
    BY HostAssumption DEF Init
  <2>3. QED
    BY <2>1, <2>2, FS_EmptySet DEF LimiterIsExact
<1>3. LockHeld /\ NoStarterOutlives /\ NothingOutlivesItsOwner
  BY DEF Init, LockHeld, NoStarterOutlives, NothingOutlivesItsOwner, Working
<1>4. Calm
  BY DEF Init, Calm, Tracked
<1>5. QED
  BY <1>1, <1>2, <1>3, <1>4 DEF IInv

LEMMA Invariance == Spec => []IInv
<1>1. IInv /\ [Next]_vars => IInv'
  <2> SUFFICES ASSUME IInv, [Next]_vars PROVE IInv'
    OBVIOUS
  <2>1. ASSUME NEW p \in Procs, NEW t \in Tasks, Rollout(p, t)
        PROVE  IInv'
    BY <2>1, RolloutLimiter, RolloutType, RolloutLock, RolloutOwned, RolloutCalm DEF IInv, Owned
  <2>2. ASSUME NEW p \in Procs, Interrupt(p) \/ Exit(p) \/ Kill(p) \/ Sweep(p)
        PROVE  IInv'
    <3>1. UNCHANGED <<pc, limiter>>
      BY <2>2 DEF Interrupt, Exit, Kill, Sweep
    <3>2. LimiterType' /\ LimiterIsExact'
      BY <3>1, LimiterStays DEF IInv
    <3>3. QED
      BY <2>2, <3>2, ProcessType, ProcessLock, ProcessOwned, ProcessCalm DEF IInv, Owned
  <2>3. CASE UNCHANGED vars
    <3>1. TypeOK' /\ LimiterIsExact'
      BY <2>3 DEF IInv, vars, limiter, docker, TypeOK, LimiterIsExact
    <3>2. LockHeld' /\ NoStarterOutlives' /\ NothingOutlivesItsOwner'
      BY <2>3 DEF IInv, vars, docker, LockHeld, NoStarterOutlives, NothingOutlivesItsOwner, Alive
    <3>3. Calm'
      BY <2>3, CalmStays DEF IInv, vars
    <3>4. QED
      BY <3>1, <3>2, <3>3 DEF IInv
  <2>4. QED
    BY <2>1, <2>2, <2>3 DEF Next
<1>2. QED
  BY <1>1, InitInvariant, PTL DEF Spec

-----------------------------------------------------------------------------
(* What follows from it.                                                   *)

\* CpuConcurrencyLimiter neither loses a slot nor gives one back twice: its semaphore and
\* its active count are the rollouts inside it, whatever is cancelled, fails or dies.
THEOREM SlotsSafe == Spec => []SlotsAreExact
<1>1. IInv => SlotsAreExact
  BY DEF IInv, SlotsAreExact
<1>2. QED
  BY <1>1, Invariance, PTL

\* cross_process_task_lock keeps a task to one process at a time, and while nothing goes
\* wrong the flock spans the life of the task's network and container.
THEOREM TaskLockSafe == Spec => []TasksAreExclusive
<1>1. IInv => OneProcessPerTask
  BY HostAssumption DEF IInv, LockHeld, OneProcessPerTask
<1>2. IInv => LockSpansEnvironment
  <2> SUFFICES ASSUME IInv, troubles = 0, NEW thing \in networks \cup containers,
                      thing.owner \notin Auditors
               PROVE  lock[thing.task] = thing.owner
    BY DEF LockSpansEnvironment
  <2> DEFINE p == thing.owner
             t == thing.task
  <2>1. p \in Procs /\ t \in Tasks /\ thing = Id(p, t)
    BY IdIsThing DEF IInv, TypeOK, Things
  <2>2. Tracked(p, t)
    BY <2>1 DEF IInv, Calm
  <2>3. Alive(p) /\ pc[p][t] \in Working
    BY <2>1, <2>2 DEF Tracked, Alive, Working
  <2>4. QED
    BY <2>1, <2>3 DEF IInv, LockHeld
<1>3. IInv => TasksAreExclusive
  BY <1>1, <1>2 DEF TasksAreExclusive
<1>4. QED
  BY <1>3, Invariance, PTL

\* Once a process exited, or was killed and swept, docker holds nothing of it: no thread
\* that still starts a container survives the atexit hook or sweep_owner_resources.
THEOREM OwnersSafe == Spec => []NothingOutlivesItsOwner
<1>1. IInv => NothingOutlivesItsOwner
  BY DEF IInv
<1>2. QED
  BY <1>1, Invariance, PTL
=============================================================================
