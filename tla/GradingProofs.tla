--------------------------- MODULE GradingProofs ---------------------------
(***************************************************************************)
(* The safety properties of concurrent submits, for any rollouts of either *)
(* benchmark, any diffs and whatever earlier experiments memoized.         *)
(***************************************************************************)
EXTENDS Grading, SequenceTheorems, TLAPS

-----------------------------------------------------------------------------
(* The inductive invariant.                                                *)

\* Where a submit stands tells which benchmark it belongs to, and a thread is there only
\* from the moment the lock is had.
ThreadOk(r) ==
  /\ pc[r] \notin {"install", "reward"}
  /\ pc[r] \in {"working", "capture", "lookup", "grader", "waiting"} => thread[r] = NoThread
  /\ thread[r].state = "queued" => pc[r] = "grading"
  /\ thread[r].state \in {"running", "ended"} => thread[r].root = r
  /\ thread[r].state = "ended" => thread[r].found # "none"
  /\ pc[r] = "store" => thread[r].state = "ended" /\ thread[r].found \in Grade

\* What a thread found is a grading of the captured diff, and its report stays in the
\* rollout's own directory for as long as the coroutine may look for it.
FoundOk(r) ==
  thread[r].state = "ended" /\ thread[r].found \in Grade =>
    /\ <<r, patch[r], thread[r].found>> \in graded
    /\ pc[r] = "grading" => <<r, r>> \in reports

\* The log directory is the lock holder's, and what it was before is the default.
LockInv ==
  /\ \A r \in Swe : pc[r] = "grading" => holder = r
  /\ holder = Nobody => logDir = Default
  /\ holder # Nobody => logDir = holder /\ previous = Default

\* The verifier's command removed whatever was there before.
RewardInv == \A r \in Terminal : pc[r] = "reward" => reward[r] = verifier[r]

\* A grade that was given is the rollout's own, and no completed grading was lost.
EndingOk(r) ==
  /\ ending[r] \in Grade =>
       IF r \in Swe THEN <<r, patch[r], ending[r]>> \in graded
       ELSE verifier[r] # "absent" /\ ending[r] = Read(verifier[r])
  /\ r \in Swe => ending[r] # "corrupt"

Safe ==
  /\ \A r \in Swe : ThreadOk(r) /\ FoundOk(r)
  /\ \A r \in Rollouts : EndingOk(r)
  /\ LockInv /\ RewardInv /\ MemoIsEarned

IInv == TypeOK /\ Safe

-----------------------------------------------------------------------------
(* The waiters of an asyncio lock: a sequence without repetition.          *)

\* A waiter is added at the end.
LEMMA Appended ==
  ASSUME NEW q \in Seq(Swe), IsInjective(q), NEW r \in Swe, r \notin ToSet(q)
  PROVE  /\ Append(q, r) \in Seq(Swe) /\ IsInjective(Append(q, r))
         /\ ToSet(Append(q, r)) = ToSet(q) \cup {r}
<1> DEFINE new == Append(q, r)
<1>1. /\ new \in Seq(Swe) /\ Len(new) = Len(q) + 1 /\ new[Len(q) + 1] = r
      /\ \A i \in 1..Len(q) : new[i] = q[i]
  BY AppendProperties
<1>2. DOMAIN q = 1..Len(q) /\ DOMAIN new = 1..Len(q) + 1 /\ Len(q) \in Nat
  BY <1>1, LenProperties
<1> HIDE DEF new
<1>3. IsInjective(new)
  BY <1>1, <1>2 DEF IsInjective, ToSet
<1>4. ToSet(new) = ToSet(q) \cup {r}
  BY <1>1, <1>2 DEF ToSet
<1>5. QED
  BY <1>1, <1>3, <1>4 DEF new

\* The waiter at the head leaves the queue.
LEMMA Headed ==
  ASSUME NEW q \in Seq(Swe), IsInjective(q), q # <<>>
  PROVE  /\ Tail(q) \in Seq(Swe) /\ IsInjective(Tail(q))
         /\ ToSet(Tail(q)) = ToSet(q) \ {Head(q)}
<1> DEFINE new == Tail(q)
<1>1. /\ new \in Seq(Swe) /\ Len(new) = Len(q) - 1
      /\ \A i \in 1..Len(new) : new[i] = q[i + 1]
  BY HeadTailProperties
<1>2. /\ DOMAIN q = 1..Len(q) /\ DOMAIN new = 1..Len(q) - 1 /\ Len(q) \in Nat \ {0}
      /\ Head(q) = q[1]
  BY <1>1, LenProperties, EmptySeq
<1> HIDE DEF new
<1>3. IsInjective(new)
  <2>1. ASSUME NEW i \in DOMAIN new, NEW j \in DOMAIN new, new[i] = new[j]
        PROVE  i = j
    <3>1. i + 1 \in DOMAIN q /\ j + 1 \in DOMAIN q /\ i \in Nat /\ j \in Nat
      BY <1>2
    <3>2. q[i + 1] = q[j + 1]
      BY <1>1, <1>2, <2>1
    <3>3. QED
      BY <3>1, <3>2 DEF IsInjective
  <2>2. QED
    BY <2>1 DEF IsInjective
<1>4. ASSUME NEW x PROVE x \in ToSet(new) <=> x \in ToSet(q) \ {Head(q)}
  <2>1. ASSUME x \in ToSet(new) PROVE x \in ToSet(q) \ {Head(q)}
    <3>1. PICK i \in 1..Len(q) - 1 : x = new[i]
      BY <1>2, <2>1 DEF ToSet
    <3>2. i + 1 \in 1..Len(q) /\ x = q[i + 1] /\ i + 1 # 1
      BY <1>1, <1>2, <3>1
    <3>3. x # q[1]
      BY <1>2, <3>2 DEF IsInjective
    <3>4. QED
      BY <1>2, <3>2, <3>3 DEF ToSet
  <2>2. ASSUME x \in ToSet(q) \ {Head(q)} PROVE x \in ToSet(new)
    <3>1. PICK i \in 1..Len(q) : x = q[i]
      BY <1>2, <2>2 DEF ToSet
    <3>2. i # 1
      BY <1>2, <2>2, <3>1
    <3>3. i - 1 \in 1..Len(q) - 1 /\ x = new[i - 1]
      BY <1>1, <1>2, <3>1, <3>2
    <3>4. QED
      BY <1>2, <3>3 DEF ToSet
  <2>3. QED
    BY <2>1, <2>2
<1>5. QED
  BY <1>1, <1>3, <1>4 DEF new

LEMMA RestOf ==
  ASSUME NEW n \in Nat, NEW k \in 1..n
  PROVE  /\ (IF k + 1 <= n THEN n - (k + 1) + 1 ELSE 0) = n - k
         /\ n - (k + 1) + 1 = n - k
         /\ \A i \in 1..n - k : (k + 1) + i - 1 = k + i
OBVIOUS

\* A waiter that is cancelled leaves it wherever it stands.
LEMMA Removed ==
  ASSUME NEW q \in Seq(Swe), IsInjective(q), NEW r
  PROVE  /\ RemoveFirst(q, r) \in Seq(Swe) /\ IsInjective(RemoveFirst(q, r))
         /\ ToSet(RemoveFirst(q, r)) = ToSet(q) \ {r}
<1>1. DOMAIN q = 1..Len(q) /\ Len(q) \in Nat /\ \A i \in 1..Len(q) : q[i] \in Swe
  BY LenProperties, ElementOfSeq
<1>2. CASE ~\E i \in 1..Len(q) : q[i] = r
  BY <1>1, <1>2 DEF RemoveFirst, ToSet
<1>3. ASSUME NEW k \in 1..Len(q), q[k] = r
      PROVE  /\ RemoveFirst(q, r) \in Seq(Swe) /\ IsInjective(RemoveFirst(q, r))
             /\ ToSet(RemoveFirst(q, r)) = ToSet(q) \ {r}
  <2>1. {i \in 1..Len(q) : q[i] = r} = {k}
    BY <1>1, <1>3 DEF IsInjective
  <2>2. Min({k}) = k
    BY DEF Min
  <2>3. SelectInSeq(q, LAMBDA v : v = r) = k
    BY <2>1, <2>2 DEF SelectInSeq
  <2>4. RemoveFirst(q, r) = SubSeq(q, 1, k - 1) \o SubSeq(q, k + 1, Len(q))
    BY <1>3, <2>3 DEF RemoveFirst, RemoveAt
  <2> DEFINE a == SubSeq(q, 1, k - 1)
             b == SubSeq(q, k + 1, Len(q))
             new == a \o b
  <2>5. /\ a \in Seq(Swe) /\ Len(a) = k - 1
        /\ \A i \in 1..k - 1 : a[i] = q[i]
    <3>1. \A i \in 1..k - 1 : q[i] \in Swe
      BY <1>1
    <3>2. QED
      BY <1>1, <3>1, SubSeqProperties
  <2>6. /\ b \in Seq(Swe) /\ Len(b) = Len(q) - k
        /\ \A i \in 1..Len(q) - k : b[i] = q[k + i]
    <3>1. /\ \A i \in k + 1..Len(q) : q[i] \in Swe
          /\ k + 1 \in Int /\ Len(q) \in Int
      BY <1>1
    <3>2. /\ b \in Seq(Swe)
          /\ Len(b) = IF k + 1 <= Len(q) THEN Len(q) - (k + 1) + 1 ELSE 0
          /\ \A i \in 1..Len(q) - (k + 1) + 1 : b[i] = q[(k + 1) + i - 1]
      BY <3>1, SubSeqProperties
    <3> HIDE DEF b
    <3>3. Len(b) = Len(q) - k /\ 1..Len(q) - (k + 1) + 1 = 1..Len(q) - k
      BY <1>1, <3>2, RestOf
    <3>4. \A i \in 1..Len(q) - k : b[i] = q[k + i]
      BY <1>1, <3>2, <3>3, RestOf
    <3>5. QED
      BY <3>2, <3>3, <3>4
  <2> HIDE DEF a, b
  <2>7. /\ new \in Seq(Swe) /\ Len(new) = Len(q) - 1
        /\ \A i \in 1..Len(q) - 1 : new[i] = IF i < k THEN q[i] ELSE q[i + 1]
    <3>1. /\ new \in Seq(Swe) /\ Len(new) = Len(a) + Len(b)
          /\ \A i \in 1..Len(a) + Len(b) : new[i] = IF i <= Len(a) THEN a[i] ELSE b[i - Len(a)]
      BY <2>5, <2>6, ConcatProperties
    <3> HIDE DEF new
    <3>2. Len(a) + Len(b) = Len(q) - 1
      BY <1>1, <2>5, <2>6
    <3>3. ASSUME NEW i \in 1..Len(q) - 1 PROVE new[i] = IF i < k THEN q[i] ELSE q[i + 1]
      <4>1. CASE i < k
        BY <1>1, <2>5, <3>1, <3>2, <4>1
      <4>2. CASE ~(i < k)
        <5>1. new[i] = b[i - (k - 1)] /\ i - (k - 1) \in 1..Len(q) - k
          BY <1>1, <2>5, <3>1, <3>2, <4>2
        <5>2. k + (i - (k - 1)) = i + 1
          BY <1>1
        <5>3. QED
          BY <2>6, <4>2, <5>1, <5>2
      <4>3. QED
        BY <4>1, <4>2
    <3>4. QED
      BY <3>1, <3>2, <3>3
  <2> HIDE DEF new
  <2>8. DOMAIN new = 1..Len(q) - 1
    BY <2>7, LenProperties
  <2>9. IsInjective(new)
    <3>1. ASSUME NEW i \in 1..Len(q) - 1, NEW j \in 1..Len(q) - 1, new[i] = new[j]
          PROVE  i = j
      <4>1. PICK i2 \in 1..Len(q) : i2 = (IF i < k THEN i ELSE i + 1) /\ new[i] = q[i2]
        BY <1>1, <2>7
      <4>2. PICK j2 \in 1..Len(q) : j2 = (IF j < k THEN j ELSE j + 1) /\ new[j] = q[j2]
        BY <1>1, <2>7
      <4>3. i2 = j2
        BY <1>1, <3>1, <4>1, <4>2 DEF IsInjective
      <4>4. QED
        BY <1>1, <4>1, <4>2, <4>3
    <3>2. QED
      BY <2>8, <3>1 DEF IsInjective
  <2>10. ASSUME NEW x PROVE x \in ToSet(new) <=> x \in ToSet(q) \ {r}
    <3>1. ASSUME x \in ToSet(new) PROVE x \in ToSet(q) \ {r}
      <4>1. PICK i \in 1..Len(q) - 1 : x = new[i]
        BY <2>8, <3>1 DEF ToSet
      <4>2. PICK j \in 1..Len(q) : j # k /\ x = q[j]
        BY <1>1, <2>7, <4>1
      <4>3. QED
        BY <1>1, <1>3, <4>2 DEF ToSet, IsInjective
    <3>2. ASSUME x \in ToSet(q) \ {r} PROVE x \in ToSet(new)
      <4>1. PICK j \in 1..Len(q) : x = q[j] /\ j # k
        BY <1>1, <1>3, <3>2 DEF ToSet
      <4>2. CASE j < k
        <5>1. j \in 1..Len(q) - 1 /\ new[j] = x
          BY <1>1, <2>7, <4>1, <4>2
        <5>2. QED
          BY <2>8, <5>1 DEF ToSet
      <4>3. CASE j > k
        <5>1. j - 1 \in 1..Len(q) - 1 /\ new[j - 1] = x
          BY <1>1, <2>7, <4>1, <4>3
        <5>2. QED
          BY <2>8, <5>1 DEF ToSet
      <4>4. QED
        BY <4>1, <4>2, <4>3
    <3>3. QED
      BY <3>1, <3>2
  <2>11. QED
    BY <2>4, <2>7, <2>9, <2>10 DEF new, a, b
<1>4. QED
  BY <1>2, <1>3

-----------------------------------------------------------------------------
(* TypeOK, one part at a time.                                             *)

Where == {"working", "capture", "lookup", "grader", "waiting", "grading", "store", "install",
          "reward", "ended"}

InputsType ==
  /\ kind \in {"swe", "terminal_bench"} /\ wrapped \in BOOLEAN /\ tree \in [Swe -> Patches]
PatchType == patch \in [Swe -> Patches]
ContainerType ==
  /\ reward \in [Terminal -> {"absent", "0", "1", "junk"}]
  /\ verifier \in [Terminal -> {"absent", "0", "1", "junk"}]
  /\ retried \in [Terminal -> BOOLEAN]
PcType ==
  /\ pc \in [Rollouts -> Where] /\ ending \in [Rollouts -> Endings]
  /\ \A r \in Rollouts : pc[r] = "ended" <=> ending[r] # "none"
LockType ==
  /\ holder \in Swe \cup {Nobody} /\ queue \in Seq(Swe)
  /\ holder # Nobody => pc[holder] = "grading"
  /\ ToSet(queue) = {r \in Swe : pc[r] = "waiting"} /\ IsInjective(queue)
  /\ {logDir, previous} \subseteq Swe \cup {Default}
ThreadType == thread \in [Swe -> Thread]
ReportsType == reports \subseteq (Swe \cup {Default}) \X Swe
GradedType == graded \subseteq Swe \X Patches \X Grade
MemoType == memo \in [Swe \X Patches -> Grade \cup {"none", "unusable"}]

LEMMA TypeParts ==
  TypeOK => /\ InputsType /\ PatchType /\ ContainerType /\ PcType /\ LockType /\ ThreadType
            /\ ReportsType /\ GradedType /\ MemoType
BY DEF TypeOK, InputsType, PatchType, ContainerType, PcType, LockType, ThreadType, ReportsType,
       GradedType, MemoType, Where

LEMMA TypePartsNext ==
  ASSUME InputsType', PatchType', ContainerType', PcType', LockType', ThreadType', ReportsType',
         GradedType', MemoType'
  PROVE  TypeOK'
BY DEF TypeOK, InputsType, PatchType, ContainerType, PcType, LockType, ThreadType, ReportsType,
       GradedType, MemoType, Where

LEMMA TypeFrame ==
  ASSUME TypeOK
  PROVE  /\ UNCHANGED inputs => InputsType'
         /\ patch' = patch => PatchType'
         /\ UNCHANGED container => ContainerType'
         /\ UNCHANGED <<pc, ending>> => PcType'
         /\ UNCHANGED <<lock, pc>> => LockType'
         /\ thread' = thread => ThreadType'
         /\ reports' \subseteq reports => ReportsType'
         /\ graded' = graded => GradedType'
         /\ memo' = memo => MemoType'
<1>1. /\ InputsType /\ PatchType /\ ContainerType /\ PcType /\ LockType /\ ThreadType
      /\ ReportsType /\ GradedType /\ MemoType
  BY TypeParts
<1>2. UNCHANGED <<lock, pc>> => LockType'
  BY <1>1 DEF LockType, lock
<1>3. QED
  BY <1>1, <1>2
  DEF InputsType, PatchType, ContainerType, PcType, ThreadType, ReportsType, GradedType, MemoType,
      inputs, container

LEMMA EndsIs ==
  ASSUME TypeOK, NEW r \in Rollouts, NEW how \in Endings \ {"none"}, Ends(r, how)
  PROVE  /\ PcType'
         /\ pc'[r] = "ended" /\ ending'[r] = how
         /\ \A q \in Rollouts \ {r} : pc'[q] = pc[q] /\ ending'[q] = ending[q]
BY TypeParts DEF PcType, Ends, Where

LEMMA GoesIs ==
  ASSUME TypeOK, NEW r \in Rollouts, pc[r] # "ended", NEW where \in Where \ {"ended"},
         GoesTo(r, where)
  PROVE  /\ PcType'
         /\ pc'[r] = where /\ ending' = ending
         /\ \A q \in Rollouts \ {r} : pc'[q] = pc[q]
BY TypeParts DEF PcType, GoesTo, Where

\* A step that leaves the lock alone, of somebody who neither has it nor waits.
LEMMA LockTypeKept ==
  ASSUME TypeOK, UNCHANGED lock, NEW r \in Rollouts,
         pc[r] \notin {"waiting", "grading"}, pc'[r] \notin {"waiting", "grading"},
         \A q \in Rollouts \ {r} : pc'[q] = pc[q]
  PROVE  LockType'
<1>1. LockType
  BY TypeParts
<1>2. {q \in Swe : pc'[q] = "waiting"} = {q \in Swe : pc[q] = "waiting"}
  BY DEF Rollouts
<1>3. holder # Nobody => holder # r /\ pc'[holder] = "grading"
  BY <1>1 DEF LockType, Rollouts
<1>4. QED
  BY <1>1, <1>2, <1>3 DEF LockType, lock

-----------------------------------------------------------------------------
(* The other parts.                                                        *)

\* Nothing is left of what a step does not concern.
LEMMA OkElsewhere ==
  ASSUME NEW q \in Rollouts, pc'[q] = pc[q], ending'[q] = ending[q],
         q \in Swe => patch'[q] = patch[q] /\ thread'[q] = thread[q],
         q \in Swe => (<<q, q>> \in reports => <<q, q>> \in reports'),
         q \in Terminal => verifier'[q] = verifier[q],
         graded \subseteq graded'
  PROVE  /\ q \in Swe /\ ThreadOk(q) => ThreadOk(q)'
         /\ q \in Swe /\ FoundOk(q) => FoundOk(q)'
         /\ EndingOk(q) => EndingOk(q)'
<1>1. q \in Swe /\ ThreadOk(q) => ThreadOk(q)'
  BY DEF ThreadOk, NoThread
<1>2. q \in Swe /\ FoundOk(q) => FoundOk(q)'
  BY DEF FoundOk
<1>3. EndingOk(q) => EndingOk(q)'
  BY DEF EndingOk, Rollouts, Read
<1>4. QED
  BY <1>1, <1>2, <1>3

\* Everything but the log directory, for a step of one rollout.
LEMMA SafeElsewhere ==
  ASSUME TypeOK, Safe, NEW r \in Rollouts,
         \A q \in Rollouts \ {r} : pc'[q] = pc[q] /\ ending'[q] = ending[q],
         \A q \in Swe \ {r} : patch'[q] = patch[q] /\ thread'[q] = thread[q],
         \A q \in Swe \ {r} : <<q, q>> \in reports => <<q, q>> \in reports',
         \A q \in Terminal \ {r} : verifier'[q] = verifier[q] /\ reward'[q] = reward[q],
         graded \subseteq graded',
         r \in Swe => ThreadOk(r)' /\ FoundOk(r)', EndingOk(r)',
         r \in Terminal /\ pc'[r] = "reward" => reward'[r] = verifier'[r],
         LockInv', MemoIsEarned'
  PROVE  Safe'
<1>1. \A q \in Rollouts \ {r} : (q \in Swe => ThreadOk(q)' /\ FoundOk(q)') /\ EndingOk(q)'
  BY OkElsewhere DEF Safe, Rollouts
<1>2. RewardInv'
  BY DEF Safe, RewardInv, Rollouts
<1>3. QED
  BY <1>1, <1>2 DEF Safe, Rollouts

LEMMA MemoKept == MemoIsEarned /\ memo' = memo /\ graded \subseteq graded' => MemoIsEarned'
BY DEF MemoIsEarned

LEMMA LockInvKept ==
  ASSUME LockInv, UNCHANGED <<holder, logDir, previous>>,
         \A q \in Swe : pc'[q] = "grading" => pc[q] = "grading"
  PROVE  LockInv'
BY DEF LockInv

\* A rollout moves between two places without a thread, or ends without a grade.
LEMMA SafeKept ==
  ASSUME TypeOK, Safe, NEW r \in Rollouts,
         UNCHANGED <<patch, reward, verifier, lock, official, memo>>,
         \A q \in Rollouts \ {r} : pc'[q] = pc[q] /\ ending'[q] = ending[q],
         pc[r] \notin {"grading", "store", "ended"},
         pc'[r] \notin {"grading", "store"},
         r \in Swe => pc'[r] \notin {"install", "reward"},
         pc'[r] = "reward" => pc[r] = "reward",
         ending'[r] \notin Grade \cup {"corrupt"}
  PROVE  Safe'
<1> USE DEF lock, official
<1>1. r \in Swe => ThreadOk(r) /\ FoundOk(r) /\ pc[r] \in Where
  BY TypeParts DEF Safe, PcType
<1>2. r \in Swe => ThreadOk(r)' /\ FoundOk(r)'
  BY <1>1 DEF ThreadOk, FoundOk, NoThread, Where
<1>3. EndingOk(r)'
  BY DEF EndingOk
<1>4. LockInv' /\ MemoIsEarned'
  BY LockInvKept, MemoKept DEF Safe, Rollouts
<1>5. r \in Terminal /\ pc'[r] = "reward" => reward'[r] = verifier'[r]
  BY DEF Safe, RewardInv
<1>6. QED
  BY <1>2, <1>3, <1>4, <1>5, SafeElsewhere DEF Rollouts

-----------------------------------------------------------------------------
(* The steps before and after the grader.                                  *)

LEMMA SubmitStep ==
  ASSUME IInv, NEW r \in Rollouts, Submit(r)
  PROVE  IInv'
<1> DEFINE where == IF r \in Swe THEN "capture" ELSE "install"
<1>1. TypeOK /\ Safe
  BY DEF IInv
<1>2. /\ PcType' /\ pc[r] = "working" /\ pc'[r] = where /\ ending' = ending
      /\ \A q \in Rollouts \ {r} : pc'[q] = pc[q]
  BY <1>1, GoesIs DEF Submit, Where
<1>3. UNCHANGED <<inputs, patch, container, lock, official, memo>>
  BY DEF Submit
<1>4. TypeOK'
  BY <1>1, <1>2, <1>3, TypeFrame, LockTypeKept, TypePartsNext DEF official
<1>5. ending[r] = "none"
  BY <1>1, <1>2, TypeParts DEF PcType
<1>6. Safe'
  BY <1>1, <1>2, <1>3, <1>5, SafeKept DEF container, Grade
<1>7. QED
  BY <1>4, <1>6 DEF IInv

LEMMA RaisesStep ==
  ASSUME IInv, NEW r \in Rollouts, Raises(r)
  PROVE  IInv'
<1>1. TypeOK /\ Safe
  BY DEF IInv
<1>2. /\ PcType' /\ pc[r] \in {"capture", "grader", "install", "reward"}
      /\ pc'[r] = "ended" /\ ending'[r] = "error"
      /\ \A q \in Rollouts \ {r} : pc'[q] = pc[q] /\ ending'[q] = ending[q]
  BY <1>1, EndsIs DEF Raises, Endings
<1>3. UNCHANGED <<inputs, patch, container, lock, official, memo>>
  BY DEF Raises
<1>4. TypeOK'
  BY <1>1, <1>2, <1>3, TypeFrame, LockTypeKept, TypePartsNext DEF official
<1>5. Safe'
  BY <1>1, <1>2, <1>3, SafeKept DEF container, Grade
<1>6. QED
  BY <1>4, <1>5 DEF IInv

LEMMA MissStep ==
  ASSUME IInv, NEW r \in Swe, Miss(r)
  PROVE  IInv'
<1>1. TypeOK /\ Safe /\ r \in Rollouts
  BY DEF IInv, Rollouts
<1>2. /\ PcType' /\ pc[r] = "lookup" /\ pc'[r] = "grader" /\ ending' = ending
      /\ \A q \in Rollouts \ {r} : pc'[q] = pc[q]
  BY <1>1, GoesIs DEF Miss, Where
<1>3. UNCHANGED <<inputs, patch, container, lock, official, memo>>
  BY DEF Miss
<1>4. TypeOK'
  BY <1>1, <1>2, <1>3, TypeFrame, LockTypeKept, TypePartsNext DEF official
<1>5. ending[r] = "none"
  BY <1>1, <1>2, TypeParts DEF PcType
<1>6. Safe'
  BY <1>1, <1>2, <1>3, <1>5, SafeKept DEF container, Grade
<1>7. QED
  BY <1>4, <1>6 DEF IInv

LEMMA CaptureStep ==
  ASSUME IInv, NEW r \in Swe, Capture(r)
  PROVE  IInv'
<1>1. TypeOK /\ Safe /\ r \in Rollouts
  BY DEF IInv, Rollouts
<1>2. /\ PcType' /\ pc[r] = "capture" /\ pc'[r] \in {"lookup", "grader"} /\ ending' = ending
      /\ \A q \in Rollouts \ {r} : pc'[q] = pc[q]
  BY <1>1, GoesIs DEF Capture, Where
<1>3. UNCHANGED <<inputs, container, lock, official, memo>>
  BY DEF Capture
<1>4. PatchType' /\ \A q \in Swe \ {r} : patch'[q] = patch[q]
  BY <1>1, TypeParts, GradingAssumption DEF Capture, PatchType, InputsType
<1>5. TypeOK'
  BY <1>1, <1>2, <1>3, <1>4, TypeFrame, LockTypeKept, TypePartsNext DEF official
<1>6. ending'[r] = "none"
  BY <1>1, <1>2, TypeParts DEF PcType
<1>7. ThreadOk(r)' /\ FoundOk(r)'
  <2>1. thread'[r] = NoThread
    BY <1>1, <1>2, <1>3 DEF Safe, ThreadOk, official
  <2>2. QED
    BY <1>2, <2>1 DEF ThreadOk, FoundOk, NoThread
<1>8. EndingOk(r)'
  BY <1>6 DEF EndingOk, Grade
<1>9. LockInv' /\ MemoIsEarned'
  BY <1>1, <1>2, <1>3, LockInvKept, MemoKept DEF Safe, lock, official, Rollouts
<1>10. Safe'
  BY <1>1, <1>2, <1>3, <1>4, <1>7, <1>8, <1>9, SafeElsewhere DEF container, official
<1>11. QED
  BY <1>5, <1>10 DEF IInv

LEMMA RestoreStep ==
  ASSUME IInv, NEW r \in Swe, Restore(r)
  PROVE  IInv'
<1> DEFINE how == memo[<<r, patch[r]>>]
<1>1. TypeOK /\ Safe /\ r \in Rollouts
  BY DEF IInv, Rollouts
<1>2. /\ PcType' /\ pc[r] = "lookup" /\ how \in Grade
      /\ pc'[r] = "ended" /\ ending'[r] = how
      /\ \A q \in Rollouts \ {r} : pc'[q] = pc[q] /\ ending'[q] = ending[q]
  BY <1>1, EndsIs DEF Restore, Endings, Grade
<1>3. /\ UNCHANGED <<inputs, patch, container, lock, thread, graded, memo>>
      /\ reports' = reports \cup {<<r, r>>}
  BY DEF Restore
<1>4. ReportsType'
  BY <1>1, <1>3, TypeParts DEF ReportsType
<1>5. TypeOK'
  BY <1>1, <1>2, <1>3, <1>4, TypeFrame, LockTypeKept, TypePartsNext
<1>6. ThreadOk(r)' /\ FoundOk(r)'
  <2>1. thread'[r] = NoThread
    BY <1>1, <1>2, <1>3 DEF Safe, ThreadOk
  <2>2. QED
    BY <1>2, <2>1 DEF ThreadOk, FoundOk, NoThread
<1>7. EndingOk(r)'
  <2>1. <<r, patch[r]>> \in Swe \X Patches
    BY <1>1, TypeParts DEF PatchType
  <2>2. <<r, patch[r], how>> \in graded
    BY <1>1, <1>2, <2>1 DEF Safe, MemoIsEarned
  <2>3. QED
    BY <1>2, <1>3, <2>2 DEF EndingOk, Grade
<1>8. LockInv' /\ MemoIsEarned'
  BY <1>1, <1>2, <1>3, LockInvKept, MemoKept DEF Safe, lock, Rollouts
<1>9. Safe'
  BY <1>1, <1>2, <1>3, <1>6, <1>7, <1>8, SafeElsewhere DEF container
<1>10. QED
  BY <1>5, <1>9 DEF IInv

LEMMA StoreStep ==
  ASSUME IInv, NEW r \in Swe, Store(r)
  PROVE  IInv'
<1> DEFINE how == thread[r].found
<1>1. TypeOK /\ Safe /\ r \in Rollouts
  BY DEF IInv, Rollouts
<1>2. /\ pc[r] = "store" /\ thread[r].state = "ended" /\ how \in Grade
      /\ <<r, patch[r], how>> \in graded
  BY <1>1 DEF Store, Safe, ThreadOk, FoundOk
<1>3. /\ PcType' /\ pc'[r] = "ended" /\ ending'[r] = how
      /\ \A q \in Rollouts \ {r} : pc'[q] = pc[q] /\ ending'[q] = ending[q]
  BY <1>1, <1>2, EndsIs DEF Store, Endings, Grade
<1>4. UNCHANGED <<inputs, patch, container, lock, official>>
  BY DEF Store
<1>5. MemoType' /\ MemoIsEarned'
  <2>1. memo \in [Swe \X Patches -> Grade \cup {"none", "unusable"}] /\ patch[r] \in Patches
    BY <1>1, TypeParts DEF MemoType, PatchType
  <2>2. CASE memo' = memo
    BY <1>1, <1>4, <2>1, <2>2, MemoKept DEF Safe, MemoType, official
  <2>3. CASE memo' = [memo EXCEPT ![<<r, patch[r]>>] = how]
    <3>1. MemoType'
      BY <1>2, <2>1, <2>3 DEF MemoType
    <3>2. ASSUME NEW k \in Swe \X Patches, memo'[k] \in Grade
          PROVE  <<k[1], k[2], memo'[k]>> \in graded'
      <4>1. CASE k = <<r, patch[r]>>
        BY <1>2, <1>4, <2>1, <2>3, <4>1 DEF official
      <4>2. CASE k # <<r, patch[r]>>
        BY <1>1, <1>4, <2>1, <2>3, <3>2, <4>2 DEF Safe, MemoIsEarned, official
      <4>3. QED
        BY <4>1, <4>2
    <3>3. QED
      BY <3>1, <3>2 DEF MemoIsEarned
  <2>4. QED
    BY <2>2, <2>3 DEF Store, VerifyCacheKey
<1>6. TypeOK'
  BY <1>1, <1>2, <1>3, <1>4, <1>5, TypeFrame, LockTypeKept, TypePartsNext DEF official
<1>7. ThreadOk(r)' /\ FoundOk(r)'
  BY <1>1, <1>2, <1>3, <1>4 DEF Safe, ThreadOk, FoundOk, official
<1>8. EndingOk(r)'
  BY <1>2, <1>3, <1>4 DEF EndingOk, Grade, official
<1>9. LockInv'
  BY <1>1, <1>3, <1>4, LockInvKept DEF Safe, lock, Rollouts
<1>10. Safe'
  BY <1>1, <1>3, <1>4, <1>5, <1>7, <1>8, <1>9, SafeElsewhere DEF container, official
<1>11. QED
  BY <1>6, <1>10 DEF IInv

-----------------------------------------------------------------------------
(* TerminalBenchEnv.verify.                                                *)

LEMMA RunVerifierStep ==
  ASSUME IInv, NEW r \in Terminal, RunVerifier(r)
  PROVE  IInv'
<1>1. TypeOK /\ Safe /\ r \in Rollouts
  BY DEF IInv, Rollouts
<1>2. r \notin Swe
  BY <1>1 DEF RunVerifier, Safe, ThreadOk
<1>3. /\ PcType' /\ pc[r] = "install" /\ pc'[r] = "reward" /\ ending' = ending
      /\ \A q \in Rollouts \ {r} : pc'[q] = pc[q]
  BY <1>1, GoesIs DEF RunVerifier, Where
<1>4. UNCHANGED <<inputs, patch, retried, lock, official, memo>>
  BY DEF RunVerifier
<1>5. /\ ContainerType' /\ reward'[r] = verifier'[r]
      /\ \A q \in Terminal \ {r} : reward'[q] = reward[q] /\ verifier'[q] = verifier[q]
  BY <1>1, <1>4, TypeParts DEF RunVerifier, ContainerType
<1>6. TypeOK'
  BY <1>1, <1>3, <1>4, <1>5, TypeFrame, LockTypeKept, TypePartsNext DEF official
<1>7. EndingOk(r)'
  <2>1. ending'[r] = "none"
    BY <1>1, <1>3, TypeParts DEF PcType
  <2>2. QED
    BY <2>1 DEF EndingOk, Grade
<1>8. LockInv' /\ MemoIsEarned'
  BY <1>1, <1>3, <1>4, LockInvKept, MemoKept DEF Safe, lock, official, Rollouts
<1>9. Safe'
  BY <1>1, <1>2, <1>3, <1>4, <1>5, <1>7, <1>8, SafeElsewhere DEF official
<1>10. QED
  BY <1>6, <1>9 DEF IInv

LEMMA ReadRewardStep ==
  ASSUME IInv, NEW r \in Terminal, ReadReward(r)
  PROVE  IInv'
<1>1. TypeOK /\ Safe /\ r \in Rollouts
  BY DEF IInv, Rollouts
<1>2. pc[r] = "reward" /\ r \notin Swe /\ reward[r] = verifier[r]
  BY <1>1 DEF ReadReward, Safe, ThreadOk, RewardInv
<1>3. UNCHANGED <<inputs, patch, reward, verifier, lock, official, memo>>
  BY DEF ReadReward
<1>4. ContainerType'
  BY <1>1, <1>3, TypeParts DEF ReadReward, ReadLost, ContainerType
<1>5. CASE UNCHANGED <<pc, ending>>
  <2>1. TypeOK'
    BY <1>1, <1>3, <1>4, <1>5, TypeFrame, TypePartsNext DEF official
  <2>2. ending'[r] = "none"
    BY <1>1, <1>2, <1>5, TypeParts DEF PcType
  <2>3. Safe'
    BY <1>1, <1>2, <1>3, <1>5, <2>2, SafeKept DEF Grade
  <2>4. QED
    BY <2>1, <2>3 DEF IInv
<1>6. ASSUME NEW how \in {"incomplete", Read(reward[r])}, Ends(r, how)
      PROVE  IInv'
  <2>1. how \in Endings \ {"none"}
    BY DEF Read, Endings, Grade
  <2>2. /\ PcType' /\ pc'[r] = "ended" /\ ending'[r] = how
        /\ \A q \in Rollouts \ {r} : pc'[q] = pc[q] /\ ending'[q] = ending[q]
    BY <1>1, <1>6, <2>1, EndsIs
  <2>3. TypeOK'
    BY <1>1, <1>2, <1>3, <1>4, <2>2, TypeFrame, LockTypeKept, TypePartsNext DEF official
  <2>4. EndingOk(r)'
    BY <1>2, <1>3, <2>2 DEF EndingOk, Read, Grade
  <2>5. LockInv' /\ MemoIsEarned'
    BY <1>1, <1>3, <2>2, LockInvKept, MemoKept DEF Safe, lock, official, Rollouts
  <2>6. Safe'
    BY <1>1, <1>2, <1>3, <2>2, <2>4, <2>5, SafeElsewhere DEF official
  <2>7. QED
    BY <2>3, <2>6 DEF IInv
<1>7. QED
  BY <1>5, <1>6 DEF ReadReward, ReadLost

-----------------------------------------------------------------------------
(* The grader and its lock.                                                *)

\* Somebody gets the lock that nobody has: who asks first, or the first who waits.
LEMMA AcquiredSafe ==
  ASSUME TypeOK, Safe, NEW r \in Swe, pc[r] \in {"grader", "waiting"}, holder = Nobody,
         Acquired(r), UNCHANGED <<inputs, patch, container, graded, memo>>,
         queue' \in Seq(Swe), IsInjective(queue'), ToSet(queue') = ToSet(queue) \ {r},
         reports' \subseteq reports,
         \A q \in Swe \ {r} : <<q, q>> \in reports => <<q, q>> \in reports'
  PROVE  IInv'
<1>1. r \in Rollouts /\ r # Nobody /\ r # Default
  BY GradingAssumption DEF Rollouts
<1>2. /\ PcType' /\ pc'[r] = "grading" /\ ending' = ending
      /\ \A q \in Rollouts \ {r} : pc'[q] = pc[q]
  BY <1>1, GoesIs DEF Acquired, Where
<1>3. holder' = r /\ previous' = logDir /\ logDir' = r
  BY DEF Acquired
<1>4. logDir = Default /\ \A q \in Swe : pc[q] # "grading"
  BY GradingAssumption DEF Safe, LockInv
<1>5. LockType'
  <2>1. LockType
    BY TypeParts
  <2>2. ToSet(queue') = {q \in Swe : pc'[q] = "waiting"}
    BY <1>2, <2>1 DEF LockType, Rollouts
  <2>3. QED
    BY <1>2, <1>3, <1>4, <2>2 DEF LockType
<1>6. /\ thread[r] = NoThread /\ thread \in [Swe -> Thread]
  BY TypeParts DEF Safe, ThreadOk, ThreadType
<1>7. /\ thread'[r] = [state |-> "queued", root |-> Default, found |-> "none"]
      /\ \A q \in Swe \ {r} : thread'[q] = thread[q]
      /\ thread' = [q \in Swe |-> thread'[q]]
  BY <1>6 DEF Acquired, NoThread
<1>8. ThreadType'
  BY <1>6, <1>7 DEF ThreadType, Thread
<1>9. TypeOK'
  BY <1>2, <1>5, <1>8, TypeFrame, TypePartsNext
<1>10. ThreadOk(r)' /\ FoundOk(r)'
  BY <1>2, <1>7 DEF ThreadOk, FoundOk
<1>11. EndingOk(r)'
  <2>1. ending'[r] = "none"
    BY <1>1, <1>2, TypeParts DEF PcType
  <2>2. QED
    BY <2>1 DEF EndingOk, Grade
<1>12. LockInv'
  BY <1>1, <1>2, <1>3, <1>4 DEF LockInv, Rollouts
<1>13. MemoIsEarned'
  BY MemoKept DEF Safe
<1>14. Safe'
  BY <1>1, <1>2, <1>7, <1>10, <1>11, <1>12, <1>13, SafeElsewhere DEF container
<1>15. QED
  BY <1>9, <1>14 DEF IInv

LEMMA AskForLockStep ==
  ASSUME IInv, NEW r \in Swe, AskForLock(r)
  PROVE  IInv'
<1>1. TypeOK /\ Safe /\ r \in Rollouts /\ LockType /\ PcType
  BY TypeParts DEF IInv, Rollouts
<1>2. /\ pc[r] = "grader" /\ UNCHANGED <<inputs, patch, container, graded, memo>>
      /\ reports' = {f \in reports : f[1] # r}
  BY DEF AskForLock
<1>3. /\ reports' \subseteq reports
      /\ \A q \in Swe \ {r} : <<q, q>> \in reports => <<q, q>> \in reports'
  BY <1>2
<1>4. r \notin ToSet(queue) /\ queue \in Seq(Swe) /\ IsInjective(queue)
  BY <1>1, <1>2 DEF LockType
<1>5. CASE holder = Nobody /\ queue = <<>>
  <2>1. Acquired(r) /\ queue' = queue
    BY <1>5 DEF AskForLock
  <2>2. ToSet(queue) \ {r} = ToSet(queue)
    BY <1>4
  <2>3. QED
    BY <1>1, <1>2, <1>3, <1>4, <1>5, <2>1, <2>2, AcquiredSafe
<1>6. CASE ~(holder = Nobody /\ queue = <<>>)
  <2>1. /\ queue' = Append(queue, r) /\ GoesTo(r, "waiting")
        /\ UNCHANGED <<holder, logDir, previous, thread>>
    BY <1>6 DEF AskForLock
  <2>2. /\ PcType' /\ pc'[r] = "waiting" /\ ending' = ending
        /\ \A q \in Rollouts \ {r} : pc'[q] = pc[q]
    BY <1>1, <1>2, <2>1, GoesIs DEF Where
  <2>3. /\ queue' \in Seq(Swe) /\ IsInjective(queue') /\ ToSet(queue') = ToSet(queue) \cup {r}
    BY <1>4, <2>1, Appended
  <2>4. LockType'
    <3>1. ToSet(queue') = {q \in Swe : pc'[q] = "waiting"}
      BY <1>1, <2>2, <2>3 DEF LockType, Rollouts
    <3>2. holder # Nobody => pc'[holder] = "grading"
      BY <1>1, <1>2, <2>2 DEF LockType, Rollouts
    <3>3. QED
      BY <1>1, <2>1, <2>3, <3>1, <3>2 DEF LockType
  <2>5. TypeOK'
    BY <1>1, <1>2, <1>3, <2>1, <2>2, <2>4, TypeFrame, TypePartsNext
  <2>6. ThreadOk(r)' /\ FoundOk(r)'
    <3>1. thread'[r] = NoThread
      BY <1>1, <1>2, <2>1 DEF Safe, ThreadOk
    <3>2. QED
      BY <2>2, <3>1 DEF ThreadOk, FoundOk, NoThread
  <2>7. EndingOk(r)'
    <3>1. ending'[r] = "none"
      BY <1>1, <1>2, <2>2 DEF PcType
    <3>2. QED
      BY <3>1 DEF EndingOk, Grade
  <2>8. LockInv' /\ MemoIsEarned'
    BY <1>1, <1>2, <2>1, <2>2, LockInvKept, MemoKept DEF Safe, Rollouts
  <2>9. Safe'
    BY <1>1, <1>2, <1>3, <2>1, <2>2, <2>6, <2>7, <2>8, SafeElsewhere DEF container
  <2>10. QED
    BY <2>5, <2>9 DEF IInv
<1>7. QED
  BY <1>5, <1>6

LEMMA WokenUpStep ==
  ASSUME IInv, NEW r \in Swe, WokenUp(r)
  PROVE  IInv'
<1>1. TypeOK /\ Safe /\ LockType
  BY TypeParts DEF IInv
<1>2. /\ pc[r] = "waiting" /\ holder = Nobody /\ Head(queue) = r /\ queue' = Tail(queue)
      /\ Acquired(r) /\ UNCHANGED <<inputs, patch, container, reports, graded, memo>>
  BY DEF WokenUp
<1>3. queue # <<>> /\ queue \in Seq(Swe) /\ IsInjective(queue)
  BY <1>1, <1>2 DEF LockType, ToSet
<1>4. queue' \in Seq(Swe) /\ IsInjective(queue') /\ ToSet(queue') = ToSet(queue) \ {r}
  BY <1>2, <1>3, Headed
<1>5. QED
  BY <1>1, <1>2, <1>4, AcquiredSafe

LEMMA ThreadStartsStep ==
  ASSUME IInv, NEW r \in Swe, ThreadStarts(r)
  PROVE  IInv'
<1> DEFINE new == [state |-> "running", root |-> logDir, found |-> "none"]
<1>1. TypeOK /\ Safe /\ r \in Rollouts /\ ThreadType /\ LockType
  BY TypeParts DEF IInv, Rollouts
<1>2. /\ UNCHANGED <<inputs, patch, container, pc, lock, reports, graded, memo, ending>>
      /\ thread[r].state = "queued" /\ thread' = [thread EXCEPT ![r] = new]
  BY DEF ThreadStarts
<1>3. pc[r] = "grading" /\ logDir = r
  BY <1>1, <1>2, GradingAssumption DEF Safe, ThreadOk, LockInv
<1>4. new \in Thread
  BY <1>3 DEF Thread
<1>5. ThreadType' /\ thread'[r] = new /\ \A q \in Swe \ {r} : thread'[q] = thread[q]
  BY <1>1, <1>2, <1>4 DEF ThreadType
<1>6. TypeOK'
  BY <1>1, <1>2, <1>5, TypeFrame, TypePartsNext
<1>7. ThreadOk(r)' /\ FoundOk(r)'
  BY <1>2, <1>3, <1>5 DEF ThreadOk, FoundOk
<1>8. EndingOk(r)'
  <2>1. ending'[r] = "none"
    BY <1>1, <1>2, <1>3, TypeParts DEF PcType
  <2>2. QED
    BY <2>1 DEF EndingOk, Grade
<1>9. LockInv' /\ MemoIsEarned'
  BY <1>1, <1>2, LockInvKept, MemoKept DEF Safe, lock
<1>10. Safe'
  BY <1>1, <1>2, <1>3, <1>5, <1>7, <1>8, <1>9, SafeElsewhere DEF container
<1>11. QED
  BY <1>6, <1>10 DEF IInv

LEMMA ThreadEndsStep ==
  ASSUME IInv, NEW r \in Swe, ThreadEnds(r)
  PROVE  IInv'
<1>1. TypeOK /\ Safe /\ r \in Rollouts /\ ThreadType /\ PatchType /\ ReportsType /\ GradedType
  BY TypeParts DEF IInv, Rollouts
<1>2. PICK found \in Grade \cup {"incomplete", "raised"} :
        /\ thread' = [thread EXCEPT ![r] =
                       [state |-> "ended", root |-> thread[r].root, found |-> found]]
        /\ IF found \in Grade
           THEN /\ reports' = reports \cup {<<thread[r].root, r>>}
                /\ graded' = graded \cup {<<r, patch[r], found>>}
           ELSE UNCHANGED <<reports, graded>>
  BY DEF ThreadEnds
<1> DEFINE new == [state |-> "ended", root |-> thread[r].root, found |-> found]
<1>3. /\ UNCHANGED <<inputs, patch, container, pc, lock, memo, ending>>
      /\ thread[r].state = "running" /\ thread[r].root = r
  BY <1>1 DEF ThreadEnds, Safe, ThreadOk
<1>4. new \in Thread
  BY <1>3 DEF Thread
<1>5. ThreadType' /\ thread'[r] = new /\ \A q \in Swe \ {r} : thread'[q] = thread[q]
  BY <1>1, <1>2, <1>4 DEF ThreadType
<1>6. /\ reports \subseteq reports' /\ graded \subseteq graded'
      /\ found \in Grade => <<r, patch[r], found>> \in graded' /\ <<r, r>> \in reports'
  BY <1>2, <1>3
<1>7. ReportsType' /\ GradedType'
  BY <1>1, <1>2, <1>3 DEF ReportsType, GradedType, PatchType
<1>8. TypeOK'
  BY <1>1, <1>3, <1>5, <1>7, TypeFrame, TypePartsNext
<1>9. ThreadOk(r)'
  <2>1. /\ new.state = "ended" /\ new.root = r /\ new.found # "none"
    BY <1>3 DEF Grade
  <2>2. pc[r] \notin {"install", "reward", "working", "capture", "lookup", "grader", "waiting",
                     "store"}
    BY <1>1, <1>3 DEF Safe, ThreadOk, NoThread
  <2>3. QED
    BY <1>3, <1>5, <2>1, <2>2 DEF ThreadOk
<1>10. FoundOk(r)'
  BY <1>3, <1>5, <1>6 DEF FoundOk
<1>11. EndingOk(r)'
  BY <1>1, <1>3, <1>6 DEF Safe, EndingOk
<1>12. LockInv' /\ MemoIsEarned'
  BY <1>1, <1>3, <1>6, LockInvKept, MemoKept DEF Safe, lock
<1>13. r \in Terminal /\ pc'[r] = "reward" => reward'[r] = verifier'[r]
  BY <1>1, <1>3 DEF Safe, RewardInv, container
<1>14. Safe'
  BY <1>1, <1>3, <1>5, <1>6, <1>9, <1>10, <1>11, <1>12, <1>13, SafeElsewhere DEF container
<1>15. QED
  BY <1>8, <1>14 DEF IInv

\* Whoever leaves the grader gives the log directory back.
LEMMA ReleaseIs ==
  ASSUME TypeOK, Safe, NEW r \in Rollouts, Release(r), pc'[r] # "grading",
         \A q \in Rollouts \ {r} : pc'[q] = pc[q],
         queue' \in Seq(Swe), IsInjective(queue'), ToSet(queue') = {q \in Swe : pc'[q] = "waiting"}
  PROVE  LockType' /\ LockInv'
<1>1. LockType /\ LockInv /\ Swe \subseteq Rollouts /\ Nobody \notin Rollouts /\ Default \notin Swe
  BY TypeParts, GradingAssumption DEF Safe, Rollouts
<1>2. CASE holder = r
  <2>1. holder' = Nobody /\ logDir' = previous /\ previous' = previous /\ previous = Default
    BY <1>1, <1>2 DEF Release, LockInv
  <2>2. \A q \in Swe : pc'[q] # "grading"
    BY <1>1, <1>2 DEF LockInv
  <2>3. LockInv'
    BY <1>1, <2>1, <2>2 DEF LockInv
  <2>4. QED
    BY <1>1, <2>1, <2>3 DEF LockType
<1>3. CASE holder # r
  <2>1. UNCHANGED <<holder, logDir, previous>>
    BY <1>3 DEF Release
  <2>2. \A q \in Swe : pc'[q] = "grading" => holder = q
    BY <1>1 DEF LockInv
  <2>3. holder # Nobody => pc'[holder] = "grading"
    BY <1>1, <1>3 DEF LockType
  <2>4. LockInv'
    BY <1>1, <2>1, <2>2 DEF LockInv
  <2>5. QED
    BY <1>1, <2>1, <2>3, <2>4 DEF LockType
<1>4. QED
  BY <1>2, <1>3

LEMMA ResumeStep ==
  ASSUME IInv, NEW r \in Swe, Resume(r)
  PROVE  IInv'
<1>1. TypeOK /\ Safe /\ r \in Rollouts /\ ThreadType /\ LockType
  BY TypeParts DEF IInv, Rollouts
<1>2. /\ pc[r] = "grading" /\ thread[r].state = "ended" /\ Release(r)
      /\ UNCHANGED <<inputs, patch, container, queue, official, memo>>
  BY DEF Resume
<1>3. /\ Found(r) = thread[r].found /\ thread[r].found \in Grade \cup {"incomplete", "raised"}
      /\ thread[r].found \in Grade => <<r, patch[r], thread[r].found>> \in graded
  <2>1. thread[r].found # "none" /\ FoundOk(r)
    BY <1>1, <1>2 DEF Safe, ThreadOk
  <2>2. thread[r].found \in Grade \cup {"none", "incomplete", "raised"}
    BY <1>1 DEF ThreadType, Thread
  <2>3. QED
    BY <1>2, <2>1, <2>2 DEF Found, FoundOk
<1> DEFINE how == IF thread[r].found = "raised" THEN "error" ELSE thread[r].found
<1>4. how \in Endings \ {"none"} /\ how # "corrupt" /\ (how \in Grade => how = thread[r].found)
  BY <1>3 DEF Endings, Grade
<1>5. \/ GoesTo(r, "store") /\ thread[r].found \in Grade
      \/ Ends(r, how)
  BY <1>3 DEF Resume
<1> HIDE DEF how
<1>6. /\ PcType' /\ pc'[r] \in {"store", "ended"}
      /\ pc'[r] = "store" => thread[r].found \in Grade
      /\ ending'[r] \in {"none", how}
      /\ \A q \in Rollouts \ {r} : pc'[q] = pc[q] /\ ending'[q] = ending[q]
  <2>1. CASE GoesTo(r, "store") /\ thread[r].found \in Grade
    <3>1. /\ PcType' /\ pc'[r] = "store" /\ ending' = ending
          /\ \A q \in Rollouts \ {r} : pc'[q] = pc[q]
      BY <1>1, <1>2, <2>1, GoesIs DEF Where
    <3>2. ending[r] = "none"
      BY <1>1, <1>2, TypeParts DEF PcType
    <3>3. QED
      BY <2>1, <3>1, <3>2
  <2>2. CASE Ends(r, how)
    BY <1>1, <1>4, <2>2, EndsIs
  <2>3. QED
    BY <1>5, <2>1, <2>2
<1>7. LockType' /\ LockInv'
  <2>1. ToSet(queue) = {q \in Swe : pc'[q] = "waiting"}
    BY <1>1, <1>2, <1>6 DEF LockType, Rollouts
  <2>2. queue' = queue /\ queue \in Seq(Swe) /\ IsInjective(queue)
    BY <1>1, <1>2 DEF LockType
  <2>3. QED
    BY <1>1, <1>2, <1>6, <2>1, <2>2, ReleaseIs
<1>8. TypeOK'
  BY <1>1, <1>2, <1>6, <1>7, TypeFrame, TypePartsNext DEF official
<1>9. ThreadOk(r)' /\ FoundOk(r)'
  BY <1>1, <1>2, <1>3, <1>6 DEF Safe, ThreadOk, FoundOk, official
<1>10. EndingOk(r)'
  BY <1>2, <1>3, <1>4, <1>6 DEF EndingOk, Grade, official
<1>11. MemoIsEarned'
  BY <1>1, <1>2, MemoKept DEF Safe, official
<1>12. Safe'
  BY <1>1, <1>2, <1>6, <1>7, <1>9, <1>10, <1>11, SafeElsewhere DEF container, official
<1>13. QED
  BY <1>8, <1>12 DEF IInv

LEMMA ExpireStep ==
  ASSUME IInv, NEW r \in Rollouts, Expire(r)
  PROVE  IInv'
<1>1. TypeOK /\ Safe /\ ThreadType /\ LockType
  BY TypeParts DEF IInv
<1>2. /\ pc[r] \notin {"working", "ended"} /\ Release(r) /\ queue' = RemoveFirst(queue, r)
      /\ UNCHANGED <<inputs, patch, container, reports, graded, memo>>
  BY DEF Expire
<1>3. /\ PcType' /\ pc'[r] = "ended" /\ ending'[r] = "timeout"
      /\ \A q \in Rollouts \ {r} : pc'[q] = pc[q] /\ ending'[q] = ending[q]
  BY <1>1, EndsIs DEF Expire, Endings, Grade
<1>4. queue' \in Seq(Swe) /\ IsInjective(queue') /\ ToSet(queue') = ToSet(queue) \ {r}
  BY <1>1, <1>2, Removed DEF LockType
<1>5. ToSet(queue') = {q \in Swe : pc'[q] = "waiting"}
  BY <1>1, <1>3, <1>4 DEF LockType, Rollouts
<1>6. LockType' /\ LockInv'
  BY <1>1, <1>2, <1>3, <1>4, <1>5, ReleaseIs
<1>7. NoThread \in Thread
  BY DEF NoThread, Thread
<1>8. /\ ThreadType' /\ \A q \in Swe \ {r} : thread'[q] = thread[q]
      /\ r \in Swe => \/ thread'[r] = NoThread
                      \/ thread'[r] = thread[r] /\ thread[r].state # "queued"
  BY <1>1, <1>7 DEF ThreadType, Expire
<1>9. TypeOK'
  BY <1>1, <1>2, <1>3, <1>6, <1>8, TypeFrame, TypePartsNext
<1>10. ASSUME r \in Swe PROVE ThreadOk(r)' /\ FoundOk(r)'
  <2>1. CASE thread'[r] = NoThread
    BY <1>3, <2>1 DEF ThreadOk, FoundOk, NoThread
  <2>2. CASE thread'[r] = thread[r] /\ thread[r].state # "queued"
    BY <1>1, <1>2, <1>3, <1>10, <2>2 DEF Safe, ThreadOk, FoundOk
  <2>3. QED
    BY <1>8, <1>10, <2>1, <2>2
<1>11. EndingOk(r)'
  BY <1>3 DEF EndingOk, Grade
<1>12. MemoIsEarned'
  BY <1>1, <1>2, MemoKept DEF Safe
<1>13. Safe'
  BY <1>1, <1>2, <1>3, <1>6, <1>8, <1>10, <1>11, <1>12, SafeElsewhere DEF container
<1>14. QED
  BY <1>9, <1>13 DEF IInv

-----------------------------------------------------------------------------
(* The theorems.                                                           *)

LEMMA InitInvariant == Init => IInv
<1> SUFFICES ASSUME Init PROVE TypeOK /\ Safe
  BY DEF IInv
<1>1. NoThread \in Thread /\ NoThread.state = "none" /\ NoThread.root = Default
  BY DEF NoThread, Thread
<1>2. InputsType /\ PatchType
  BY GradingAssumption DEF Init, InputsType, PatchType
<1>3. ContainerType
  BY DEF Init, ContainerType
<1>4. PcType
  BY DEF Init, PcType, Where, Endings
<1>5. LockType
  <2>1. ToSet(queue) = {} /\ IsInjective(queue) /\ queue \in Seq(Swe)
    BY DEF Init, ToSet, IsInjective
  <2>2. {r \in Swe : pc[r] = "waiting"} = {}
    BY DEF Init, Rollouts
  <2>3. QED
    BY <2>1, <2>2 DEF Init, LockType
<1>6. ThreadType /\ ReportsType
  BY <1>1 DEF Init, ThreadType, ReportsType
<1>7. PICK old \in Grade \cup {"none", "unusable"} :
        memo = [k \in Swe \X Patches |-> IF k[2] # NoPatch /\ k[1] \in Graded THEN old ELSE "none"]
  BY DEF Init
<1>8. MemoType
  BY <1>7 DEF MemoType
<1>9. graded = {k \in Swe \X Patches \X Grade : memo[<<k[1], k[2]>>] = k[3]}
  BY DEF Init
<1>10. GradedType
  BY <1>9 DEF GradedType
<1>11. MemoIsEarned
  <2> SUFFICES ASSUME NEW k \in Swe \X Patches, memo[k] \in Grade
               PROVE  <<k[1], k[2], memo[k]>> \in graded
    BY DEF MemoIsEarned
  <2>1. k = <<k[1], k[2]>> /\ k[1] \in Swe /\ k[2] \in Patches
    OBVIOUS
  <2>2. QED
    BY <1>9, <2>1
<1>12. TypeOK
  BY <1>2, <1>3, <1>4, <1>5, <1>6, <1>8, <1>10
  DEF TypeOK, InputsType, PatchType, ContainerType, PcType, LockType, ThreadType, ReportsType,
      GradedType, MemoType, Where
<1>13. \A r \in Swe : ThreadOk(r) /\ FoundOk(r)
  BY <1>1 DEF Init, ThreadOk, FoundOk, Rollouts
<1>14. \A r \in Rollouts : EndingOk(r)
  BY DEF Init, EndingOk, Grade
<1>15. LockInv /\ RewardInv
  BY DEF Init, LockInv, RewardInv, Rollouts
<1>16. QED
  BY <1>11, <1>12, <1>13, <1>14, <1>15 DEF Safe

LEMMA Stutter == IInv /\ UNCHANGED vars => IInv'
<1> SUFFICES ASSUME TypeOK, Safe, UNCHANGED vars PROVE TypeOK' /\ Safe'
  BY DEF IInv
<1> USE DEF vars, inputs, container, lock, official
<1>1. TypeOK'
  BY TypeFrame, TypePartsNext
<1>2. \A q \in Rollouts : (q \in Swe => ThreadOk(q)' /\ FoundOk(q)') /\ EndingOk(q)'
  BY OkElsewhere DEF Safe, Rollouts
<1>3. LockInv' /\ MemoIsEarned' /\ RewardInv'
  BY LockInvKept, MemoKept DEF Safe, RewardInv
<1>4. QED
  BY <1>1, <1>2, <1>3 DEF Safe, Rollouts

LEMMA Invariance == Spec => []IInv
<1>1. IInv /\ [Next]_vars => IInv'
  BY SubmitStep, RaisesStep, ExpireStep, CaptureStep, RestoreStep, MissStep, AskForLockStep,
     WokenUpStep, ResumeStep, StoreStep, ThreadStartsStep, ThreadEndsStep, RunVerifierStep,
     ReadRewardStep, Stutter
  DEF Next, SweStep
<1>2. QED
  BY <1>1, InitInvariant, PTL DEF Spec

\* A grade that verify() returns or the cache holds was found for that very diff, or in that
\* very container: for any number of rollouts that submit, expire and leave threads behind.
THEOREM GradesSafe == Spec => []GradesAreOwn
<1>1. IInv => GradesAreOwn
  BY DEF IInv, Safe, EndingOk, GradesAreOwn, VerdictIsOwn
<1>2. QED
  BY <1>1, Invariance, PTL

\* The log directory swebench's module keeps is the grading rollout's own, so that no report
\* of a completed grading is missed, and is back at its default when nobody grades.
THEOREM LogDirSafe == Spec => []LogDirIsOwn
<1>1. IInv => LogDirIsOwn
  BY DEF IInv, Safe, EndingOk, LockInv, LogDirIsOwn, ReportsAreFound, LogDirIsRestored, Rollouts
<1>2. QED
  BY <1>1, Invariance, PTL
=============================================================================
