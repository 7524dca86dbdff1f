----------------------------- MODULE AgentProofs -----------------------------
(***************************************************************************)
(* The shipped policy's step and its completion call, for every deployment, *)
(* any sizes of texts, any replies and any number of rollouts: requests are *)
(* trimmed right, a thinking runaway is paid for once, completions are the  *)
(* deployment's own, and the same history asks the same.                    *)
(***************************************************************************)
EXTENDS Agent, SequenceTheorems, FiniteSetTheorems, WellFoundedInduction, TLAPS

-----------------------------------------------------------------------------
(* Least elements, and the sum of a sequence.                              *)

\* A set of natural numbers that is not empty has a least element: what stands in for
\* induction in this module.
LEMMA LeastExists ==
  ASSUME NEW T, T \subseteq Nat, T # {}
  PROVE  \E x \in T : \A y \in T : x <= y
<1> DEFINE R == {ss \in Nat \X Nat : ss[1] < ss[2]}
<1>1. IsWellFoundedOn(R, Nat)
  <2>1. R = OpToRel(<, Nat)
    BY DEF OpToRel
  <2>2. QED
    BY <2>1, NatLessThanWellFounded
<1>2. PICK x \in T : \A y \in T : ~(<<y, x>> \in R)
  <2> HIDE DEF R
  <2>1. QED
    BY <1>1, WFMin
<1>3. ASSUME NEW y \in T
      PROVE  x <= y
  <2>1. x \in Nat /\ y \in Nat /\ <<y, x>> \in Nat \X Nat
    OBVIOUS
  <2>2. ~(y < x)
    BY <1>2, <2>1
  <2>3. QED
    BY <2>1, <2>2
<1>4. QED
  BY <1>3

\* g adds s up to its m-th number.
AddsUp(g, s, m) == g = [n \in 0..m |-> IF n = 0 THEN 0 ELSE g[n - 1] + s[n]]

\* The recursion of Sum has a solution.
LEMMA AddsUpExists ==
  ASSUME NEW s \in Seq(Nat)
  PROVE  \E g : AddsUp(g, s, Len(s))
<1> DEFINE T == {m \in 0..Len(s) : ~\E g : AddsUp(g, s, m)}
<1>0. Len(s) \in Nat /\ Len(s) \in 0..Len(s)
  OBVIOUS
<1> SUFFICES ASSUME T # {} PROVE FALSE
  BY <1>0
<1>1. T \subseteq Nat
  OBVIOUS
<1>2. PICK m \in T : \A y \in T : m <= y
  BY <1>1, LeastExists
<1>3. CASE m = 0
  <2> DEFINE g == [n \in 0..0 |-> 0]
  <2>1. AddsUp(g, s, 0)
    BY DEF AddsUp
  <2>2. QED
    BY <1>3, <2>1
<1>4. CASE m # 0
  <2>1. m - 1 \in 0..Len(s) /\ m - 1 \notin T /\ m \in Nat
    BY <1>2, <1>4
  <2>2. PICK f : AddsUp(f, s, m - 1)
    BY <2>1
  <2> DEFINE g == [n \in 0..m |-> IF n = m THEN f[m - 1] + s[m] ELSE f[n]]
  <2>3. AddsUp(g, s, m)
    <3>1. \A n \in 0..m : g[n] = IF n = 0 THEN 0 ELSE g[n - 1] + s[n]
      <4> SUFFICES ASSUME NEW n \in 0..m PROVE g[n] = IF n = 0 THEN 0 ELSE g[n - 1] + s[n]
        OBVIOUS
      <4>1. CASE n = m
        BY <1>4, <2>1, <4>1
      <4>2. CASE n # m
        <5>1. n \in 0..(m - 1) /\ g[n] = f[n]
          BY <2>1, <4>2
        <5>2. f[n] = IF n = 0 THEN 0 ELSE f[n - 1] + s[n]
          BY <2>2, <5>1 DEF AddsUp
        <5>3. n # 0 => n - 1 \in 0..m /\ n - 1 # m
          BY <2>1, <5>1
        <5>4. QED
          BY <5>1, <5>2, <5>3
      <4>3. QED
        BY <4>1, <4>2
    <3> HIDE DEF g
    <3>2. g = [n \in 0..m |-> g[n]]
      BY DEF g
    <3>3. QED
      BY <3>1, <3>2 DEF AddsUp
  <2>4. QED
    BY <1>2, <2>3
<1>5. QED
  BY <1>3, <1>4

\* A sum of natural numbers is one.
LEMMA SumIsNat ==
  ASSUME NEW s \in Seq(Nat)
  PROVE  Sum(s) \in Nat
<1>1. PICK g : AddsUp(g, s, Len(s)) /\ Sum(s) = g[Len(s)]
  <2>1. Sum(s) = (CHOOSE g : g = [n \in 0..Len(s) |-> IF n = 0 THEN 0 ELSE g[n - 1] + s[n]])[Len(s)]
    BY DEF Sum
  <2>2. \E g : g = [n \in 0..Len(s) |-> IF n = 0 THEN 0 ELSE g[n - 1] + s[n]]
    BY AddsUpExists DEF AddsUp
  <2>3. QED
    BY <2>1, <2>2 DEF AddsUp
<1> DEFINE T == {m \in 0..Len(s) : g[m] \notin Nat}
<1>2. T = {}
  <2> SUFFICES ASSUME T # {} PROVE FALSE
    OBVIOUS
  <2>1. PICK m \in T : \A y \in T : m <= y
    <3>1. T \subseteq Nat
      OBVIOUS
    <3>2. QED
      BY <3>1, LeastExists
  <2>2. m \in 0..Len(s) /\ g[m] = IF m = 0 THEN 0 ELSE g[m - 1] + s[m]
    BY <1>1 DEF AddsUp
  <2>3. m # 0 => m - 1 \in 0..Len(s) /\ m - 1 \notin T /\ s[m] \in Nat
    BY <2>1, <2>2
  <2>4. QED
    BY <2>2, <2>3
<1>3. QED
  BY <1>1, <1>2

\* A set of natural numbers with a bound has a greatest element.
LEMMA GreatestExists ==
  ASSUME NEW n \in Nat, NEW S \in SUBSET (1..n), S # {}
  PROVE  \E x \in S : \A y \in S : y <= x
<1> DEFINE T == {n - i : i \in S}
<1>1. ASSUME NEW i \in S
      PROVE  i \in Nat /\ n - i \in Nat /\ n - (n - i) = i
  <2>1. i \in 1..n
    OBVIOUS
  <2>2. QED
    BY <2>1
<1>2. T \subseteq Nat /\ T # {}
  BY <1>1
<1>3. PICK t \in T : \A u \in T : t <= u
  BY <1>2, LeastExists
<1>4. PICK x \in S : t = n - x
  OBVIOUS
<1>5. ASSUME NEW y \in S
      PROVE  y <= x
  <2>1. n - x <= n - y
    BY <1>3, <1>4
  <2>2. x \in Nat /\ y \in Nat
    BY <1>1
  <2>3. QED
    BY <2>1, <2>2
<1>6. QED
  BY <1>5

-----------------------------------------------------------------------------
(* Sizes and trimming.                                                     *)

\* Every text of a request has a size.
LEMMA SizesTyped ==
  /\ Prompt \in Size /\ Note \in Size /\ Failed \in Size /\ Repair \in Size /\ Echo \in Size
  /\ \A turn \in Turns : TurnSize(turn) \in Size
  /\ \A dropped \in Nat : NoteSize(dropped) \in Size
<1>1. /\ Prompt \in Size /\ Note \in Size /\ Failed \in Size /\ Repair \in Size /\ Echo \in Size
      /\ [est |-> 0, real |-> 0] \in Size
  BY AgentAssumption DEF Size
<1>2. ASSUME NEW turn \in Turns
      PROVE  TurnSize(turn) \in Size
  BY <1>1 DEF TurnSize, Turns
<1>3. ASSUME NEW dropped \in Nat
      PROVE  NoteSize(dropped) \in Size
  BY <1>1 DEF NoteSize
<1>4. QED
  BY <1>1, <1>2, <1>3

\* The groups of a request have an estimate and a token count.
LEMMA GroupsTyped ==
  ASSUME NEW groups \in Seq(Group)
  PROVE  Estimates(groups) \in Nat /\ RealTokens(groups) \in Nat
<1>1. DOMAIN groups = 1..Len(groups) /\ Len(groups) \in Nat
  OBVIOUS
<1>2. \A i \in DOMAIN groups : groups[i].size.est \in Nat /\ groups[i].size.real \in Nat
  <2> SUFFICES ASSUME NEW i \in DOMAIN groups
               PROVE  groups[i].size.est \in Nat /\ groups[i].size.real \in Nat
    OBVIOUS
  <2>1. groups[i] \in Group
    BY <1>1
  <2>2. groups[i].size \in Size
    BY <2>1 DEF Group
  <2>3. QED
    BY <2>2 DEF Size
<1>3. /\ [i \in DOMAIN groups |-> groups[i].size.est] \in Seq(Nat)
      /\ [i \in DOMAIN groups |-> groups[i].size.real] \in Seq(Nat)
  BY <1>1, <1>2
<1>4. QED
  BY <1>3, SumIsNat DEF Estimates, RealTokens

\* A request is never empty, by its estimate.
LEMMA RequestTyped ==
  ASSUME NEW r \in Request
  PROVE  Estimate(r) \in Nat /\ 0 < Estimate(r) /\ Input(r) \in Nat
<1>1. r.dropped \in Nat /\ r.groups \in Seq(Group) /\ r.turn \in Turns
  BY DEF Request
<1>2. /\ Prompt.est \in Nat /\ 0 < Prompt.est /\ Prompt.real \in Nat
      /\ TurnSize(r.turn).est \in Nat /\ TurnSize(r.turn).real \in Nat
      /\ NoteSize(r.dropped).est \in Nat /\ NoteSize(r.dropped).real \in Nat
  BY <1>1, SizesTyped, AgentAssumption DEF Size
<1>3. Estimates(r.groups) \in Nat /\ RealTokens(r.groups) \in Nat
  BY <1>1, GroupsTyped
<1>4. QED
  BY <1>2, <1>3 DEF Estimate, Input

\* What is left of the groups after the first few.
LEMMA SuffixIs ==
  ASSUME NEW groups \in Seq(Group), NEW start \in 0..Len(groups)
  PROVE  /\ Suffix(groups, start) \in Seq(Group)
         /\ Len(Suffix(groups, start)) = Len(groups) - start
         /\ \A i \in 1..(Len(groups) - start) : Suffix(groups, start)[i] = groups[start + i]
<1>1. Len(groups) \in Nat /\ start \in Nat /\ start + 1 \in 1..(Len(groups) + 1)
  OBVIOUS
<1>2. \A i \in (start + 1)..Len(groups) : groups[i] \in Group
  BY <1>1
<1>3. PICK t : t = SubSeq(groups, start + 1, Len(groups))
  OBVIOUS
<1>4. t = [i \in 1..(Len(groups) - start) |-> groups[start + i]]
  <2>1. SubSeq(groups, start + 1, Len(groups))
          = [i \in 1..(Len(groups) - (start + 1) + 1) |-> groups[(start + 1) + i - 1]]
    OBVIOUS
  <2>2. Len(groups) - (start + 1) + 1 = Len(groups) - start
    BY <1>1
  <2>3. \A i \in 1..(Len(groups) - start) : (start + 1) + i - 1 = start + i
    BY <1>1
  <2>4. QED
    BY <1>3, <2>1, <2>2, <2>3
<1>5. Len(groups) - start \in Nat
  BY <1>1
<1>6. \A i \in 1..(Len(groups) - start) : groups[start + i] \in Group
  BY <1>1
<1>7. t \in Seq(Group) /\ Len(t) = Len(groups) - start
  BY <1>4, <1>5, <1>6
<1>8. QED
  BY <1>3, <1>4, <1>7 DEF Suffix

\* The floor is a group, the newest executed one if there is one.
LEMMA FloorIs ==
  ASSUME NEW groups \in Seq(Group)
  PROVE  /\ Floor(groups) \in 0..Len(groups)
         /\ groups # <<>> => Floor(groups) < Len(groups)
         /\ (\E i \in DOMAIN groups : groups[i].kind = "real")
              => \E i \in DOMAIN groups : groups[i].kind = "real" /\ Floor(groups) = i - 1
<1> DEFINE E == {i \in DOMAIN groups : groups[i].kind = "real"}
<1>1. DOMAIN groups = 1..Len(groups) /\ Len(groups) \in Nat
  OBVIOUS
<1>2. CASE E = {}
  <2>1. Floor(groups) = IF groups = <<>> THEN 0 ELSE Len(groups) - 1
    BY <1>2 DEF Floor, LastGroup
  <2>2. groups # <<>> => Len(groups) > 0
    BY <1>1
  <2>3. QED
    BY <1>1, <1>2, <2>1, <2>2
<1>3. CASE E # {}
  <2>1. E \in SUBSET (1..Len(groups))
    BY <1>1
  <2>2. \E x \in E : \A y \in E : y <= x
    BY <1>1, <1>3, <2>1, GreatestExists
  <2>3. PICK x \in E : Floor(groups) = x - 1
    <3>1. Floor(groups) = (CHOOSE i \in E : \A j \in E : j <= i) - 1
      BY <1>3 DEF Floor
    <3> HIDE DEF E
    <3>2. QED
      BY <2>2, <3>1
  <2>4. x \in 1..Len(groups)
    BY <2>1
  <2>5. QED
    BY <1>1, <2>3, <2>4
<1>4. QED
  BY <1>2, <1>3

\* The trimming stops at the floor or at the first suffix that fits.
LEMMA DroppedIs ==
  ASSUME NEW groups \in Seq(Group), NEW turn, NEW calibration
  PROVE  /\ Dropped(groups, turn, calibration) \in 0..Floor(groups)
         /\ \/ Dropped(groups, turn, calibration) = Floor(groups)
            \/ Fits(Suffix(groups, Dropped(groups, turn, calibration)), turn, calibration)
<1> DEFINE F == Floor(groups)
           ok(start) == Fits(Suffix(groups, start), turn, calibration)
           T == {start \in 0..F : start = F \/ ok(start)}
<1>1. F \in Nat
  BY FloorIs
<1>2. Dropped(groups, turn, calibration) =
        CHOOSE start \in 0..F : (start = F \/ ok(start)) /\ \A less \in 0..(start - 1) : ~ok(less)
  BY DEF Dropped
<1> HIDE DEF F, ok
<1>3. F \in T /\ T \subseteq Nat
  BY <1>1
<1>4. PICK start \in T : \A y \in T : start <= y
  BY <1>3, LeastExists
<1>5. \A less \in 0..(start - 1) : ~ok(less)
  <2> SUFFICES ASSUME NEW less \in 0..(start - 1), ok(less) PROVE FALSE
    OBVIOUS
  <2>1. start \in 0..F
    OBVIOUS
  <2>2. less \in T /\ less < start
    BY <1>1, <2>1
  <2>3. QED
    BY <1>4, <2>1, <2>2
<1>6. \E k \in 0..F : (k = F \/ ok(k)) /\ \A less \in 0..(k - 1) : ~ok(less)
  BY <1>4, <1>5
<1>7. Dropped(groups, turn, calibration) \in 0..F
      /\ (Dropped(groups, turn, calibration) = F \/ ok(Dropped(groups, turn, calibration)))
  BY <1>2, <1>6
<1>8. QED
  BY <1>7 DEF F, ok

\* A fitted request.
LEMMA FittedIs ==
  ASSUME NEW groups \in Seq(Group), NEW turn \in Turns, NEW calibration,
         NEW mode \in {"default", "off"}
  PROVE  LET r == Fitted(groups, turn, calibration, mode)
         IN /\ r \in Request /\ r.turn = turn /\ r.thinking = mode
            /\ r.dropped \in 0..Floor(groups) /\ r.groups = Suffix(groups, r.dropped)
            /\ r.dropped = Floor(groups) \/ Fits(r.groups, turn, calibration)
<1> DEFINE d == Dropped(groups, turn, calibration)
           r == Fitted(groups, turn, calibration, mode)
<1>1. d \in 0..Floor(groups) /\ (d = Floor(groups) \/ Fits(Suffix(groups, d), turn, calibration))
  BY DroppedIs
<1>2. r = [dropped |-> d, groups |-> Suffix(groups, d), turn |-> turn, thinking |-> mode]
  BY DEF Fitted
<1> HIDE DEF d, r
<1>3. d \in Nat /\ d \in 0..Len(groups)
  BY <1>1, FloorIs
<1>4. Suffix(groups, d) \in Seq(Group)
  BY <1>3, SuffixIs
<1>5. r \in Request
  BY <1>2, <1>3, <1>4 DEF Request
<1>6. QED
  BY <1>1, <1>2, <1>5 DEF r

\* A clamped density that is at least "low" lies between the bounds.
LEMMA ClampedIs ==
  ASSUME NEW low \in 100..MaxCalibration, NEW x \in Int
  PROVE  Clamped(AtLeast(low, x)) \in low..MaxCalibration
BY AgentAssumption DEF Clamped, AtLeast

\* A density is a whole number of percent.
LEMMA DensityIsInt ==
  ASSUME NEW a \in Int, NEW b \in Nat, 0 < b
  PROVE  a \div b \in Int
OBVIOUS

\* What the server counted never takes the calibration out of its bounds.
LEMMA CalibrationIs ==
  ASSUME NEW calibration \in 100..MaxCalibration, NEW r \in Request
  PROVE  /\ \A c : Calibrated(calibration, r, c) \in 100..MaxCalibration
         /\ \A informed : Shrunk(calibration, r, informed) \in 100..MaxCalibration
<1>1. Estimate(r) \in Nat /\ 0 < Estimate(r) /\ Input(r) * 100 \in Int /\ Input(r) * 105 \in Int
  BY RequestTyped
<1>2. (Input(r) * 100) \div Estimate(r) \in Int /\ (Input(r) * 105) \div Estimate(r) \in Int
  BY <1>1, DensityIsInt
<1>3. (calibration * 13) \div 10 \in Int
  OBVIOUS
<1>4. MaxCalibration \in Nat /\ 100 \in 100..MaxCalibration
  BY AgentAssumption
<1>5. \A c : Calibrated(calibration, r, c) \in 100..MaxCalibration
  BY <1>2, <1>4, ClampedIs DEF Calibrated
<1>6. ASSUME NEW informed
      PROVE  Shrunk(calibration, r, informed) \in 100..MaxCalibration
  <2>1. PICK x \in Int : Shrunk(calibration, r, informed) = Clamped(AtLeast(calibration, x))
    BY <1>2, <1>3 DEF Shrunk
  <2>2. Clamped(AtLeast(calibration, x)) \in calibration..MaxCalibration
    BY ClampedIs
  <2>3. QED
    BY <1>4, <2>1, <2>2
<1>7. QED
  BY <1>5, <1>6

\* What a reply is turned into is a completion.
LEMMA CompletionsTyped ==
  ASSUME NEW reply, NEW revision, NEW budgeted
  PROVE  Completions(reply, revision, budgeted) \subseteq Completion
<1> DEFINE full(kind, length) == [kind |-> kind, length |-> length, usage |-> revision \in Reports]
<1>1. /\ \A kind \in Kinds, length \in BOOLEAN : full(kind, length) \in Completion
      /\ Aborted \in Completion
  BY DEF Completion, Aborted, Kinds
<1>2. {"call", "missing", "invalid"} \subseteq Kinds
  BY DEF Kinds
<1>3. Completions(reply, revision, budgeted) \subseteq
        {Aborted} \cup {full("call", FALSE), full("missing", TRUE), full("missing", FALSE),
                        full("invalid", FALSE), full("invalid", TRUE)}
  <2> HIDE DEF full
  <2>1. QED
    BY Zenon DEF Completions, full
<1>4. QED
  BY <1>1, <1>2, <1>3

-----------------------------------------------------------------------------
(* The inductive invariant.                                                *)

\* Between two acts nothing is under way.
QuietInv ==
  pc \in {"idle", "over"} => act = Fresh /\ request = Nothing /\ completion = NoCompletion

\* A rollout goes on below the threshold.
CutoffInv == pc # "over" => thinking.cutoffs < CutoffThreshold

\* The request under way is what the trajectory and the calibration of now make it.
FittedInv == Sent => request = Fitted(trajectory, request.turn, window, request.thinking)

\* Every row was decoded by the deployment its key names, for the body and under the budget
\* its key holds.
RowIsOwn(row) ==
  \E p \in provider : /\ p.revision = row.key.revision /\ p.body = row.key.body
                      /\ row.completion \in Completions(p.reply, p.revision, row.key.budget)

\* The cache's rows, and the replies they were decoded from.
StoreInv == IsFiniteSet(provider) /\ \A row \in store : RowIsOwn(row)

\* Inductive: what the trimming and the completions need.
CoreInv == TypeOK /\ QuietInv /\ CutoffInv /\ FittedInv /\ StoreInv /\ CompletionIsOwn

-----------------------------------------------------------------------------
(* What the parts of the actions do.                                       *)

\* A request that goes out.
LEMMA SendIs ==
  ASSUME NEW groups \in Seq(Group), NEW turn \in Turns, NEW calibration, NEW off \in BOOLEAN,
         NEW heard, Send(groups, turn, calibration, off, heard)
  PROVE  /\ request' \in Request /\ pc' = "lookup"
         /\ request' = Fitted(groups, request'.turn, calibration, request'.thinking)
         /\ request'.turn = turn
         /\ request'.thinking = IF off THEN "off" ELSE "default"
<1> DEFINE mode == IF off THEN "off" ELSE "default"
<1>1. request' = Fitted(groups, turn, calibration, mode) /\ pc' = "lookup"
  BY DEF Send
<1>2. mode \in {"default", "off"}
  OBVIOUS
<1> HIDE DEF mode
<1>3. LET r == Fitted(groups, turn, calibration, mode)
      IN r \in Request /\ r.turn = turn /\ r.thinking = mode
  BY <1>2, FittedIs
<1>4. QED
  BY <1>1, <1>3 DEF mode

\* Nothing under way is well typed.
LEMMA NothingTyped == Fresh \in [attempt: 0..OutputRetries, retrims: 0..RetrimBudget]
                      /\ Nothing \in Request /\ NoCompletion \in Completion
<1>1. 0 \in 0..OutputRetries /\ 0 \in 0..RetrimBudget
  BY AgentAssumption
<1>2. <<>> \in Seq(Group)
  OBVIOUS
<1>3. QED
  BY <1>1, <1>2 DEF Fresh, Nothing, NoCompletion, Request, Completion, Turns, Kinds

\* A step without a valid action, or another attempt at it.
LEMMA RetryIs ==
  ASSUME TypeOK, NEW turn \in Turns, NEW off \in BOOLEAN, Retry(turn, off), window' = window
  PROVE  /\ trajectory' \in Seq(Group)
         /\ act' \in [attempt: 0..OutputRetries, retrims: 0..RetrimBudget]
         /\ request' \in Request /\ completion' \in Completion
         /\ \/ /\ pc' = "lookup"
               /\ request' = Fitted(trajectory', request'.turn, window', request'.thinking)
               /\ request'.thinking = IF off THEN "off" ELSE "default"
            \/ pc' = "idle" /\ act' = Fresh /\ request' = Nothing /\ completion' = NoCompletion
<1>1. /\ trajectory \in Seq(Group) /\ completion \in Completion /\ OutputRetries \in Nat
      /\ act \in [attempt: 0..OutputRetries, retrims: 0..RetrimBudget] /\ RetrimBudget \in Nat
  BY AgentAssumption DEF TypeOK
<1>2. CASE act.attempt < OutputRetries /\ act' = [act EXCEPT !.attempt = @ + 1, !.retrims = 0]
           /\ Send(trajectory, turn, window, off, <<>>) /\ UNCHANGED <<trajectory, completion>>
  <2>1. act' \in [attempt: 0..OutputRetries, retrims: 0..RetrimBudget]
    <3>1. /\ act.attempt \in 0..OutputRetries /\ act.attempt + 1 \in 0..OutputRetries
          /\ 0 \in 0..RetrimBudget
      BY <1>1, <1>2
    <3>2. act' = [attempt |-> act.attempt + 1, retrims |-> 0]
      BY <1>1, <1>2
    <3>3. QED
      BY <3>1, <3>2
  <2>2. /\ request' \in Request /\ pc' = "lookup"
        /\ request' = Fitted(trajectory, request'.turn, window, request'.thinking)
        /\ request'.thinking = IF off THEN "off" ELSE "default"
    BY <1>1, <1>2, SendIs
  <2>3. QED
    BY <1>1, <1>2, <2>1, <2>2
<1>3. CASE FailStep
  <2>1. [kind |-> "failed", size |-> Failed] \in Group
    BY SizesTyped DEF Group
  <2>2. trajectory' \in Seq(Group)
    BY <1>1, <1>3, <2>1 DEF FailStep
  <2>3. pc' = "idle" /\ act' = Fresh /\ request' = Nothing /\ completion' = NoCompletion
    BY <1>3 DEF FailStep, Quiet
  <2>4. QED
    BY <2>2, <2>3, NothingTyped
<1>4. QED
  BY <1>2, <1>3 DEF Retry

\* A completion that the deployment would have produced for the request.
Own(c) ==
  \E p \in provider' : /\ p.revision = cfg.revision /\ p.body = Body(request)
                       /\ c \in Completions(p.reply, p.revision, Budgeted(request))

\* Back with a completion of its own.
LEMMA ReturnIs ==
  ASSUME CoreInv, Sent, NEW c, Own(c), Return(c), UNCHANGED <<cfg, trajectory, thinking, act, request>>
  PROVE  /\ window' \in 100..MaxCalibration /\ completion' \in Completion /\ runaways' \in Nat
         /\ pc' \in {"acting", "parse"}
         /\ QuietInv' /\ CutoffInv' /\ FittedInv' /\ CompletionIsOwn'
<1>1. c \in Completion /\ completion' = c
  BY CompletionsTyped DEF Own, Return
<1>2. request \in Request /\ window \in 100..MaxCalibration /\ runaways \in Nat
  BY DEF CoreInv, TypeOK
<1>3. window' \in 100..MaxCalibration
  BY <1>2, CalibrationIs DEF Return
<1>4. runaways' \in Nat
  BY <1>2 DEF Return
<1>5. pc' \in {"acting", "parse"}
  BY DEF Return
<1>6. CompletionIsOwn'
  <2>1. Body(request)' = Body(request) /\ Budgeted(request)' = Budgeted(request)
    BY DEF Body, Budgeted, Resolved
  <2>2. QED
    BY <1>1, <2>1 DEF Own, CompletionIsOwn
<1>7. QuietInv' /\ FittedInv'
  BY <1>5 DEF QuietInv, FittedInv, Sent
<1>8. CutoffInv'
  BY DEF CoreInv, CutoffInv, Sent
<1>9. QED
  BY <1>1, <1>3, <1>4, <1>5, <1>6, <1>7, <1>8

\* A spent mishap is counted within the bound.
LEMMA TroubleIs ==
  ASSUME CoreInv, Trouble
  PROVE  troubles' \in 0..MaxMishaps
<1> DEFINE bad == {p \in provider : p.reply # "call"}
<1>1. Cardinality(bad) \in Nat
  <2>1. IsFiniteSet(bad)
    BY FS_Subset DEF CoreInv, StoreInv
  <2>2. QED
    BY <2>1, FS_CardinalityType
<1>2. troubles + Cardinality(bad) < MaxMishaps /\ troubles' = troubles + 1
  BY DEF Trouble, Mishaps
<1> HIDE DEF bad
<1>3. troubles \in 0..MaxMishaps /\ MaxMishaps \in Nat
  BY AgentAssumption DEF CoreInv, TypeOK
<1>4. QED
  BY <1>1, <1>2, <1>3

\* What the endpoint has decoded stays decoded.
LEMMA ProviderGrows ==
  ASSUME StoreInv, NEW q, provider' = provider \cup {q}, UNCHANGED store
  PROVE  StoreInv'
<1>1. IsFiniteSet(provider')
  BY FS_AddElement DEF StoreInv
<1>2. QED
  BY <1>1 DEF StoreInv, RowIsOwn

-----------------------------------------------------------------------------
(* The core of the invariant, action by action.                            *)

\* No rollout has run yet.
LEMMA InitCore == Init => CoreInv
<1> SUFFICES ASSUME Init PROVE CoreInv
  OBVIOUS
<1>1. TypeOK
  <2>1. /\ window \in 100..MaxCalibration /\ rollouts \in 0..MaxRollouts /\ troubles \in 0..MaxMishaps
        /\ thinking \in [off: BOOLEAN, cutoffs: 0..CutoffThreshold]
        /\ runaways \in Nat /\ trajectory \in Seq(Group)
        /\ pc \in {"idle", "lookup", "live", "parse", "acting", "over"} /\ cfg \in Configs
    BY AgentAssumption DEF Init, Awake
  <2>2. QED
    BY <2>1, NothingTyped DEF Init, TypeOK
<1>2. QuietInv /\ CutoffInv /\ FittedInv /\ CompletionIsOwn
  BY DEF Init, QuietInv, CutoffInv, FittedInv, CompletionIsOwn, Sent
<1>3. StoreInv
  BY FS_EmptySet DEF Init, StoreInv
<1>4. QED
  BY <1>1, <1>2, <1>3 DEF CoreInv

\* The next rollout, or the end of one.
LEMMA StartCore ==
  ASSUME CoreInv, StartRollout
  PROVE  CoreInv'
<1>1. TypeOK'
  <2>1. /\ cfg' \in Configs /\ pc' = "idle" /\ trajectory' = <<>> /\ window' = 100
        /\ thinking' = Awake /\ rollouts' = rollouts + 1 /\ rollouts < MaxRollouts /\ runaways' = 0
        /\ UNCHANGED <<act, request, completion, troubles>>
    BY DEF StartRollout, NewWindow
  <2>2. /\ window' \in 100..MaxCalibration /\ rollouts' \in 0..MaxRollouts
        /\ thinking' \in [off: BOOLEAN, cutoffs: 0..CutoffThreshold]
        /\ runaways' \in Nat /\ trajectory' \in Seq(Group)
    <3>1. /\ MaxCalibration \in Nat /\ 100 <= MaxCalibration /\ CutoffThreshold \in Nat
          /\ MaxRollouts \in Nat /\ rollouts \in 0..MaxRollouts
      BY AgentAssumption DEF CoreInv, TypeOK
    <3>2. window' \in 100..MaxCalibration /\ rollouts' \in 0..MaxRollouts
      BY <2>1, <3>1
    <3>3. thinking' \in [off: BOOLEAN, cutoffs: 0..CutoffThreshold]
      BY <2>1, <3>1 DEF Awake
    <3>4. QED
      BY <2>1, <3>2, <3>3
  <2>3. QED
    BY <2>1, <2>2 DEF CoreInv, TypeOK
<1>2. QuietInv' /\ CutoffInv' /\ FittedInv' /\ CompletionIsOwn'
  <2>1. 0 < CutoffThreshold
    BY AgentAssumption
  <2>2. QED
    BY <2>1 DEF StartRollout, CoreInv, QuietInv, CutoffInv, FittedInv, CompletionIsOwn, Sent, Awake
<1>3. StoreInv'
  BY DEF StartRollout, CoreInv, StoreInv, RowIsOwn
<1>4. QED
  BY <1>1, <1>2, <1>3 DEF CoreInv

\* The rollout ends between two calls.
LEMMA EndCore ==
  ASSUME CoreInv, EndRollout
  PROVE  CoreInv'
<1>1. TypeOK'
  BY NothingTyped DEF EndRollout, Quiet, agent, CoreInv, TypeOK
<1>2. QuietInv' /\ CutoffInv' /\ FittedInv' /\ CompletionIsOwn'
  BY DEF EndRollout, Quiet, QuietInv, CutoffInv, FittedInv, CompletionIsOwn, Sent
<1>3. StoreInv'
  BY DEF EndRollout, CoreInv, StoreInv, RowIsOwn
<1>4. QED
  BY <1>1, <1>2, <1>3 DEF CoreInv

\* A request goes out from the trajectory of now.
LEMMA BeginCore ==
  ASSUME CoreInv, BeginAct
  PROVE  CoreInv'
<1>1. /\ pc = "idle" /\ Send(trajectory, "none", window, thinking.off, <<>>)
      /\ UNCHANGED <<provider, store, cfg, trajectory, window, thinking, act, completion, rollouts,
                     troubles, runaways>>
  BY DEF BeginAct, agent
<1>2. trajectory \in Seq(Group) /\ thinking.off \in BOOLEAN /\ "none" \in Turns
  BY DEF CoreInv, TypeOK, Turns
<1>3. /\ request' \in Request /\ pc' = "lookup"
      /\ request' = Fitted(trajectory, request'.turn, window, request'.thinking)
  BY <1>1, <1>2, SendIs
<1>4. TypeOK'
  BY <1>1, <1>3 DEF CoreInv, TypeOK
<1>5. QuietInv' /\ CutoffInv' /\ FittedInv' /\ CompletionIsOwn'
  BY <1>1, <1>3 DEF CoreInv, QuietInv, CutoffInv, FittedInv, CompletionIsOwn
<1>6. StoreInv'
  BY <1>1 DEF CoreInv, StoreInv, RowIsOwn
<1>7. QED
  BY <1>4, <1>5, <1>6 DEF CoreInv

\* An executed step joins the trajectory.
LEMMA ObserveCore ==
  ASSUME CoreInv, NEW size \in Sizes, Observe(size)
  PROVE  CoreInv'
<1>1. /\ pc = "acting" /\ trajectory' = Append(trajectory, [kind |-> "real", size |-> size])
      /\ \/ pc' = "acting" /\ UNCHANGED <<act, request, completion>>
         \/ pc' = "idle" /\ act' = Fresh /\ request' = Nothing /\ completion' = NoCompletion
      /\ UNCHANGED <<provider, store, cfg, window, thinking, rollouts, troubles, runaways>>
  BY DEF Observe, Quiet
<1>2. trajectory' \in Seq(Group)
  <2>1. [kind |-> "real", size |-> size] \in Group
    BY AgentAssumption DEF Group
  <2>2. trajectory \in Seq(Group)
    BY DEF CoreInv, TypeOK
  <2>3. QED
    BY <1>1, <2>1, <2>2
<1>3. TypeOK'
  BY <1>1, <1>2, NothingTyped DEF CoreInv, TypeOK
<1>4. CompletionIsOwn'
  <2>1. CASE pc' = "acting"
    <3>1. UNCHANGED <<cfg, request, completion, provider>>
      BY <1>1, <2>1
    <3>2. Body(request)' = Body(request) /\ Budgeted(request)' = Budgeted(request)
      BY <3>1 DEF Body, Budgeted, Resolved
    <3>3. QED
      BY <1>1, <3>1, <3>2 DEF CoreInv, CompletionIsOwn
  <2>2. CASE pc' = "idle"
    BY <2>2 DEF CompletionIsOwn
  <2>3. QED
    BY <1>1, <2>1, <2>2
<1>5. QuietInv' /\ CutoffInv' /\ FittedInv'
  BY <1>1 DEF CoreInv, QuietInv, CutoffInv, FittedInv, Sent
<1>6. StoreInv'
  BY <1>1 DEF CoreInv, StoreInv, RowIsOwn
<1>7. QED
  BY <1>3, <1>4, <1>5, <1>6 DEF CoreInv

\* A row of the request's key is the deployment's own completion.
LEMMA RowsAreOwn ==
  ASSUME CoreInv, UNCHANGED provider, NEW row \in Rows(request)
  PROVE  Own(row.completion)
<1>1. row \in store /\ row.key = Key(request)
  BY DEF Rows
<1>2. /\ row.key.revision = cfg.revision /\ row.key.body = Body(request)
      /\ row.key.budget = Budgeted(request)
  BY <1>1 DEF Key
<1>3. RowIsOwn(row)
  BY <1>1 DEF CoreInv, StoreInv
<1>4. QED
  BY <1>2, <1>3 DEF RowIsOwn, Own

\* A row read back is of this deployment and this body, and so is its completion.
LEMMA HitCore ==
  ASSUME CoreInv, Hit
  PROVE  CoreInv'
<1>1. /\ pc = "lookup"
      /\ UNCHANGED <<provider, store, cfg, trajectory, thinking, act, request, rollouts, troubles>>
  BY DEF Hit
<1>2. PICK row \in Rows(request) : Return(row.completion)
  BY DEF Hit
<1>3. Own(row.completion) /\ Sent
  BY <1>1, RowsAreOwn DEF Sent
<1>4. /\ window' \in 100..MaxCalibration /\ completion' \in Completion /\ runaways' \in Nat
      /\ pc' \in {"acting", "parse"}
      /\ QuietInv' /\ CutoffInv' /\ FittedInv' /\ CompletionIsOwn'
  BY <1>1, <1>2, <1>3, ReturnIs
<1>5. TypeOK'
  BY <1>1, <1>4 DEF CoreInv, TypeOK
<1>6. StoreInv'
  BY <1>1 DEF CoreInv, StoreInv, RowIsOwn
<1>7. QED
  BY <1>4, <1>5, <1>6 DEF CoreInv

\* A miss changes nothing but where the call stands.
LEMMA MissCore ==
  ASSUME CoreInv, Miss
  PROVE  CoreInv'
<1>1. /\ pc = "lookup" /\ pc' = "live"
      /\ UNCHANGED <<provider, store, cfg, trajectory, window, thinking, act, request, completion,
                     rollouts, runaways>>
  BY DEF Miss, agent
<1>2. troubles' \in 0..MaxMishaps
  BY TroubleIs DEF Miss, CoreInv, TypeOK
<1>3. TypeOK'
  BY <1>1, <1>2 DEF CoreInv, TypeOK
<1>4. QuietInv' /\ CutoffInv' /\ FittedInv' /\ CompletionIsOwn'
  BY <1>1 DEF CoreInv, QuietInv, CutoffInv, FittedInv, CompletionIsOwn, Sent
<1>5. StoreInv'
  BY <1>1 DEF CoreInv, StoreInv, RowIsOwn
<1>6. QED
  BY <1>3, <1>4, <1>5 DEF CoreInv

\* A reply is stored under the key it was asked for.
LEMMA AnswerCore ==
  ASSUME CoreInv, Answer
  PROVE  CoreInv'
<1>1. pc = "live" /\ UNCHANGED <<cfg, trajectory, thinking, act, request, rollouts>>
  BY DEF Answer
<1>reply. PICK reply \in Decoded(request) :
        /\ provider' = provider \cup {Reply(request, reply)}
        /\ \E c \in Completions(reply, cfg.revision, Budgeted(request)) : Put(c) /\ Return(c)
  BY DEF Answer
<1>2. PICK c \in Completions(reply, cfg.revision, Budgeted(request)) :
        provider' = provider \cup {Reply(request, reply)} /\ Put(c) /\ Return(c)
  BY <1>reply
<1>3. Own(c) /\ Sent
  <2>1. /\ Reply(request, reply) \in provider'
        /\ Reply(request, reply).revision = cfg.revision
        /\ Reply(request, reply).body = Body(request)
        /\ Reply(request, reply).reply = reply
    BY <1>2 DEF Reply
  <2>2. QED
    BY <1>1, <1>2, <2>1 DEF Own, Sent
<1>4. /\ window' \in 100..MaxCalibration /\ completion' \in Completion /\ runaways' \in Nat
      /\ pc' \in {"acting", "parse"}
      /\ QuietInv' /\ CutoffInv' /\ FittedInv' /\ CompletionIsOwn'
  BY <1>1, <1>2, <1>3, ReturnIs
<1>5. troubles' \in 0..MaxMishaps
  BY <1>2, TroubleIs DEF Put, CoreInv, TypeOK
<1>6. TypeOK'
  BY <1>1, <1>4, <1>5 DEF CoreInv, TypeOK
<1>7. StoreInv'
  <2>1. IsFiniteSet(provider')
    BY <1>2, FS_AddElement DEF CoreInv, StoreInv
  <2>2. ASSUME NEW row \in store'
        PROVE  RowIsOwn(row)'
    <3>1. CASE row \in store
      BY <1>2, <3>1 DEF CoreInv, StoreInv, RowIsOwn
    <3>2. CASE row \notin store
      <4>1. row = [key |-> Key(request), completion |-> c]
        BY <1>2, <3>2 DEF Put
      <4>2. /\ row.key.revision = cfg.revision /\ row.key.body = Body(request)
            /\ row.key.budget = Budgeted(request) /\ row.completion = c
        BY <4>1 DEF Key
      <4>3. QED
        BY <1>3, <4>2 DEF Own, RowIsOwn
    <3>3. QED
      BY <3>1, <3>2
  <2>3. QED
    BY <2>1, <2>2 DEF StoreInv
<1>8. QED
  BY <1>4, <1>6, <1>7 DEF CoreInv

\* A server that stays away ends the rollout.
LEMMA OutageCore ==
  ASSUME CoreInv, Outage
  PROVE  CoreInv'
<1>1. troubles' \in 0..MaxMishaps
  BY TroubleIs DEF Outage
<1>2. TypeOK'
  BY <1>1, NothingTyped DEF Outage, Quiet, agent, CoreInv, TypeOK
<1>3. QuietInv' /\ CutoffInv' /\ FittedInv' /\ CompletionIsOwn'
  BY DEF Outage, Quiet, QuietInv, CutoffInv, FittedInv, CompletionIsOwn, Sent
<1>4. StoreInv'
  BY DEF Outage, CoreInv, StoreInv, RowIsOwn
<1>5. QED
  BY <1>2, <1>3, <1>4 DEF CoreInv

\* A request found too long is cut and sent again, or the rollout ends.
LEMMA OverflowCore ==
  ASSUME CoreInv, Overflow
  PROVE  CoreInv'
<1> DEFINE informed == cfg.revision \in Informs
           heard == <<Said("overflow", informed)>>
           shrunk == Shrunk(window, request, informed)
<1>1. /\ pc = "live"
      /\ UNCHANGED <<provider, store, cfg, trajectory, thinking, rollouts, troubles, runaways>>
  BY DEF Overflow
<1>2. /\ request \in Request /\ window \in 100..MaxCalibration /\ trajectory \in Seq(Group)
      /\ act \in [attempt: 0..OutputRetries, retrims: 0..RetrimBudget] /\ RetrimBudget \in Nat
  BY AgentAssumption DEF CoreInv, TypeOK
<1>3. shrunk \in 100..MaxCalibration
  BY <1>2, CalibrationIs
<1>4. CASE /\ act.retrims < RetrimBudget /\ window' = shrunk
           /\ act' = [act EXCEPT !.retrims = @ + 1]
           /\ Send(trajectory, request.turn, shrunk, request.thinking = "off", heard)
           /\ UNCHANGED completion
  <2>1. request.turn \in Turns /\ (request.thinking = "off") \in BOOLEAN
    BY <1>2 DEF Request
  <2> HIDE DEF shrunk, heard
  <2>2. /\ request' \in Request /\ pc' = "lookup"
        /\ request' = Fitted(trajectory, request'.turn, shrunk, request'.thinking)
    BY <1>2, <1>4, <2>1, SendIs
  <2>3. act' \in [attempt: 0..OutputRetries, retrims: 0..RetrimBudget]
    BY <1>2, <1>4
  <2>4. TypeOK'
    BY <1>1, <1>3, <1>4, <2>2, <2>3 DEF CoreInv, TypeOK
  <2>5. QuietInv' /\ CutoffInv' /\ FittedInv' /\ CompletionIsOwn'
    BY <1>1, <1>4, <2>2 DEF CoreInv, QuietInv, CutoffInv, FittedInv, CompletionIsOwn
  <2>6. StoreInv'
    BY <1>1 DEF CoreInv, StoreInv, RowIsOwn
  <2>7. QED
    BY <2>4, <2>5, <2>6 DEF CoreInv
<1>5. CASE pc' = "over" /\ Quiet /\ UNCHANGED window
  <2>1. TypeOK'
    BY <1>1, <1>5, NothingTyped DEF Quiet, CoreInv, TypeOK
  <2>2. QuietInv' /\ CutoffInv' /\ FittedInv' /\ CompletionIsOwn'
    BY <1>5 DEF Quiet, QuietInv, CutoffInv, FittedInv, CompletionIsOwn, Sent
  <2>3. StoreInv'
    BY <1>1 DEF CoreInv, StoreInv, RowIsOwn
  <2>4. QED
    BY <2>1, <2>2, <2>3 DEF CoreInv
<1>6. QED
  BY <1>4, <1>5 DEF Overflow

\* After a retry the core holds if the rest of the state is in order.
LEMMA RetryCore ==
  ASSUME CoreInv, NEW turn \in Turns, NEW off \in BOOLEAN, Retry(turn, off),
         UNCHANGED <<cfg, window, rollouts, troubles, runaways>>,
         thinking' \in [off: BOOLEAN, cutoffs: 0..CutoffThreshold],
         thinking'.cutoffs < CutoffThreshold, StoreInv'
  PROVE  CoreInv'
<1>1. /\ trajectory' \in Seq(Group)
      /\ act' \in [attempt: 0..OutputRetries, retrims: 0..RetrimBudget]
      /\ request' \in Request /\ completion' \in Completion
      /\ \/ /\ pc' = "lookup"
            /\ request' = Fitted(trajectory', request'.turn, window', request'.thinking)
         \/ pc' = "idle" /\ act' = Fresh /\ request' = Nothing /\ completion' = NoCompletion
  BY RetryIs DEF CoreInv
<1>2. TypeOK'
  BY <1>1 DEF CoreInv, TypeOK
<1>3. QuietInv' /\ CutoffInv' /\ FittedInv' /\ CompletionIsOwn'
  BY <1>1 DEF QuietInv, CutoffInv, FittedInv, CompletionIsOwn, Sent
<1>4. QED
  BY <1>2, <1>3 DEF CoreInv

\* A request the server does not take is retried with the same trajectory.
LEMMA RejectedCore ==
  ASSUME CoreInv, Rejected
  PROVE  CoreInv'
<1>1. /\ pc = "live" /\ provider' = provider \cup {Reply(request, "rejected")}
      /\ Retry("repair", request.thinking = "off")
      /\ UNCHANGED <<store, cfg, window, thinking, rollouts, troubles, runaways>>
  BY DEF Rejected
<1>2. StoreInv'
  BY <1>1, ProviderGrows DEF CoreInv
<1>3. /\ "repair" \in Turns /\ (request.thinking = "off") \in BOOLEAN
      /\ thinking' \in [off: BOOLEAN, cutoffs: 0..CutoffThreshold]
      /\ thinking'.cutoffs < CutoffThreshold
  BY <1>1 DEF Turns, CoreInv, TypeOK, CutoffInv
<1>4. QED
  BY <1>1, <1>2, <1>3, RetryCore

\* What a completion that is no action leads to, one case each.
RejectShort(c) ==
  ~c.length /\ Retry(TurnFor(c), request.thinking = "off") /\ UNCHANGED thinking
RejectOver(c) ==
  /\ c.length /\ c.kind = "missing"
  /\ pc' = "over" /\ thinking' = [thinking EXCEPT !.cutoffs = @ + 1] /\ Quiet
  /\ thinking.cutoffs + 1 >= CutoffThreshold
  /\ UNCHANGED <<trajectory, log, past>>
RejectPayload(c) ==
  /\ c.length /\ c.kind = "invalid" /\ (thinking.off \/ ~Toggleable)
  /\ FailStep /\ UNCHANGED thinking
RejectLong(c) ==
  /\ c.length /\ ~(c.kind = "invalid" /\ (thinking.off \/ ~Toggleable))
  /\ \E cutoffs \in {thinking.cutoffs, thinking.cutoffs + 1} :
       /\ cutoffs < CutoffThreshold
       /\ cutoffs = IF c.kind = "missing" THEN thinking.cutoffs + 1 ELSE thinking.cutoffs
       /\ thinking' = [off |-> thinking.off \/ Toggleable, cutoffs |-> cutoffs]
  /\ Retry(TurnFor(c), request.thinking = "off" \/ Toggleable)

\* Those are all the cases.
LEMMA RejectCases ==
  ASSUME CoreInv, Reject
  PROVE  /\ pc = "parse" /\ UNCHANGED <<provider, store, cfg, window, rollouts, troubles, runaways>>
         /\ \/ RejectShort(completion) \/ RejectOver(completion)
            \/ RejectPayload(completion) \/ RejectLong(completion)
<1> DEFINE c == completion
           cutoffs == thinking.cutoffs + (IF c.length /\ c.kind = "missing" THEN 1 ELSE 0)
           counted == [thinking EXCEPT !.cutoffs = cutoffs]
           payloadTooLong == c.length /\ c.kind = "invalid" /\ (thinking.off \/ ~Toggleable)
           after == IF c.length THEN SwitchedOff(counted) ELSE counted
<1>1. pc = "parse" /\ UNCHANGED <<provider, store, cfg, window, rollouts, troubles, runaways>>
  BY DEF Reject
<1>2. /\ thinking \in [off: BOOLEAN, cutoffs: 0..CutoffThreshold] /\ CutoffThreshold \in Nat
      /\ c.length \in BOOLEAN
  BY AgentAssumption DEF CoreInv, TypeOK, Completion
<1>3. \/ RejectShort(c)
      \/ /\ c.length /\ c.kind = "missing" /\ cutoffs >= CutoffThreshold
         /\ pc' = "over" /\ thinking' = counted /\ Quiet /\ UNCHANGED <<trajectory, log, past>>
      \/ payloadTooLong /\ FailStep /\ UNCHANGED thinking
      \/ /\ c.length /\ ~payloadTooLong /\ cutoffs < CutoffThreshold /\ thinking' = after
         /\ Retry(TurnFor(c), request.thinking = "off" \/ Toggleable)
  BY DEF Reject, RejectShort
<1>4. CASE RejectShort(c)
  BY <1>1, <1>4
<1>5. CASE /\ c.length /\ c.kind = "missing" /\ cutoffs >= CutoffThreshold
           /\ pc' = "over" /\ thinking' = counted /\ Quiet /\ UNCHANGED <<trajectory, log, past>>
  BY <1>1, <1>2, <1>5 DEF RejectOver
<1>6. CASE payloadTooLong /\ FailStep /\ UNCHANGED thinking
  BY <1>1, <1>6 DEF RejectPayload
<1>7. CASE /\ c.length /\ ~payloadTooLong /\ cutoffs < CutoffThreshold /\ thinking' = after
           /\ Retry(TurnFor(c), request.thinking = "off" \/ Toggleable)
  <2>1. cutoffs = IF c.kind = "missing" THEN thinking.cutoffs + 1 ELSE thinking.cutoffs
    BY <1>2, <1>7
  <2>2. thinking' = [off |-> thinking.off \/ Toggleable, cutoffs |-> cutoffs]
    <3>1. thinking = [off |-> thinking.off, cutoffs |-> thinking.cutoffs]
      BY <1>2
    <3>2. counted = [off |-> thinking.off, cutoffs |-> cutoffs]
      BY <1>2, <3>1
    <3>3. CASE Toggleable
      <4>1. after = [off |-> TRUE, cutoffs |-> cutoffs]
        BY <1>7, <3>2, <3>3 DEF SwitchedOff
      <4>2. QED
        BY <1>7, <3>3, <4>1
    <3>4. CASE ~Toggleable
      <4>1. after = [off |-> thinking.off, cutoffs |-> cutoffs]
        BY <1>7, <3>2, <3>4 DEF SwitchedOff
      <4>2. thinking.off = (thinking.off \/ Toggleable)
        BY <1>2, <3>4
      <4>3. QED
        BY <1>7, <4>1, <4>2
    <3>5. QED
      BY <3>3, <3>4
  <2> HIDE DEF cutoffs, after
  <2>3. RejectLong(c)
    BY <1>7, <2>1, <2>2 DEF RejectLong
  <2>4. QED
    BY <1>1, <2>3
<1>8. QED
  BY <1>3, <1>4, <1>5, <1>6, <1>7

\* A completion that is no action: retried, failed or given up.
LEMMA RejectCore ==
  ASSUME CoreInv, Reject
  PROVE  CoreInv'
<1>1. pc = "parse" /\ UNCHANGED <<provider, store, cfg, window, rollouts, troubles, runaways>>
  BY RejectCases
<1>2. StoreInv'
  BY <1>1 DEF CoreInv, StoreInv, RowIsOwn
<1>3. /\ TurnFor(completion) \in Turns
      /\ (request.thinking = "off") \in BOOLEAN /\ (request.thinking = "off" \/ Toggleable) \in BOOLEAN
  BY DEF TurnFor, Turns
<1>4. /\ thinking \in [off: BOOLEAN, cutoffs: 0..CutoffThreshold] /\ CutoffThreshold \in Nat
      /\ thinking.cutoffs < CutoffThreshold
  BY <1>1, AgentAssumption DEF CoreInv, TypeOK, CutoffInv
<1>5. CASE RejectShort(completion)
  <2>1. Retry(TurnFor(completion), request.thinking = "off") /\ UNCHANGED thinking
    BY <1>5 DEF RejectShort
  <2>2. QED
    BY <1>1, <1>2, <1>3, <1>4, <2>1, RetryCore
<1>6. CASE RejectOver(completion)
  <2>1. thinking' \in [off: BOOLEAN, cutoffs: 0..CutoffThreshold]
    BY <1>4, <1>6 DEF RejectOver
  <2>2. TypeOK'
    BY <1>1, <1>6, <2>1, NothingTyped DEF RejectOver, Quiet, CoreInv, TypeOK
  <2>3. QuietInv' /\ CutoffInv' /\ FittedInv' /\ CompletionIsOwn'
    BY <1>6 DEF RejectOver, Quiet, QuietInv, CutoffInv, FittedInv, CompletionIsOwn, Sent
  <2>4. QED
    BY <1>2, <2>2, <2>3 DEF CoreInv
<1>7. CASE RejectPayload(completion)
  <2>1. trajectory' \in Seq(Group)
    <3>1. [kind |-> "failed", size |-> Failed] \in Group
      BY SizesTyped DEF Group
    <3>2. QED
      BY <1>7, <3>1 DEF RejectPayload, FailStep, CoreInv, TypeOK
  <2>2. TypeOK'
    BY <1>1, <1>7, <2>1, NothingTyped DEF RejectPayload, FailStep, Quiet, CoreInv, TypeOK
  <2>3. QuietInv' /\ CutoffInv' /\ FittedInv' /\ CompletionIsOwn'
    BY <1>4, <1>7
       DEF RejectPayload, FailStep, Quiet, QuietInv, CutoffInv, FittedInv, CompletionIsOwn, Sent
  <2>4. QED
    BY <1>2, <2>2, <2>3 DEF CoreInv
<1>8. CASE RejectLong(completion)
  <2>1. Retry(TurnFor(completion), request.thinking = "off" \/ Toggleable)
    BY <1>8 DEF RejectLong
  <2>2. /\ thinking' \in [off: BOOLEAN, cutoffs: 0..CutoffThreshold]
        /\ thinking'.cutoffs < CutoffThreshold
    BY <1>4, <1>8 DEF RejectLong
  <2>3. QED
    BY <1>1, <1>2, <1>3, <2>1, <2>2, RetryCore
<1>9. QED
  BY <1>5, <1>6, <1>7, <1>8, RejectCases

\* Stuttering.
LEMMA SameCore ==
  ASSUME CoreInv, UNCHANGED vars
  PROVE  CoreInv'
<1>1. UNCHANGED <<provider, store, cfg, pc, trajectory, window, thinking, act, request, completion,
                  rollouts, troubles, runaways>>
  BY DEF vars, agent
<1>2. TypeOK'
  BY <1>1 DEF CoreInv, TypeOK
<1>3. QuietInv' /\ CutoffInv' /\ FittedInv'
  BY <1>1 DEF CoreInv, QuietInv, CutoffInv, FittedInv, Sent
<1>4. StoreInv'
  BY <1>1 DEF CoreInv, StoreInv, RowIsOwn
<1>5. CompletionIsOwn'
  <2>1. Body(request)' = Body(request) /\ Budgeted(request)' = Budgeted(request)
    BY <1>1 DEF Body, Budgeted, Resolved
  <2>2. QED
    BY <1>1, <2>1 DEF CoreInv, CompletionIsOwn
<1>6. QED
  BY <1>2, <1>3, <1>4, <1>5 DEF CoreInv

\* CoreInv is inductive.
LEMMA CoreStep == CoreInv /\ [Next]_vars => CoreInv'
BY StartCore, EndCore, BeginCore, ObserveCore, HitCore, MissCore, AnswerCore, OutageCore, OverflowCore,
   RejectedCore, RejectCore, SameCore DEF Next

\* CoreInv holds throughout.
LEMMA CoreInvariant == Spec => []CoreInv
BY InitCore, CoreStep, PTL DEF Spec

\* The policy is only handed completions that this deployment itself would have produced for
\* the request, whatever deployments, budgets and bodies share the cache: the key holds what a
\* completion depends on.
THEOREM CompletionSafe == Spec => []CompletionIsOwn
<1>1. CoreInv => CompletionIsOwn
  BY DEF CoreInv
<1>2. QED
  BY <1>1, CoreInvariant, PTL

-----------------------------------------------------------------------------
(* Trimming.                                                               *)

\* What is known of the request under way.
LEMMA RequestUnderWay ==
  ASSUME CoreInv, Sent
  PROVE  /\ request \in Request /\ trajectory \in Seq(Group)
         /\ request.dropped \in 0..Floor(trajectory)
         /\ request.groups = Suffix(trajectory, request.dropped)
         /\ request.dropped = Floor(trajectory) \/ Fits(request.groups, request.turn, window)
<1>1. request \in Request /\ trajectory \in Seq(Group)
  BY DEF CoreInv, TypeOK
<1>2. request.turn \in Turns /\ request.thinking \in {"default", "off"}
  BY <1>1 DEF Request
<1>3. request = Fitted(trajectory, request.turn, window, request.thinking)
  BY DEF CoreInv, FittedInv
<1>4. PICK turn \in Turns, mode \in {"default", "off"} : turn = request.turn /\ mode = request.thinking
  BY <1>2
<1>5. LET r == Fitted(trajectory, turn, window, mode)
      IN /\ r.dropped \in 0..Floor(trajectory) /\ r.groups = Suffix(trajectory, r.dropped)
         /\ r.dropped = Floor(trajectory) \/ Fits(r.groups, turn, window)
  BY <1>1, FittedIs
<1>6. QED
  BY <1>1, <1>3, <1>4, <1>5

\* Groups are dropped from the oldest on, and the newest executed one is never among them.
LEMMA NewestShown == CoreInv => NewestStepIsShown
<1> SUFFICES ASSUME CoreInv, Sent
             PROVE  /\ request.dropped + Len(request.groups) = Len(trajectory)
                    /\ (\E i \in DOMAIN trajectory : trajectory[i].kind = "real")
                         => \E i \in DOMAIN request.groups : request.groups[i].kind = "real"
                    /\ trajectory # <<>> => request.groups # <<>>
  BY DEF NewestStepIsShown
<1> DEFINE d == request.dropped
           n == Len(trajectory)
<1>1. /\ trajectory \in Seq(Group) /\ n \in Nat /\ d \in 0..Floor(trajectory)
      /\ request.groups = Suffix(trajectory, d)
  BY RequestUnderWay
<1>2. /\ Floor(trajectory) \in 0..n
      /\ trajectory # <<>> => Floor(trajectory) < n
      /\ (\E i \in DOMAIN trajectory : trajectory[i].kind = "real")
           => \E i \in DOMAIN trajectory : trajectory[i].kind = "real" /\ Floor(trajectory) = i - 1
  BY <1>1, FloorIs
<1>3. d \in 0..n
  BY <1>1, <1>2
<1>4. /\ request.groups \in Seq(Group) /\ Len(request.groups) = n - d
      /\ \A i \in 1..(n - d) : request.groups[i] = trajectory[d + i]
  BY <1>1, <1>3, SuffixIs
<1> HIDE DEF d, n
<1>5. d + Len(request.groups) = n
  BY <1>1, <1>3, <1>4
<1>6. trajectory # <<>> => request.groups # <<>>
  <2> SUFFICES ASSUME trajectory # <<>> PROVE Len(request.groups) > 0
    OBVIOUS
  <2>1. QED
    BY <1>1, <1>2, <1>4
<1>7. ASSUME \E i \in DOMAIN trajectory : trajectory[i].kind = "real"
      PROVE  \E i \in DOMAIN request.groups : request.groups[i].kind = "real"
  <2>1. PICK i \in DOMAIN trajectory : trajectory[i].kind = "real" /\ Floor(trajectory) = i - 1
    BY <1>2, <1>7
  <2>2. i \in 1..n
    BY <1>1, <2>1 DEF n
  <2>3. i - d \in 1..(n - d) /\ d + (i - d) = i
    BY <1>1, <1>3, <2>1, <2>2
  <2>4. DOMAIN request.groups = 1..(n - d)
    BY <1>4
  <2>5. QED
    BY <1>4, <2>1, <2>3, <2>4
<1>8. QED
  BY <1>5, <1>6, <1>7 DEF d, n

\* Density never makes a text count for less.
LEMMA DensityShrinks ==
  ASSUME NEW x \in Nat, NEW calibration \in Nat, 100 <= calibration, NEW room \in Nat,
         x * calibration <= room * 100
  PROVE  x <= room
<1>1. calibration - 100 \in Nat
  OBVIOUS
<1>2. x * calibration = x * 100 + x * (calibration - 100)
  OBVIOUS
<1>3. x * (calibration - 100) \in Nat
  BY <1>1
<1>4. x * 100 <= x * calibration
  BY <1>2, <1>3
<1>5. QED
  BY <1>4

\* With accurate estimates the trimmed sum is the real one.
LEMMA AccurateFits == CoreInv => AccurateRequestsFit
<1> SUFFICES ASSUME CoreInv, Sent, \A size \in {Prompt, Repair, Echo} : size.real = size.est,
                    \A i \in DOMAIN trajectory : trajectory[i].size.real = trajectory[i].size.est,
                    request.dropped # Floor(trajectory)
             PROVE  Input(request) <= Room + Note.real
  BY DEF AccurateRequestsFit
<1> DEFINE d == request.dropped
           groups == request.groups
           turn == request.turn
<1>1. /\ request \in Request /\ trajectory \in Seq(Group) /\ d \in 0..Floor(trajectory)
      /\ groups = Suffix(trajectory, d) /\ Fits(groups, turn, window)
  BY RequestUnderWay
<1>2. d \in Nat /\ d \in 0..Len(trajectory) /\ turn \in Turns
  BY <1>1, FloorIs DEF Request
<1>3. /\ groups \in Seq(Group) /\ Len(groups) = Len(trajectory) - d
      /\ \A i \in 1..(Len(trajectory) - d) : groups[i] = trajectory[d + i]
  BY <1>1, <1>2, SuffixIs
<1> HIDE DEF d, groups, turn
<1>4. RealTokens(groups) = Estimates(groups)
  <2>1. ASSUME NEW i \in DOMAIN groups
        PROVE  groups[i].size.real = groups[i].size.est
    <3>1. i \in 1..(Len(trajectory) - d) /\ d + i \in DOMAIN trajectory
      BY <1>1, <1>2, <1>3
    <3>2. QED
      BY <1>3, <3>1
  <2>2. [i \in DOMAIN groups |-> groups[i].size.real] = [i \in DOMAIN groups |-> groups[i].size.est]
    BY <2>1
  <2>3. QED
    BY <2>2 DEF RealTokens, Estimates
<1>5. TurnSize(turn).real = TurnSize(turn).est
  BY <1>2 DEF TurnSize, Turns
<1>6. /\ Prompt.est \in Nat /\ TurnSize(turn).est \in Nat /\ Estimates(groups) \in Nat
      /\ NoteSize(d).real \in Nat /\ Note.real \in Nat /\ Room \in Nat
      /\ window \in Nat /\ 100 <= window
  <2>1. Prompt \in Size /\ Note \in Size /\ TurnSize(turn) \in Size /\ NoteSize(d) \in Size
    BY <1>2, SizesTyped
  <2>2. /\ Prompt.est \in Nat /\ TurnSize(turn).est \in Nat /\ NoteSize(d).real \in Nat
        /\ Note.real \in Nat
    BY <2>1 DEF Size
  <2>3. window \in 100..MaxCalibration /\ MaxCalibration \in Nat /\ Room \in Nat
    BY AgentAssumption DEF CoreInv, TypeOK
  <2>4. QED
    BY <1>3, <2>2, <2>3, GroupsTyped
<1>7. NoteSize(d).real <= Note.real
  BY <1>6 DEF NoteSize
<1> DEFINE x == Prompt.est + TurnSize(turn).est + Estimates(groups)
<1>8. x \in Nat /\ x * window <= Room * 100
  BY <1>1, <1>6 DEF Fits
<1>9. x <= Room
  <2> HIDE DEF x
  <2>1. QED
    BY <1>6, <1>8, DensityShrinks
<1>10. Input(request) = Prompt.real + TurnSize(turn).real + NoteSize(d).real + RealTokens(groups)
  BY DEF Input, d, groups, turn
<1>11. Prompt.real = Prompt.est
  OBVIOUS
<1>12. QED
  BY <1>4, <1>5, <1>6, <1>7, <1>9, <1>10, <1>11

\* However densely the server tokenizes, whatever was sent, retried and cut before: a request
\* shows the newest executed step, and if the estimates are right it fits or there was nothing
\* left to drop.
THEOREM TrimmingSafe == Spec => []TrimmingIsRight
<1>1. CoreInv => TrimmingIsRight
  BY NewestShown, AccurateFits DEF CoreInv, TrimmingIsRight
<1>2. QED
  BY <1>1, CoreInvariant, PTL

-----------------------------------------------------------------------------
(* The thinking cutoff.                                                    *)

\* The completion at hand was cut off and is about to be rejected for it.
CutOff == pc = "parse" /\ completion.length

\* Thinking is off in every request from the first runaway on.
ThinkingInv ==
  /\ request.thinking = "off" => Toggleable
  /\ thinking.off => Toggleable
  /\ pc \in {"lookup", "live", "parse", "acting"} /\ thinking.off => request.thinking = "off"
  /\ Toggleable => \/ runaways = 0
                   \/ runaways = 1 /\ (thinking.off \/ pc = "over" \/ CutOff)

\* ThinkingInv is inductive.
LEMMA ThinkingStep == CoreInv /\ ThinkingInv /\ [Next]_vars => ThinkingInv'
<1> SUFFICES ASSUME CoreInv, ThinkingInv, [Next]_vars PROVE ThinkingInv'
  OBVIOUS
<1>0. /\ thinking \in [off: BOOLEAN, cutoffs: 0..CutoffThreshold] /\ trajectory \in Seq(Group)
      /\ request \in Request /\ completion \in Completion /\ runaways \in Nat /\ cfg \in Configs
  BY DEF CoreInv, TypeOK
<1>1. CASE StartRollout
  <2>1. /\ thinking' = Awake /\ runaways' = 0 /\ pc' = "idle" /\ request' = request
        /\ request = Nothing
    BY <1>1 DEF StartRollout, CoreInv, QuietInv
  <2>2. QED
    BY <2>1 DEF ThinkingInv, Awake, Nothing
<1>2. CASE EndRollout \/ Outage
  BY <1>2 DEF EndRollout, Outage, Quiet, agent, ThinkingInv, Nothing, Toggleable
<1>3. CASE BeginAct
  <2>1. /\ pc = "idle" /\ Send(trajectory, "none", window, thinking.off, <<>>)
        /\ UNCHANGED <<cfg, thinking, completion, runaways>>
    BY <1>3 DEF BeginAct, agent
  <2>2. "none" \in Turns /\ thinking.off \in BOOLEAN
    BY <1>0 DEF Turns
  <2>3. request'.thinking = (IF thinking.off THEN "off" ELSE "default") /\ pc' = "lookup"
    BY <1>0, <2>1, <2>2, SendIs
  <2>4. QED
    BY <2>1, <2>3 DEF ThinkingInv, CutOff, Toggleable
<1>4. CASE \E size \in Sizes : Observe(size)
  BY <1>4 DEF Observe, Quiet, ThinkingInv, CutOff, Nothing, Toggleable
<1>5. ASSUME NEW c \in Completion, Return(c), UNCHANGED <<cfg, thinking, request>>, Sent
      PROVE  ThinkingInv'
  <2>1. /\ completion' = c /\ pc' = IF c.kind = "call" THEN "acting" ELSE "parse"
        /\ runaways' = IF c.length /\ c.kind # "call" /\ Resolved(request) = "on" THEN runaways + 1
                                                                              ELSE runaways
    BY <1>5 DEF Return
  <2>2. Toggleable' = Toggleable
    BY <1>5 DEF Toggleable
  <2>3. thinking.off => request.thinking = "off"
    BY <1>5 DEF ThinkingInv, Sent
  <2>4. thinking.off => Resolved(request) = "off"
    BY <2>3 DEF Resolved
  <2>5. CASE c.length /\ c.kind # "call" /\ Resolved(request) = "on"
    <3>1. ~thinking.off /\ runaways' = runaways + 1 /\ pc' = "parse"
      BY <2>1, <2>4, <2>5
    <3>2. Toggleable => runaways = 0
      BY <1>5, <3>1 DEF ThinkingInv, Sent, CutOff
    <3>3. CutOff'
      BY <2>1, <2>5, <3>1 DEF CutOff
    <3>4. QED
      BY <1>5, <2>2, <3>1, <3>2, <3>3 DEF ThinkingInv
  <2>6. CASE ~(c.length /\ c.kind # "call" /\ Resolved(request) = "on")
    <3>1. runaways' = runaways /\ pc' # "idle"
      BY <2>1, <2>6
    <3>2. Toggleable => runaways = 0 \/ (runaways = 1 /\ thinking.off)
      BY <1>5 DEF ThinkingInv, Sent, CutOff
    <3>3. QED
      BY <1>5, <2>2, <2>3, <3>1, <3>2 DEF ThinkingInv
  <2>7. QED
    BY <2>5, <2>6
<1>6. CASE Hit
  <2>1. PICK row \in Rows(request) : Return(row.completion)
    BY <1>6 DEF Hit
  <2>2. UNCHANGED <<provider, cfg, thinking, request>> /\ Sent
    BY <1>6 DEF Hit, Sent
  <2>3. row.completion \in Completion
    BY <2>2, RowsAreOwn, CompletionsTyped DEF Own
  <2>4. QED
    BY <1>5, <2>1, <2>2, <2>3
<1>7. CASE Miss
  BY <1>7 DEF Miss, agent, ThinkingInv, CutOff, Toggleable
<1>8. CASE Answer
  <2>1. PICK reply \in Decoded(request) :
          \E c \in Completions(reply, cfg.revision, Budgeted(request)) : Return(c)
    BY <1>8 DEF Answer
  <2>2. PICK c \in Completions(reply, cfg.revision, Budgeted(request)) : Return(c)
    BY <2>1
  <2>3. UNCHANGED <<cfg, thinking, request>> /\ Sent
    BY <1>8 DEF Answer, Sent
  <2>4. c \in Completion
    BY CompletionsTyped
  <2>5. QED
    BY <1>5, <2>2, <2>3, <2>4
<1>9. CASE Overflow
  <2>1. pc = "live" /\ UNCHANGED <<cfg, thinking, runaways>>
    BY <1>9 DEF Overflow
  <2>2. \/ pc' = "over" /\ request' = Nothing
        \/ pc' = "lookup" /\ request'.thinking = request.thinking
    <3>1. \/ pc' = "over" /\ Quiet
          \/ \E shrunk, heard : Send(trajectory, request.turn, shrunk, request.thinking = "off", heard)
      BY <1>9 DEF Overflow
    <3>2. ASSUME NEW shrunk, NEW heard,
                 Send(trajectory, request.turn, shrunk, request.thinking = "off", heard)
          PROVE  pc' = "lookup" /\ request'.thinking = request.thinking
      <4>1. /\ request.turn \in Turns /\ (request.thinking = "off") \in BOOLEAN
            /\ request.thinking \in {"default", "off"}
        BY <1>0 DEF Request
      <4>2. /\ pc' = "lookup"
            /\ request'.thinking = IF request.thinking = "off" THEN "off" ELSE "default"
        BY <1>0, <3>2, <4>1, SendIs
      <4>3. QED
        BY <4>1, <4>2
    <3>3. QED
      BY <3>1, <3>2 DEF Quiet
  <2>3. Toggleable' = Toggleable
    BY <2>1 DEF Toggleable
  <2>4. QED
    BY <2>1, <2>2, <2>3 DEF ThinkingInv, CutOff, Nothing
<1>10. ASSUME NEW turn \in Turns, NEW off \in BOOLEAN, Retry(turn, off), window' = window,
              UNCHANGED <<cfg, runaways>>,
              off => Toggleable, thinking'.off => off, thinking'.off => Toggleable,
              Toggleable => runaways = 0 \/ (runaways = 1 /\ thinking'.off)
       PROVE  ThinkingInv'
  <2>1. \/ pc' = "lookup" /\ request'.thinking = IF off THEN "off" ELSE "default"
        \/ pc' = "idle" /\ request' = Nothing
    BY <1>10, RetryIs DEF CoreInv
  <2>2. Toggleable' = Toggleable
    BY <1>10 DEF Toggleable
  <2>3. QED
    BY <1>10, <2>1, <2>2 DEF ThinkingInv, Nothing
<1>11. CASE Rejected
  <2>1. /\ pc = "live" /\ Retry("repair", request.thinking = "off")
        /\ UNCHANGED <<cfg, window, thinking, runaways>>
    BY <1>11 DEF Rejected
  <2>2. "repair" \in Turns /\ (request.thinking = "off") \in BOOLEAN
    BY DEF Turns
  <2>3. QED
    BY <1>10, <2>1, <2>2 DEF ThinkingInv, CutOff
<1>12. CASE Reject
  <2>1. pc = "parse" /\ UNCHANGED <<cfg, window, runaways>>
    BY <1>12, RejectCases
  <2>2. /\ TurnFor(completion) \in Turns
        /\ (request.thinking = "off") \in BOOLEAN
        /\ (request.thinking = "off" \/ Toggleable) \in BOOLEAN
    BY DEF TurnFor, Turns
  <2>3. CASE RejectShort(completion)
    <3>1. /\ ~completion.length /\ UNCHANGED thinking
          /\ Retry(TurnFor(completion), request.thinking = "off")
      BY <2>3 DEF RejectShort
    <3>2. QED
      BY <1>10, <2>1, <2>2, <3>1 DEF ThinkingInv, CutOff
  <2>4. CASE RejectOver(completion)
    <3>1. pc' = "over" /\ request' = Nothing /\ thinking'.off = thinking.off
      BY <1>0, <2>4 DEF RejectOver, Quiet
    <3>2. QED
      BY <2>1, <3>1 DEF ThinkingInv, Nothing, Toggleable
  <2>5. CASE RejectPayload(completion)
    <3>1. /\ pc' = "idle" /\ request' = Nothing /\ thinking' = thinking
          /\ thinking.off \/ ~Toggleable
      BY <2>5 DEF RejectPayload, FailStep, Quiet
    <3>2. QED
      BY <2>1, <3>1 DEF ThinkingInv, Nothing, Toggleable
  <2>6. CASE RejectLong(completion)
    <3>1. /\ Retry(TurnFor(completion), request.thinking = "off" \/ Toggleable)
          /\ thinking'.off = (thinking.off \/ Toggleable)
      BY <2>6 DEF RejectLong
    <3>2. (request.thinking = "off" \/ Toggleable) => Toggleable
      BY DEF ThinkingInv
    <3>3. /\ thinking'.off => Toggleable /\ (request.thinking = "off" \/ Toggleable)
          /\ Toggleable => runaways = 0 \/ (runaways = 1 /\ thinking'.off)
      BY <3>1 DEF ThinkingInv
    <3>4. QED
      BY <1>10, <2>1, <2>2, <3>1, <3>2, <3>3
  <2>7. QED
    BY <1>12, <2>3, <2>4, <2>5, <2>6, RejectCases
<1>13. CASE UNCHANGED vars
  BY <1>13 DEF vars, agent, ThinkingInv, CutOff, Toggleable
<1>14. QED
  BY <1>1, <1>2, <1>3, <1>4, <1>6, <1>7, <1>8, <1>9, <1>11, <1>12, <1>13 DEF Next

\* Where thinking can be turned off, a rollout is cut off while thinking once at most, over all
\* its steps, retries and cached completions, and the override is only passed to a deployment
\* that declares the channel.
THEOREM ThinkingSafe == Spec => []ThinkingEndsOnce
<1>1. Init => ThinkingInv
  BY DEF Init, ThinkingInv, Awake, Nothing
<1>2. ThinkingInv => ThinkingEndsOnce
  BY DEF ThinkingInv, ThinkingEndsOnce, OneThinkingRunaway, OverrideOnlyWhereDeclared
<1>3. QED
  BY <1>1, <1>2, ThinkingStep, CoreInvariant, PTL DEF Spec

-----------------------------------------------------------------------------
(* Same history, same request.  What the policy knows is a function of what *)
(* the log tells: these operators compute it, entry by entry, from nothing  *)
(* but the log and whether the deployment can turn thinking off.            *)

\* What a log can hold.
Value == Request \cup Completion \cup BOOLEAN \cup Size
Entry == [what: {"request", "completion", "overflow", "observed"}, value: Value]

\* What the policy knows when a rollout begins.
Begin ==
  [phase |-> "acting", trajectory |-> <<>>, window |-> 100, thinking |-> Awake, act |-> Fresh,
   request |-> Nothing, completion |-> NoCompletion]

\* What the next request is made from: a new step with what is known,
NewStep(trajectory_, st, thinking_) ==
  [turn |-> "none", off |-> thinking_.off, act |-> Fresh, trajectory |-> trajectory_,
   window |-> st.window, thinking |-> thinking_]

\* a new step after one that failed,
Failing(st, thinking_) ==
  NewStep(Append(st.trajectory, [kind |-> "failed", size |-> Failed]), st, thinking_)

\* another attempt at the step or, if there is none left, a failed one.
Retrying(st, turn, thinking_, off) ==
  IF st.act.attempt < OutputRetries
  THEN [turn |-> turn, off |-> off, act |-> [attempt |-> st.act.attempt + 1, retrims |-> 0],
        trajectory |-> st.trajectory, window |-> st.window, thinking |-> thinking_]
  ELSE Failing(st, thinking_)

\* After a completion that is no action.
Parsed(st, toggle) ==
  LET c == st.completion
      off == st.request.thinking = "off"
      cutoffs == IF c.kind = "missing" THEN st.thinking.cutoffs + 1 ELSE st.thinking.cutoffs
  IN IF ~c.length THEN Retrying(st, TurnFor(c), st.thinking, off)
     ELSE IF c.kind = "invalid" /\ (st.thinking.off \/ ~toggle) THEN Failing(st, st.thinking)
     ELSE Retrying(st, TurnFor(c), [off |-> st.thinking.off \/ toggle, cutoffs |-> cutoffs],
                   off \/ toggle)

\* After an overflow: the same turn, refitted.
Retrimmed(st) ==
  [turn |-> st.request.turn, off |-> st.request.thinking = "off",
   act |-> [attempt |-> st.act.attempt, retrims |-> st.act.retrims + 1],
   trajectory |-> st.trajectory, window |-> st.window, thinking |-> st.thinking]

\* A request that is followed by another one was rejected by the server.
Ready(st, toggle) ==
  IF st.phase = "acting" THEN NewStep(st.trajectory, st, st.thinking)
  ELSE IF st.phase = "sent" THEN Retrying(st, "repair", st.thinking, st.request.thinking = "off")
  ELSE IF st.phase = "overflowed" THEN Retrimmed(st)
  ELSE Parsed(st, toggle)

\* The request that follows from what is known.
Asks(st, toggle) ==
  LET n == Ready(st, toggle)
  IN Fitted(n.trajectory, n.turn, n.window, IF n.off THEN "off" ELSE "default")

\* What the policy knows after one more entry.
Known(phase, trajectory_, window_, thinking_, act_, request_, completion_) ==
  [phase |-> phase, trajectory |-> trajectory_, window |-> window_, thinking |-> thinking_,
   act |-> act_, request |-> request_, completion |-> completion_]

\* Each kind of entry and what it adds to what is known.
After(st, e, toggle) ==
  IF e.what = "request"
  THEN LET n == Ready(st, toggle)
       IN Known("sent", n.trajectory, n.window, n.thinking, n.act, e.value, st.completion)
  ELSE IF e.what = "completion"
  THEN Known(IF e.value.kind = "call" THEN "acting" ELSE "told", st.trajectory,
             Calibrated(st.window, st.request, e.value), st.thinking, st.act, st.request, e.value)
  ELSE IF e.what = "overflow"
  THEN Known("overflowed", st.trajectory, Shrunk(st.window, st.request, e.value), st.thinking, st.act,
             st.request, st.completion)
  ELSE Known(st.phase, Append(st.trajectory, [kind |-> "real", size |-> e.value]), st.window,
             st.thinking, st.act, st.request, st.completion)

\* sigma is what is known along the log l, and every request in l is the one that follows.
Follows(l, sigma, toggle) ==
  /\ sigma[0] = Begin
  /\ \A k \in 1..Len(l) :
       /\ sigma[k] = After(sigma[k - 1], l[k], toggle)
       /\ l[k] = Said(l[k].what, l[k].value)
       /\ l[k].what = "request" => l[k].value = Asks(sigma[k - 1], toggle)

\* What is known and the state of the rollout.
Tied(st) ==
  /\ pc \in {"lookup", "live", "parse"} =>
       /\ st.phase = IF pc = "parse" THEN "told" ELSE "sent"
       /\ st.trajectory = trajectory /\ st.window = window /\ st.thinking = thinking
       /\ st.act = act /\ st.request = request
       /\ pc = "parse" => st.completion = completion
  /\ pc = "acting" =>
       /\ st.phase = "acting"
       /\ st.trajectory = trajectory /\ st.window = window /\ st.thinking = thinking
  /\ pc = "idle" => Ready(st, Toggleable) = NewStep(trajectory, [window |-> window], thinking)

\* The rollout's history is still being kept.
Kept == rollouts = 1 \/ past # {}

\* Inductive: the log explains the policy's state, and every log kept explains itself.
HistoryInv ==
  /\ log \in Seq(Entry)
  /\ \E sigma : Follows(log, sigma, Toggleable) /\ (Kept => Tied(sigma[Len(log)]))
  /\ \A p \in past : p \in Seq(Entry) /\ \E sigma : Follows(p, sigma, Toggleable)

-----------------------------------------------------------------------------

\* An empty log follows.
LEMMA EmptyFollows ==
  ASSUME NEW toggle
  PROVE  <<>> \in Seq(Entry) /\ \E sigma : Follows(<<>>, sigma, toggle) /\ sigma[Len(<<>>)] = Begin
<1> DEFINE sigma == [k \in {0} |-> Begin]
<1>1. sigma[0] = Begin /\ Len(<<>>) = 0
  OBVIOUS
<1>2. Follows(<<>>, sigma, toggle)
  BY <1>1 DEF Follows
<1>3. QED
  BY <1>1, <1>2

\* One more entry.
LEMMA OneMore ==
  ASSUME NEW l \in Seq(Entry), NEW toggle, NEW sigma, Follows(l, sigma, toggle),
         NEW e \in Entry, e = Said(e.what, e.value),
         e.what = "request" => e.value = Asks(sigma[Len(l)], toggle)
  PROVE  /\ Append(l, e) \in Seq(Entry) /\ Len(Append(l, e)) = Len(l) + 1
         /\ \E tau : /\ Follows(Append(l, e), tau, toggle)
                     /\ tau[Len(l) + 1] = After(sigma[Len(l)], e, toggle)
<1> DEFINE n == Len(l)
           m == Append(l, e)
           tau == [k \in 0..(n + 1) |-> IF k = n + 1 THEN After(sigma[n], e, toggle) ELSE sigma[k]]
<1>1. n \in Nat /\ m \in Seq(Entry) /\ Len(m) = n + 1 /\ m[n + 1] = e /\ \A k \in 1..n : m[k] = l[k]
  OBVIOUS
<1>2. tau[n + 1] = After(sigma[n], e, toggle) /\ \A k \in 0..n : tau[k] = sigma[k]
  BY <1>1
<1> HIDE DEF n, m, tau
<1>3. ASSUME NEW k \in 1..(n + 1)
      PROVE  /\ tau[k] = After(tau[k - 1], m[k], toggle)
             /\ m[k] = Said(m[k].what, m[k].value)
             /\ m[k].what = "request" => m[k].value = Asks(tau[k - 1], toggle)
  <2>1. CASE k = n + 1
    <3>1. k - 1 = n /\ n \in 0..n
      BY <1>1, <2>1
    <3>2. tau[k - 1] = sigma[n] /\ m[k] = e
      BY <1>1, <1>2, <2>1, <3>1
    <3>3. QED
      BY <1>2, <2>1, <3>2 DEF n
  <2>2. CASE k # n + 1
    <3>1. k \in 1..n /\ k \in 0..n /\ k - 1 \in 0..n
      BY <1>1, <2>2
    <3>2. tau[k] = sigma[k] /\ tau[k - 1] = sigma[k - 1] /\ m[k] = l[k]
      BY <1>1, <1>2, <3>1
    <3>3. QED
      BY <3>1, <3>2 DEF Follows, n
  <2>3. QED
    BY <2>1, <2>2
<1>4. tau[0] = Begin
  BY <1>1, <1>2 DEF Follows
<1>5. Follows(m, tau, toggle)
  BY <1>1, <1>3, <1>4 DEF Follows
<1>6. QED
  BY <1>1, <1>2, <1>5 DEF n, m

\* Without the rollout's history only that of the one before counts.
LEMMA Forgotten ==
  ASSUME log' = <<>>, past' = {}, rollouts # 1, rollouts' = rollouts
  PROVE  HistoryInv'
<1>1. ~Kept'
  BY DEF Kept
<1>2. <<>> \in Seq(Entry) /\ \E sigma : Follows(<<>>, sigma, Toggleable')
  BY EmptyFollows
<1>3. QED
  BY <1>1, <1>2 DEF HistoryInv

\* A step that records nothing.
LEMMA Unheard ==
  ASSUME HistoryInv, UNCHANGED <<log, past, rollouts, cfg>>,
         \A st : Tied(st) => Tied(st)'
  PROVE  HistoryInv'
<1>1. Toggleable' = Toggleable /\ Kept' = Kept
  BY DEF Toggleable, Kept
<1>2. PICK sigma : Follows(log, sigma, Toggleable) /\ (Kept => Tied(sigma[Len(log)]))
  BY DEF HistoryInv
<1>3. Kept => Tied(sigma[Len(log)])'
  BY <1>2
<1>4. QED
  BY <1>1, <1>2, <1>3 DEF HistoryInv

\* A step that records one entry.
LEMMA HeardOne ==
  ASSUME HistoryInv, UNCHANGED <<rollouts, cfg>>, NEW e \in Entry, e = Said(e.what, e.value),
         Heard(<<e>>),
         \A st : Tied(st) /\ e.what = "request" => e.value = Asks(st, Toggleable),
         \A st, next : Tied(st) /\ next = After(st, e, Toggleable) => Tied(next)'
  PROVE  HistoryInv'
<1>1. Toggleable' = Toggleable
  BY DEF Toggleable
<1>2. CASE Kept /\ log' = log \o <<e>> /\ past' = past
  <2>1. PICK sigma : Follows(log, sigma, Toggleable) /\ Tied(sigma[Len(log)])
    BY <1>2 DEF HistoryInv
  <2>2. log \in Seq(Entry) /\ log' = Append(log, e)
    BY <1>2 DEF HistoryInv
  <2>3. e.what = "request" => e.value = Asks(sigma[Len(log)], Toggleable)
    BY <2>1
  <2>4. /\ Append(log, e) \in Seq(Entry) /\ Len(Append(log, e)) = Len(log) + 1
        /\ \E tau : /\ Follows(Append(log, e), tau, Toggleable)
                    /\ tau[Len(log) + 1] = After(sigma[Len(log)], e, Toggleable)
    BY <2>1, <2>2, <2>3, OneMore
  <2>5. PICK tau : /\ Follows(Append(log, e), tau, Toggleable)
                   /\ tau[Len(log) + 1] = After(sigma[Len(log)], e, Toggleable)
    BY <2>4
  <2>6. PICK st, next, n : st = sigma[Len(log)] /\ n = Len(log) + 1 /\ next = tau[n]
    OBVIOUS
  <2>7. Tied(next)'
    BY <2>1, <2>5, <2>6
  <2>8. Len(log)' = n
    BY <2>2, <2>4, <2>6
  <2>9. Tied(tau[Len(log)])'
    BY <2>6, <2>7, <2>8
  <2>10. QED
    BY <1>1, <1>2, <2>2, <2>4, <2>5, <2>9 DEF HistoryInv
<1>3. CASE log' = <<>> /\ past' = {} /\ rollouts # 1
  BY <1>3, Forgotten
<1>4. QED
  BY <1>2, <1>3 DEF Heard, Kept

\* What is known when a request has gone out.
SentAs(next) ==
  /\ next.phase = "sent" /\ next.trajectory = trajectory' /\ next.window = window'
  /\ next.thinking = thinking' /\ next.act = act' /\ next.request = request'

\* A step that records two entries, a request after something else.
LEMMA HeardTwo ==
  ASSUME HistoryInv, UNCHANGED <<rollouts, cfg>>,
         NEW d \in Entry, d = Said(d.what, d.value), d.what # "request",
         NEW e \in Entry, e = Said(e.what, e.value),
         Heard(<<d>> \o <<e>>),
         \A st, mid : Tied(st) /\ mid = After(st, d, Toggleable) /\ e.what = "request"
                        => e.value = Asks(mid, Toggleable),
         \A st, mid, next : Tied(st) /\ mid = After(st, d, Toggleable) /\
                            next = After(mid, e, Toggleable) => SentAs(next),
         pc' = "lookup"
  PROVE  HistoryInv'
<1>1. Toggleable' = Toggleable
  BY DEF Toggleable
<1>2. CASE Kept /\ log' = log \o (<<d>> \o <<e>>) /\ past' = past
  <2>1. PICK sigma : Follows(log, sigma, Toggleable) /\ Tied(sigma[Len(log)])
    BY <1>2 DEF HistoryInv
  <2>2. log \in Seq(Entry) /\ Len(log) \in Nat
    BY DEF HistoryInv
  <2>3. PICK both : both = Append(log, d)
    OBVIOUS
  <2>4. /\ both \in Seq(Entry) /\ Len(both) = Len(log) + 1
        /\ \E rho : /\ Follows(both, rho, Toggleable)
                    /\ rho[Len(log) + 1] = After(sigma[Len(log)], d, Toggleable)
    BY <2>1, <2>2, <2>3, OneMore
  <2>5. PICK rho : /\ Follows(both, rho, Toggleable)
                   /\ rho[Len(both)] = After(sigma[Len(log)], d, Toggleable)
    BY <2>4
  <2>6. PICK st, mid : st = sigma[Len(log)] /\ mid = rho[Len(both)]
    OBVIOUS
  <2>7. e.what = "request" => e.value = Asks(rho[Len(both)], Toggleable)
    BY <2>1, <2>5, <2>6
  <2>8. /\ Append(both, e) \in Seq(Entry) /\ Len(Append(both, e)) = Len(both) + 1
        /\ \E tau : /\ Follows(Append(both, e), tau, Toggleable)
                    /\ tau[Len(both) + 1] = After(rho[Len(both)], e, Toggleable)
    BY <2>4, <2>5, <2>7, OneMore
  <2>9. PICK tau : /\ Follows(Append(both, e), tau, Toggleable)
                   /\ tau[Len(both) + 1] = After(rho[Len(both)], e, Toggleable)
    BY <2>8
  <2>10. PICK next, n : n = Len(both) + 1 /\ next = tau[n]
    OBVIOUS
  <2>11. Tied(next)'
    <3>1. SentAs(next)
      BY <2>1, <2>5, <2>6, <2>9, <2>10
    <3>2. QED
      BY <3>1 DEF SentAs, Tied
  <2>12. log' = Append(both, e)
    BY <1>2, <2>2, <2>3
  <2>13. Len(log)' = n
    BY <2>8, <2>10, <2>12
  <2>14. Tied(tau[Len(log)])'
    BY <2>10, <2>11, <2>13
  <2>15. QED
    BY <1>1, <1>2, <2>8, <2>9, <2>12, <2>14 DEF HistoryInv
<1>3. CASE log' = <<>> /\ past' = {} /\ rollouts # 1
  BY <1>3, Forgotten
<1>4. QED
  BY <1>2, <1>3 DEF Heard, Kept

\* What is recorded is an entry.
LEMMA SaidIsEntry ==
  ASSUME NEW what \in {"request", "completion", "overflow", "observed"}, NEW value \in Value
  PROVE  LET e == Said(what, value)
         IN e \in Entry /\ e.what = what /\ e.value = value /\ e = Said(e.what, e.value)
BY DEF Said, Entry

\* A step sends the request that what is known asks for.
LEMMA Sending ==
  ASSUME CoreInv, HistoryInv, UNCHANGED <<rollouts, cfg>>, request' \in Request, pc' = "lookup",
         Heard(<<>> \o <<Said("request", request')>>),
         \A st : Tied(st) =>
           LET n == Ready(st, Toggleable)
           IN /\ request' = Fitted(n.trajectory, n.turn, n.window, IF n.off THEN "off" ELSE "default")
              /\ n.trajectory = trajectory' /\ n.window = window' /\ n.thinking = thinking'
              /\ n.act = act'
  PROVE  HistoryInv'
<1>1. PICK r : r = request'
  OBVIOUS
<1> DEFINE e == Said("request", r)
<1>2. e \in Entry /\ e.what = "request" /\ e.value = r /\ e = Said(e.what, e.value)
  <2>1. r \in Value
    BY <1>1 DEF Value
  <2>2. QED
    BY <2>1, SaidIsEntry
<1>3. Heard(<<e>>)
  <2>1. <<>> \o <<e>> = <<e>>
    OBVIOUS
  <2>2. Heard(<<>> \o <<e>>)
    BY <1>1
  <2>3. QED
    BY <2>1, <2>2
<1> HIDE DEF e
<1>4. ASSUME NEW st, Tied(st)
      PROVE  e.value = Asks(st, Toggleable)
  BY <1>1, <1>2, <1>4 DEF Asks
<1>5. ASSUME NEW st, NEW next, Tied(st), next = After(st, e, Toggleable)
      PROVE  Tied(next)'
  <2> DEFINE n == Ready(st, Toggleable)
  <2>1. next = Known("sent", n.trajectory, n.window, n.thinking, n.act, r, st.completion)
    BY <1>2, <1>5 DEF After
  <2>2. /\ n.trajectory = trajectory' /\ n.window = window' /\ n.thinking = thinking' /\ n.act = act'
    BY <1>5
  <2> HIDE DEF n
  <2>3. /\ next.phase = "sent" /\ next.trajectory = trajectory' /\ next.window = window'
        /\ next.thinking = thinking' /\ next.act = act' /\ next.request = request'
    BY <1>1, <2>1, <2>2 DEF Known
  <2>4. QED
    BY <2>3 DEF Tied
<1>6. QED
  BY <1>2, <1>3, <1>4, <1>5, HeardOne

\* A step's first request is the one the log asks for.
LEMMA BeginHistory ==
  ASSUME CoreInv, HistoryInv, BeginAct
  PROVE  HistoryInv'
<1>1. /\ pc = "idle" /\ Send(trajectory, "none", window, thinking.off, <<>>)
      /\ UNCHANGED <<cfg, trajectory, window, thinking, act, rollouts>>
  BY DEF BeginAct, agent
<1>2. trajectory \in Seq(Group) /\ thinking.off \in BOOLEAN /\ "none" \in Turns
  BY DEF CoreInv, TypeOK, Turns
<1>3. request' \in Request /\ pc' = "lookup"
  BY <1>1, <1>2, SendIs
<1>4. /\ request' = Fitted(trajectory, "none", window, IF thinking.off THEN "off" ELSE "default")
      /\ Heard(<<>> \o <<Said("request", request')>>)
  BY <1>1 DEF Send
<1>5. ASSUME NEW st, Tied(st)
      PROVE  LET n == Ready(st, Toggleable)
             IN /\ n.trajectory = trajectory' /\ n.window = window' /\ n.thinking = thinking'
                /\ n.act = act' /\ n.turn = "none" /\ n.off = thinking.off
  <2>1. Ready(st, Toggleable) = NewStep(trajectory, [window |-> window], thinking)
    BY <1>1, <1>5 DEF Tied
  <2>2. act = Fresh
    BY <1>1 DEF CoreInv, QuietInv
  <2>3. QED
    BY <1>1, <2>1, <2>2 DEF NewStep
<1>6. QED
  BY <1>1, <1>3, <1>4, <1>5, Sending

\* reset leaves nothing of the rollout before.
LEMMA StartHistory ==
  ASSUME CoreInv, HistoryInv, StartRollout
  PROVE  HistoryInv'
<1>1. /\ pc' = "idle" /\ trajectory' = <<>> /\ window' = 100 /\ thinking' = Awake /\ log' = <<>>
      /\ past' = IF rollouts > 0 /\ cfg' = cfg THEN {log} ELSE {}
  BY DEF StartRollout, NewWindow
<1>2. PICK sigma : Follows(<<>>, sigma, Toggleable') /\ sigma[Len(<<>>)] = Begin
  BY EmptyFollows
<1>3. Tied(Begin)'
  <2>1. Ready(Begin, Toggleable') = NewStep(<<>>, Begin, Awake)
    BY DEF Ready, Begin
  <2>2. NewStep(<<>>, Begin, Awake) = NewStep(<<>>, [window |-> 100], Awake)
    BY DEF NewStep, Begin
  <2>3. QED
    BY <1>1, <2>1, <2>2 DEF Tied
<1>4. Tied(sigma[Len(log)])'
  BY <1>1, <1>2, <1>3
<1>5. \A p \in past' : p \in Seq(Entry) /\ \E rho : Follows(p, rho, Toggleable')
  <2>1. cfg' = cfg => Toggleable' = Toggleable
    BY DEF Toggleable
  <2>2. QED
    BY <1>1, <2>1 DEF HistoryInv
<1>6. QED
  BY <1>1, <1>2, <1>4, <1>5, EmptyFollows DEF HistoryInv

\* A step that ends the rollout and records nothing.
LEMMA OverHistory ==
  ASSUME HistoryInv, pc' = "over", UNCHANGED <<log, past, rollouts, cfg>>
  PROVE  HistoryInv'
<1>1. \A st : Tied(st) => Tied(st)'
  BY DEF Tied
<1>2. QED
  BY <1>1, Unheard

\* The observation is logged as it joins the trajectory.
LEMMA ObserveHistory ==
  ASSUME CoreInv, HistoryInv, NEW size \in Sizes, Observe(size)
  PROVE  HistoryInv'
<1> DEFINE e == Said("observed", size)
<1>1. /\ pc = "acting" /\ pc' \in {"acting", "idle"} /\ Heard(<<e>>)
      /\ trajectory' = Append(trajectory, [kind |-> "real", size |-> size])
      /\ UNCHANGED <<cfg, window, thinking, rollouts>>
  BY DEF Observe
<1>2. e \in Entry /\ e.what = "observed" /\ e.value = size /\ e = Said(e.what, e.value)
  <2>1. size \in Value
    BY AgentAssumption DEF Value
  <2>2. QED
    BY <2>1, SaidIsEntry
<1> HIDE DEF e
<1>3. ASSUME NEW st, NEW next, Tied(st), next = After(st, e, Toggleable)
      PROVE  Tied(next)'
  <2>1. /\ st.phase = "acting" /\ st.trajectory = trajectory /\ st.window = window
        /\ st.thinking = thinking
    BY <1>1, <1>3 DEF Tied
  <2>2. next = Known(st.phase, Append(st.trajectory, [kind |-> "real", size |-> size]), st.window,
                     st.thinking, st.act, st.request, st.completion)
    BY <1>2, <1>3 DEF After
  <2>3. /\ next.phase = "acting" /\ next.trajectory = trajectory' /\ next.window = window'
        /\ next.thinking = thinking'
    BY <1>1, <2>1, <2>2 DEF Known
  <2>4. Ready(next, Toggleable') = NewStep(trajectory', [window |-> window'], thinking')
    BY <2>3 DEF Ready, NewStep
  <2>5. QED
    BY <1>1, <2>3, <2>4 DEF Tied
<1>4. QED
  BY <1>1, <1>2, <1>3, HeardOne

\* A completion, cached or live, is logged as it reaches the policy.
LEMMA ReturnHistory ==
  ASSUME CoreInv, HistoryInv, Sent, NEW c \in Completion, Return(c),
         UNCHANGED <<cfg, trajectory, thinking, act, request, rollouts>>
  PROVE  HistoryInv'
<1> DEFINE e == Said("completion", c)
<1>1. /\ pc \in {"lookup", "live"} /\ completion' = c /\ window' = Calibrated(window, request, c)
      /\ pc' = (IF c.kind = "call" THEN "acting" ELSE "parse") /\ Heard(<<e>>)
  BY DEF Sent, Return
<1>2. e \in Entry /\ e.what = "completion" /\ e.value = c /\ e = Said(e.what, e.value)
  <2>1. c \in Value
    BY DEF Value
  <2>2. QED
    BY <2>1, SaidIsEntry
<1> HIDE DEF e
<1>3. ASSUME NEW st, NEW next, Tied(st), next = After(st, e, Toggleable)
      PROVE  Tied(next)'
  <2>1. /\ st.phase = "sent" /\ st.trajectory = trajectory /\ st.window = window
        /\ st.thinking = thinking /\ st.act = act /\ st.request = request
    BY <1>1, <1>3 DEF Tied
  <2>2. next = Known(IF c.kind = "call" THEN "acting" ELSE "told", st.trajectory,
                     Calibrated(st.window, st.request, c), st.thinking, st.act, st.request, c)
    BY <1>2, <1>3 DEF After
  <2>3. /\ next.phase = (IF c.kind = "call" THEN "acting" ELSE "told")
        /\ next.trajectory = trajectory' /\ next.window = window' /\ next.thinking = thinking'
        /\ next.act = act' /\ next.request = request' /\ next.completion = completion'
    BY <1>1, <2>1, <2>2 DEF Known
  <2>4. QED
    BY <1>1, <2>3 DEF Tied
<1>4. QED
  BY <1>1, <1>2, <1>3, HeardOne

\* A miss is not seen by the policy.
LEMMA MissHistory ==
  ASSUME HistoryInv, Miss
  PROVE  HistoryInv'
<1>1. /\ pc = "lookup" /\ pc' = "live"
      /\ UNCHANGED <<cfg, trajectory, window, thinking, act, request, completion, rollouts, log, past>>
  BY DEF Miss, agent
<1>2. \A st : Tied(st) => Tied(st)'
  BY <1>1 DEF Tied
<1>3. QED
  BY <1>1, <1>2, Unheard

\* An overflow, and the request that is cut for it.
LEMMA OverflowHistory ==
  ASSUME CoreInv, HistoryInv, Overflow
  PROVE  HistoryInv'
<1> DEFINE informed == cfg.revision \in Informs
           d == Said("overflow", informed)
           shrunk == Shrunk(window, request, informed)
<1>1. pc = "live" /\ UNCHANGED <<cfg, trajectory, thinking, rollouts>>
  BY DEF Overflow
<1>2. d \in Entry /\ d.what = "overflow" /\ d.value = informed /\ d = Said(d.what, d.value)
  <2>1. informed \in Value
    BY DEF Value
  <2>2. QED
    BY <2>1, SaidIsEntry
<1>3. \/ /\ window' = shrunk /\ act' = [act EXCEPT !.retrims = @ + 1]
         /\ Send(trajectory, request.turn, shrunk, request.thinking = "off", <<d>>)
      \/ pc' = "over" /\ Heard(<<d>>)
  BY DEF Overflow
<1>4. /\ request \in Request /\ trajectory \in Seq(Group)
      /\ act \in [attempt: 0..OutputRetries, retrims: 0..RetrimBudget]
  BY DEF CoreInv, TypeOK
<1> HIDE DEF d
<1>5. ASSUME NEW st, NEW mid, Tied(st), mid = After(st, d, Toggleable)
      PROVE  /\ mid.phase = "overflowed" /\ mid.trajectory = trajectory /\ mid.window = shrunk
             /\ mid.thinking = thinking /\ mid.act = act /\ mid.request = request
  <2>1. /\ st.phase = "sent" /\ st.trajectory = trajectory /\ st.window = window
        /\ st.thinking = thinking /\ st.act = act /\ st.request = request
    BY <1>1, <1>5 DEF Tied
  <2>2. mid = Known("overflowed", st.trajectory, Shrunk(st.window, st.request, informed), st.thinking,
                    st.act, st.request, st.completion)
    BY <1>2, <1>5 DEF After
  <2>3. QED
    BY <2>1, <2>2 DEF Known
<1> HIDE DEF informed, shrunk
<1>6. CASE pc' = "over" /\ Heard(<<d>>)
  <2>1. \A st, next : Tied(st) /\ next = After(st, d, Toggleable) => Tied(next)'
    BY <1>6 DEF Tied
  <2>2. QED
    BY <1>1, <1>2, <1>6, <2>1, HeardOne
<1>7. CASE /\ window' = shrunk /\ act' = [act EXCEPT !.retrims = @ + 1]
           /\ Send(trajectory, request.turn, shrunk, request.thinking = "off", <<d>>)
  <2>1. request.turn \in Turns /\ (request.thinking = "off") \in BOOLEAN
    BY <1>4 DEF Request
  <2>2. request' \in Request /\ pc' = "lookup"
    BY <1>4, <1>7, <2>1, SendIs
  <2>3. PICK r \in Request :
          /\ r = request'
          /\ r = Fitted(trajectory, request.turn, shrunk,
                        IF request.thinking = "off" THEN "off" ELSE "default")
          /\ Heard(<<d>> \o <<Said("request", r)>>)
    BY <1>7, <2>2 DEF Send
  <2> DEFINE e == Said("request", r)
  <2>4. e \in Entry /\ e.what = "request" /\ e.value = r /\ e = Said(e.what, e.value)
    <3>1. r \in Value
      BY DEF Value
    <3>2. QED
      BY <3>1, SaidIsEntry
  <2>5. Heard(<<d>> \o <<e>>)
    BY <2>3
  <2> HIDE DEF e
  <2>6. act' = [attempt |-> act.attempt, retrims |-> act.retrims + 1]
    BY <1>4, <1>7
  <2>7. ASSUME NEW st, NEW mid, Tied(st), mid = After(st, d, Toggleable)
        PROVE  LET n == Ready(mid, Toggleable)
               IN /\ n.trajectory = trajectory' /\ n.window = window' /\ n.thinking = thinking'
                  /\ n.act = act' /\ n.turn = request.turn /\ n.off = (request.thinking = "off")
    <3>1. /\ mid.phase = "overflowed" /\ mid.trajectory = trajectory /\ mid.window = shrunk
          /\ mid.thinking = thinking /\ mid.act = act /\ mid.request = request
      BY <1>5, <2>7
    <3>2. Ready(mid, Toggleable) = Retrimmed(mid)
      BY <3>1 DEF Ready
    <3>3. act' = [attempt |-> mid.act.attempt, retrims |-> mid.act.retrims + 1]
      BY <2>6, <3>1
    <3>4. Ready(mid, Toggleable)
            = [turn |-> request.turn, off |-> (request.thinking = "off"), act |-> act',
               trajectory |-> mid.trajectory, window |-> mid.window, thinking |-> mid.thinking]
      BY <3>1, <3>2, <3>3 DEF Retrimmed
    <3>5. mid.trajectory = trajectory' /\ mid.window = window' /\ mid.thinking = thinking'
      BY <1>1, <1>7, <3>1
    <3>6. QED
      BY <3>4, <3>5
  <2>8. ASSUME NEW st, NEW mid, Tied(st), mid = After(st, d, Toggleable)
        PROVE  e.value = Asks(mid, Toggleable)
    BY <1>1, <1>7, <2>3, <2>4, <2>7, <2>8 DEF Asks
  <2>9. \A st, mid, next : Tied(st) /\ mid = After(st, d, Toggleable) /\
                           next = After(mid, e, Toggleable) => SentAs(next)
    <3> SUFFICES ASSUME NEW st, NEW mid, NEW next, Tied(st), mid = After(st, d, Toggleable),
                        next = After(mid, e, Toggleable)
                 PROVE  SentAs(next)
      OBVIOUS
    <3> DEFINE n == Ready(mid, Toggleable)
    <3>1. next = Known("sent", n.trajectory, n.window, n.thinking, n.act, r, mid.completion)
      BY <2>4 DEF After
    <3>2. n.trajectory = trajectory' /\ n.window = window' /\ n.thinking = thinking' /\ n.act = act'
      BY <2>7
    <3> HIDE DEF n
    <3>3. QED
      BY <2>3, <3>1, <3>2 DEF Known, SentAs
  <2>10. d.what # "request"
    BY <1>2
  <2>11. QED
    <3> HIDE DEF d, e
    <3>1. \A st, mid : Tied(st) /\ mid = After(st, d, Toggleable) /\ e.what = "request"
                         => e.value = Asks(mid, Toggleable)
      BY <2>8
    <3>2. d \in Entry /\ d = Said(d.what, d.value) /\ e \in Entry /\ e = Said(e.what, e.value)
      BY <1>2, <2>4
    <3>3. UNCHANGED <<rollouts, cfg>>
      BY <1>1
    <3>4. QED
      BY <2>2, <2>5, <2>9, <2>10, <3>1, <3>2, <3>3, HeardTwo
<1>8. QED
  BY <1>3, <1>6, <1>7

\* A step that fails, known as such.
LEMMA FailHistory ==
  ASSUME CoreInv, HistoryInv, FailStep, UNCHANGED <<cfg, window, rollouts>>,
         \A st : Tied(st) => /\ Ready(st, Toggleable) = Failing(st, thinking')
                             /\ st.trajectory = trajectory /\ st.window = window
  PROVE  HistoryInv'
<1>1. /\ pc' = "idle" /\ UNCHANGED <<log, past>>
      /\ trajectory' = Append(trajectory, [kind |-> "failed", size |-> Failed])
  BY DEF FailStep
<1>2. Toggleable' = Toggleable
  BY DEF Toggleable
<1>3. ASSUME NEW st, Tied(st)
      PROVE  Tied(st)'
  <2>1. /\ Ready(st, Toggleable) = Failing(st, thinking')
        /\ st.trajectory = trajectory /\ st.window = window
    BY <1>3
  <2>2. Failing(st, thinking') = NewStep(trajectory', [window |-> window'], thinking')
    BY <1>1, <2>1 DEF Failing, NewStep
  <2>3. QED
    BY <1>1, <1>2, <2>1, <2>2 DEF Tied
<1>4. QED
  BY <1>1, <1>3, Unheard

\* Another attempt or a failed step, known as such.
LEMMA RetryHistory ==
  ASSUME CoreInv, HistoryInv, NEW turn \in Turns, NEW off \in BOOLEAN, Retry(turn, off),
         UNCHANGED <<cfg, window, rollouts>>,
         \A st : Tied(st) => /\ Ready(st, Toggleable) = Retrying(st, turn, thinking', off)
                             /\ st.trajectory = trajectory /\ st.window = window /\ st.act = act
  PROVE  HistoryInv'
<1>1. /\ trajectory \in Seq(Group) /\ OutputRetries \in Nat
      /\ act \in [attempt: 0..OutputRetries, retrims: 0..RetrimBudget]
  BY AgentAssumption DEF CoreInv, TypeOK
<1>2. CASE /\ act.attempt < OutputRetries
           /\ act' = [act EXCEPT !.attempt = @ + 1, !.retrims = 0]
           /\ Send(trajectory, turn, window, off, <<>>)
           /\ UNCHANGED trajectory
  <2>1. request' \in Request /\ pc' = "lookup"
    BY <1>1, <1>2, SendIs
  <2>2. /\ request' = Fitted(trajectory, turn, window, IF off THEN "off" ELSE "default")
        /\ Heard(<<>> \o <<Said("request", request')>>)
    BY <1>2 DEF Send
  <2>3. act' = [attempt |-> act.attempt + 1, retrims |-> 0]
    BY <1>1, <1>2
  <2>4. ASSUME NEW st, Tied(st)
        PROVE  LET n == Ready(st, Toggleable)
               IN /\ n.trajectory = trajectory' /\ n.window = window' /\ n.thinking = thinking'
                  /\ n.act = act' /\ n.turn = turn /\ n.off = off
    <3>1. /\ Ready(st, Toggleable) = Retrying(st, turn, thinking', off)
          /\ st.trajectory = trajectory /\ st.window = window /\ st.act = act
      BY <2>4
    <3>2. st.act.attempt < OutputRetries /\ act' = [attempt |-> st.act.attempt + 1, retrims |-> 0]
      BY <1>2, <2>3, <3>1
    <3>3. Ready(st, Toggleable)
            = [turn |-> turn, off |-> off, act |-> act', trajectory |-> st.trajectory,
               window |-> st.window, thinking |-> thinking']
      BY <3>1, <3>2 DEF Retrying
    <3>4. st.trajectory = trajectory' /\ st.window = window'
      BY <1>2, <3>1
    <3>5. QED
      BY <3>3, <3>4
  <2>5. QED
    BY <1>2, <2>1, <2>2, <2>4, Sending
<1>3. CASE act.attempt = OutputRetries /\ FailStep
  <2>1. ASSUME NEW st, Tied(st)
        PROVE  /\ Ready(st, Toggleable) = Failing(st, thinking')
               /\ st.trajectory = trajectory /\ st.window = window
    <3>1. /\ Ready(st, Toggleable) = Retrying(st, turn, thinking', off)
          /\ st.trajectory = trajectory /\ st.window = window /\ st.act = act
      BY <2>1
    <3>2. ~(st.act.attempt < OutputRetries)
      BY <1>1, <1>3, <3>1
    <3>3. QED
      BY <3>1, <3>2 DEF Retrying
  <2>2. QED
    BY <1>3, <2>1, FailHistory
<1>4. QED
  BY <1>2, <1>3 DEF Retry

\* A request that another one follows was not taken.
LEMMA RejectedHistory ==
  ASSUME CoreInv, HistoryInv, Rejected
  PROVE  HistoryInv'
<1>1. /\ pc = "live" /\ Retry("repair", request.thinking = "off")
      /\ UNCHANGED <<cfg, window, thinking, rollouts>>
  BY DEF Rejected
<1>2. "repair" \in Turns /\ (request.thinking = "off") \in BOOLEAN
  BY DEF Turns
<1>3. ASSUME NEW st, Tied(st)
      PROVE  /\ Ready(st, Toggleable) = Retrying(st, "repair", thinking', request.thinking = "off")
             /\ st.trajectory = trajectory /\ st.window = window /\ st.act = act
  <2>1. /\ st.phase = "sent" /\ st.trajectory = trajectory /\ st.window = window
        /\ st.thinking = thinking /\ st.act = act /\ st.request = request
    BY <1>1, <1>3 DEF Tied
  <2>2. QED
    BY <1>1, <2>1 DEF Ready
<1>4. QED
  BY <1>1, <1>2, <1>3, RetryHistory

\* What a completion that is no action leads to is read off the completion.
LEMMA RejectHistory ==
  ASSUME CoreInv, HistoryInv, Reject
  PROVE  HistoryInv'
<1> DEFINE c == completion
<1>1. pc = "parse" /\ UNCHANGED <<cfg, window, rollouts>>
  BY RejectCases
<1>2. /\ TurnFor(c) \in Turns
      /\ (request.thinking = "off") \in BOOLEAN /\ (request.thinking = "off" \/ Toggleable) \in BOOLEAN
  BY DEF TurnFor, Turns
<1>3. ASSUME NEW st, Tied(st)
      PROVE  /\ st.phase = "told" /\ st.trajectory = trajectory /\ st.window = window
             /\ st.thinking = thinking /\ st.act = act /\ st.request = request /\ st.completion = c
             /\ Ready(st, Toggleable) = Parsed(st, Toggleable)
  <2>1. /\ st.phase = "told" /\ st.trajectory = trajectory /\ st.window = window
        /\ st.thinking = thinking /\ st.act = act /\ st.request = request /\ st.completion = c
    BY <1>1, <1>3 DEF Tied
  <2>2. QED
    BY <2>1 DEF Ready
<1>4. CASE RejectShort(c)
  <2>1. ~c.length /\ Retry(TurnFor(c), request.thinking = "off") /\ UNCHANGED thinking
    BY <1>4 DEF RejectShort
  <2>2. ASSUME NEW st, Tied(st)
        PROVE  Ready(st, Toggleable) = Retrying(st, TurnFor(c), thinking', request.thinking = "off")
    BY <1>3, <2>1, <2>2 DEF Parsed
  <2>3. QED
    BY <1>1, <1>2, <1>3, <2>1, <2>2, RetryHistory
<1>5. CASE RejectOver(c)
  BY <1>1, <1>5, OverHistory DEF RejectOver
<1>6. CASE RejectPayload(c)
  <2>1. /\ c.length /\ c.kind = "invalid" /\ (thinking.off \/ ~Toggleable)
        /\ FailStep /\ UNCHANGED thinking
    BY <1>6 DEF RejectPayload
  <2>2. ASSUME NEW st, Tied(st)
        PROVE  Ready(st, Toggleable) = Failing(st, thinking')
    BY <1>3, <2>1, <2>2 DEF Parsed
  <2>3. QED
    BY <1>1, <1>3, <2>1, <2>2, FailHistory
<1>7. CASE RejectLong(c)
  <2>1. PICK cutoffs : /\ cutoffs = IF c.kind = "missing" THEN thinking.cutoffs + 1
                                                          ELSE thinking.cutoffs
                       /\ thinking' = [off |-> thinking.off \/ Toggleable, cutoffs |-> cutoffs]
    BY <1>7 DEF RejectLong
  <2>2. /\ c.length /\ ~(c.kind = "invalid" /\ (thinking.off \/ ~Toggleable))
        /\ Retry(TurnFor(c), request.thinking = "off" \/ Toggleable)
    BY <1>7 DEF RejectLong
  <2>3. ASSUME NEW st, Tied(st)
        PROVE  Ready(st, Toggleable)
                 = Retrying(st, TurnFor(c), thinking', request.thinking = "off" \/ Toggleable)
    BY <1>3, <2>1, <2>2, <2>3 DEF Parsed
  <2>4. QED
    BY <1>1, <1>2, <1>3, <2>2, <2>3, RetryHistory
<1>8. QED
  BY <1>4, <1>5, <1>6, <1>7, RejectCases

\* HistoryInv is inductive.
LEMMA HistoryStep == CoreInv /\ HistoryInv /\ [Next]_vars => HistoryInv'
<1> SUFFICES ASSUME CoreInv, HistoryInv, [Next]_vars PROVE HistoryInv'
  OBVIOUS
<1>1. CASE StartRollout
  BY <1>1, StartHistory
<1>2. CASE EndRollout \/ Outage
  BY <1>2, OverHistory DEF EndRollout, Outage
<1>3. CASE BeginAct
  BY <1>3, BeginHistory
<1>4. CASE \E size \in Sizes : Observe(size)
  BY <1>4, ObserveHistory
<1>5. CASE Hit
  <2>1. PICK row \in Rows(request) : Return(row.completion)
    BY <1>5 DEF Hit
  <2>2. UNCHANGED <<provider, cfg, trajectory, thinking, act, request, rollouts>> /\ Sent
    BY <1>5 DEF Hit, Sent
  <2>3. row.completion \in Completion
    BY <2>2, RowsAreOwn, CompletionsTyped DEF Own
  <2>4. QED
    BY <2>1, <2>2, <2>3, ReturnHistory
<1>6. CASE Miss
  BY <1>6, MissHistory
<1>7. CASE Answer
  <2>1. PICK reply \in Decoded(request) :
          \E c \in Completions(reply, cfg.revision, Budgeted(request)) : Return(c)
    BY <1>7 DEF Answer
  <2>2. PICK c \in Completions(reply, cfg.revision, Budgeted(request)) : Return(c)
    BY <2>1
  <2>3. UNCHANGED <<cfg, trajectory, thinking, act, request, rollouts>> /\ Sent
    BY <1>7 DEF Answer, Sent
  <2>4. c \in Completion
    BY CompletionsTyped
  <2>5. QED
    BY <2>2, <2>3, <2>4, ReturnHistory
<1>8. CASE Overflow
  BY <1>8, OverflowHistory
<1>9. CASE Rejected
  BY <1>9, RejectedHistory
<1>10. CASE Reject
  BY <1>10, RejectHistory
<1>11. CASE UNCHANGED vars
  <2>1. UNCHANGED <<cfg, pc, trajectory, window, thinking, act, request, completion, rollouts,
                    log, past>>
    BY <1>11 DEF vars, agent
  <2>2. \A st : Tied(st) => Tied(st)'
    BY <2>1 DEF Tied, Toggleable
  <2>3. QED
    BY <2>1, <2>2, Unheard
<1>12. QED
  BY <1>1, <1>2, <1>3, <1>4, <1>5, <1>6, <1>7, <1>8, <1>9, <1>10, <1>11 DEF Next

\* Along logs that agree, the same is known.
LEMMA SameLogSameKnown ==
  ASSUME NEW l \in Seq(Entry), NEW m \in Seq(Entry), NEW toggle, NEW sigma, NEW tau,
         Follows(l, sigma, toggle), Follows(m, tau, toggle),
         NEW n \in Nat, n <= Len(l), n <= Len(m), \A k \in 1..n : l[k] = m[k]
  PROVE  \A k \in 0..n : sigma[k] = tau[k]
<1> DEFINE T == {k \in 0..n : sigma[k] # tau[k]}
<1> SUFFICES ASSUME T # {} PROVE FALSE
  OBVIOUS
<1>1. PICK k \in T : \A j \in T : k <= j
  <2>1. T \subseteq Nat
    OBVIOUS
  <2>2. QED
    BY <2>1, LeastExists
<1>2. k # 0
  BY DEF Follows
<1>3. k \in 1..n /\ k - 1 \in 0..n /\ k - 1 \notin T
  BY <1>1, <1>2
<1>4. sigma[k - 1] = tau[k - 1] /\ l[k] = m[k]
  BY <1>3
<1>5. k \in 1..Len(l) /\ k \in 1..Len(m)
  BY <1>3
<1>6. sigma[k] = After(sigma[k - 1], l[k], toggle) /\ tau[k] = After(tau[k - 1], m[k], toggle)
  BY <1>5 DEF Follows
<1>7. QED
  BY <1>4, <1>6

\* Two rollouts of a config that have been told and shown the same ask the same next, whatever
\* ran in between, was cached, rejected, cut or failed: no state of the policy outlives reset.
THEOREM HistorySafe == Spec => []SameHistorySameRequest
<1>1. Init => HistoryInv
  <2> SUFFICES ASSUME Init PROVE HistoryInv
    OBVIOUS
  <2>1. log = <<>> /\ past = {} /\ rollouts = 0
    BY DEF Init
  <2>2. QED
    BY <2>1, EmptyFollows DEF HistoryInv, Kept
<1>2. HistoryInv => SameHistorySameRequest
  <2> SUFFICES ASSUME HistoryInv, NEW p \in past, NEW k \in Requests(p) \cap Requests(log),
                      SameUntil(p, log, k)
               PROVE  p[k] = log[k]
    BY DEF SameHistorySameRequest
  <2>1. p \in Seq(Entry) /\ log \in Seq(Entry)
    BY DEF HistoryInv
  <2>2. PICK sigma : Follows(p, sigma, Toggleable)
    BY DEF HistoryInv
  <2>3. PICK tau : Follows(log, tau, Toggleable)
    BY DEF HistoryInv
  <2>4. k \in 1..Len(p) /\ k \in 1..Len(log) /\ p[k].what = "request" /\ log[k].what = "request"
    BY <2>1 DEF Requests
  <2>5. k - 1 \in Nat /\ k - 1 <= Len(p) /\ k - 1 <= Len(log)
    BY <2>1, <2>4
  <2>6. ASSUME NEW j \in 1..(k - 1)
        PROVE  p[j] = log[j]
    <3>1. /\ SubSeq(p, 1, k - 1) = [i \in 1..(k - 1) |-> p[i]]
          /\ SubSeq(log, 1, k - 1) = [i \in 1..(k - 1) |-> log[i]]
      <4>1. \A s : SubSeq(s, 1, k - 1) = [i \in 1..((k - 1) - 1 + 1) |-> s[1 + i - 1]]
        BY <2>5
      <4>2. (k - 1) - 1 + 1 = k - 1 /\ \A i \in 1..(k - 1) : 1 + i - 1 = i
        BY <2>5
      <4>3. QED
        BY <4>1, <4>2
    <3>2. [i \in 1..(k - 1) |-> p[i]] = [i \in 1..(k - 1) |-> log[i]]
      BY <3>1 DEF SameUntil
    <3>3. [i \in 1..(k - 1) |-> p[i]][j] = [i \in 1..(k - 1) |-> log[i]][j]
      BY <3>2
    <3>4. QED
      BY <3>3
  <2>7. sigma[k - 1] = tau[k - 1]
    <3>1. \A j \in 0..(k - 1) : sigma[j] = tau[j]
      BY <2>1, <2>2, <2>3, <2>5, <2>6, SameLogSameKnown
    <3>2. QED
      BY <2>5, <3>1
  <2>8. /\ p[k] = Said("request", Asks(sigma[k - 1], Toggleable))
        /\ log[k] = Said("request", Asks(tau[k - 1], Toggleable))
    BY <2>2, <2>3, <2>4 DEF Follows
  <2>9. QED
    BY <2>7, <2>8
<1>3. QED
  BY <1>1, <1>2, HistoryStep, CoreInvariant, PTL DEF Spec
=============================================================================
