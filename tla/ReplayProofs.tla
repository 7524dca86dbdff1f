--------------------------- MODULE ReplayProofs ---------------------------
(***************************************************************************)
(* Certified replay for every set of commands, any number of steps,        *)
(* rollouts, bumps and failing store operations: what a live rollout has   *)
(* seen, what a replayed one was shown, what may drift and what an         *)
(* inherited certificate covers.                                           *)
(***************************************************************************)
EXTENDS Replay, SequenceTheorems, TLAPS

-----------------------------------------------------------------------------
(* The inductive invariant.                                                *)

Attempt ==
  [pc: {"none", "ready", "catchup", "execute", "put"}, replay: BOOLEAN,
   epoch: Epochs \cup {Unpinned}, asked: Seq(Actions), seen: Seq(Event),
   world: Seq(Event), live: BOOLEAN, recordable: BOOLEAN]

StoreRow == [key: Key, out: Output]

World == [epoch: Epochs, events: Seq(Event)]

\* Only a chain that timed out has a row without an output.
Chain ==
  {c \in [events: Seq(Row), timedOut: BOOLEAN, regime: Epochs \cup {Unpinned},
          recorded: BOOLEAN] :
     c.timedOut \/ c.events \in Seq(Event)}

\* The verdicts of an audit.
Audited == {"deterministic", "forked"}

Prior ==
  {p \in [verdict: {"none", "no_chain"} \cup Audited, inherited: BOOLEAN,
          identity: Epochs \cup {Unpinned}, events: Seq(Row), audited: Seq(Row),
          recorded: BOOLEAN] :
     p.verdict \in Audited => p.events \in Seq(Event) /\ p.audited \in Seq(Event)}

RunPc == {"idle", "rollout", "ended", "failed"}

Run ==
  [pc: RunPc, no: 0..MaxRuns, identity: Epochs,
   driftRetried: BOOLEAN, slowRetried: BOOLEAN, drifts: 0..1]

Counted ==
  epoch \in Nat /\ faults \in Nat /\ slow \in Nat /\ epoch + faults + slow <= MaxTroubles

Types ==
  /\ content \in BOOLEAN /\ Counted
  /\ store \subseteq StoreRow /\ blocked \subseteq Key /\ worlds \subseteq World
  /\ run \in Run /\ at \in Attempt /\ chain \in Chain /\ prior \in Prior

\* A drift ends the replaying of a rollout.
RunInv ==
  /\ run.driftRetried <=> run.drifts = 1
  /\ at.replay => ~run.driftRetried

\* An action has been asked that the policy has not seen the result of.
Working == {"catchup", "execute", "put"}

\* The flags of the executor.
FlagsInv ==
  /\ at.replay <=> at.epoch \in Epochs
  /\ at.recordable => at.replay
  /\ at.pc = "none" => at.seen = <<>> /\ ~at.live /\ ~at.replay
  /\ at.pc \in Working => at.live
  /\ at.pc = "catchup" \/ (at.pc = "ready" /\ ~at.live) => at.replay
  /\ at.pc = "put" => at.recordable

\* An action is asked, then its environment shows its result, then the policy sees it; a
\* replayed one is seen first, and shown during the catch-up.
TraceInv ==
  /\ at.pc \in Working => Len(at.asked) = Len(at.seen) + 1
  /\ at.pc \notin Working => Len(at.asked) = Len(at.seen)
  /\ \A i \in 1..Len(at.seen) : at.asked[i] = at.seen[i].act
  /\ ~at.live => at.world = <<>>
  /\ at.live /\ at.pc \in {"ready", "execute"} => at.seen = at.world
  /\ at.pc = "catchup" => /\ Len(at.world) <= Len(at.seen)
                          /\ \A i \in 1..Len(at.world) : at.world[i] = at.seen[i]
  /\ at.pc = "put" => /\ Len(at.world) = Len(at.asked)
                      /\ at.world[Len(at.world)].act = at.asked[Len(at.asked)]
                      /\ \A i \in 1..Len(at.seen) : at.world[i] = at.seen[i]

\* First write wins.
Functional(S) == \A row, other \in S : row.key = other.key => row = other

\* The key of the first n of some actions.
KeyOf(e, acts, n) == [epoch |-> e, acts |-> SubSeq(acts, 1, n)]

\* Every event of a trace is recorded, under the actions up to it.
Stands(S, e, events) ==
  \A i \in 1..Len(events) :
    [key |-> KeyOf(e, Acts(events), i), out |-> events[i].out] \in S

\* All the attempt has seen so far comes from the store.
Replayed == ~at.live \/ at.pc = "catchup"

\* What was replayed stands in the store, and so does what a recording rollout saw.
SeenInv == Replayed \/ at.recordable => Stands(store, at.epoch, at.seen)

\* Nothing that drifted has been replayed.
MarkersInv ==
  /\ drifted \subseteq blocked
  /\ Replayed => \A i \in 1..Len(at.seen) : KeyOf(at.epoch, at.asked, i) \notin blocked

\* No recording of that scope goes on from these n actions, or begins with longer ones.
Untrodden(S, e, acts, n) ==
  \A row \in S : ~ /\ row.key.epoch = e
                   /\ Len(row.key.acts) > n
                   /\ Len(row.key.acts) >= Len(acts)
                   /\ \A i \in 1..Len(acts) : row.key.acts[i] = acts[i]

\* A rollout that records walks where no recording leads.
FreshInv == at.live /\ at.recordable => Untrodden(store, at.epoch, at.asked, Len(at.seen))

NoGaps(S) ==
  \A row \in S : \A n \in 1..Len(row.key.acts) :
    \E other \in S : other.key = KeyOf(row.key.epoch, row.key.acts, n)

\* One environment showed all of a recorded chain.
ShownBy(S, w, row) ==
  /\ w.epoch = row.key.epoch /\ Len(row.key.acts) <= Len(w.events)
  /\ \A i \in 1..Len(row.key.acts) :
       /\ w.events[i].act = row.key.acts[i]
       /\ [key |-> KeyOf(w.epoch, row.key.acts, i), out |-> w.events[i].out] \in S

Backed(S, W) == \A row \in S : \E w \in W : ShownBy(S, w, row)

BackedInv == Backed(store, worlds \cup {Own})

ChainInv ==
  chain.recorded /\ ~chain.timedOut => Stands(store, chain.regime, chain.events)

PriorInv ==
  prior.recorded /\ prior.verdict \in Audited =>
    /\ Stands(store, prior.identity, prior.events)
    /\ prior.audited = prior.events

\* What holds as long as no store operation failed or landed after its attempt.
Honest ==
  /\ SeenInv /\ MarkersInv /\ FreshInv /\ NoGaps(store) /\ BackedInv /\ ChainInv /\ PriorInv

IInv ==
  /\ Types /\ RunInv /\ FlagsInv /\ TraceInv /\ Functional(store)
  /\ faults = 0 => Honest

\* What a thread may still insert is a row as an attempt made it.
LateInv == late \subseteq StoreRow

-----------------------------------------------------------------------------
(* Sequences.                                                              *)

LEMMA FirstOf ==
  ASSUME NEW S, NEW s \in Seq(S), NEW n \in 0..Len(s)
  PROVE  /\ SubSeq(s, 1, n) \in Seq(S) /\ Len(SubSeq(s, 1, n)) = n
         /\ \A i \in 1..n : SubSeq(s, 1, n)[i] = s[i]
<1>1. Len(s) \in Nat /\ \A i \in 1..Len(s) : s[i] \in S
  BY LenProperties, ElementOfSeq
<1>2. n \in Nat /\ n <= Len(s) /\ \A i \in 1..n : s[i] \in S
  BY <1>1
<1>3. n - 1 + 1 = n /\ \A i \in 1..n : 1 + i - 1 = i
  BY <1>2
<1>4. /\ SubSeq(s, 1, n) \in Seq(S)
      /\ Len(SubSeq(s, 1, n)) = IF 1 <= n THEN n - 1 + 1 ELSE 0
      /\ \A i \in 1..n - 1 + 1 : SubSeq(s, 1, n)[i] = s[1 + i - 1]
  BY <1>2, SubSeqProperties
<1>5. QED
  BY <1>2, <1>3, <1>4

\* The first n elements depend on nothing else.
LEMMA SameFirst ==
  ASSUME NEW S, NEW s \in Seq(S), NEW t \in Seq(S), NEW n \in Nat,
         n <= Len(s), n <= Len(t), \A i \in 1..n : s[i] = t[i]
  PROVE  SubSeq(s, 1, n) = SubSeq(t, 1, n)
<1>1. n \in 0..Len(s) /\ n \in 0..Len(t)
  BY LenProperties
<1>2. /\ SubSeq(s, 1, n) \in Seq(S) /\ Len(SubSeq(s, 1, n)) = n
      /\ \A i \in 1..n : SubSeq(s, 1, n)[i] = s[i]
  BY <1>1, FirstOf
<1>3. /\ SubSeq(t, 1, n) \in Seq(S) /\ Len(SubSeq(t, 1, n)) = n
      /\ \A i \in 1..n : SubSeq(t, 1, n)[i] = t[i]
  BY <1>1, FirstOf
<1>4. \A i \in 1..Len(SubSeq(s, 1, n)) : SubSeq(s, 1, n)[i] = SubSeq(t, 1, n)[i]
  BY <1>2, <1>3
<1>5. QED
  BY <1>2, <1>3, <1>4, SeqEqual

LEMMA AllOf ==
  ASSUME NEW S, NEW s \in Seq(S), NEW t \in Seq(S),
         Len(s) <= Len(t), \A i \in 1..Len(s) : s[i] = t[i]
  PROVE  SubSeq(t, 1, Len(s)) = s
<1>1. Len(s) \in Nat /\ Len(t) \in Nat
  BY LenProperties
<1>2. Len(s) \in 0..Len(t)
  BY <1>1
<1>3. /\ SubSeq(t, 1, Len(s)) \in Seq(S) /\ Len(SubSeq(t, 1, Len(s))) = Len(s)
      /\ \A i \in 1..Len(s) : SubSeq(t, 1, Len(s))[i] = t[i]
  BY <1>2, FirstOf
<1>4. QED
  BY <1>3, SeqEqual

LEMMA IsPrefixIs ==
  ASSUME NEW S, NEW s \in Seq(S), NEW t \in Seq(S)
  PROVE  IsPrefix(s, t) <=> Len(s) <= Len(t) /\ \A i \in 1..Len(s) : s[i] = t[i]
<1>1. Len(s) \in Nat /\ Len(t) \in Nat
  BY LenProperties
<1>2. ASSUME Len(s) <= Len(t), \A i \in 1..Len(s) : s[i] = t[i]
      PROVE  SubSeq(s, 1, Len(s)) = SubSeq(t, 1, Len(s))
  BY <1>1, <1>2, SameFirst
<1>3. ASSUME Len(s) <= Len(t), SubSeq(s, 1, Len(s)) = SubSeq(t, 1, Len(s)), NEW i \in 1..Len(s)
      PROVE  s[i] = t[i]
  <2>1. Len(s) \in 0..Len(s) /\ Len(s) \in 0..Len(t)
    BY <1>1, <1>3
  <2>2. SubSeq(s, 1, Len(s))[i] = s[i]
    BY <2>1, FirstOf
  <2>3. SubSeq(t, 1, Len(s))[i] = t[i]
    BY <2>1, FirstOf
  <2>4. QED
    BY <1>3, <2>2, <2>3
<1>4. QED
  BY <1>2, <1>3 DEF IsPrefix

LEMMA AppendIs ==
  ASSUME NEW S, NEW s \in Seq(S), NEW x \in S
  PROVE  /\ Append(s, x) \in Seq(S) /\ Len(Append(s, x)) = Len(s) + 1
         /\ Len(s) \in Nat /\ Append(s, x)[Len(s) + 1] = x
         /\ \A i \in 1..Len(s) : Append(s, x)[i] = s[i]
BY AppendProperties, LenProperties

LEMMA ActsIs ==
  ASSUME NEW events \in Seq(Event)
  PROVE  /\ Acts(events) \in Seq(Actions) /\ Len(Acts(events)) = Len(events)
         /\ \A i \in 1..Len(events) : Acts(events)[i] = events[i].act
<1>1. Len(events) \in Nat /\ DOMAIN events = 1..Len(events)
  BY LenProperties
<1>2. \A i \in 1..Len(events) : events[i] \in Event
  BY ElementOfSeq
<1>3. \A i \in 1..Len(events) : events[i].act \in Actions
  BY <1>2 DEF Event
<1>4. Acts(events) \in [1..Len(events) -> Actions]
  BY <1>1, <1>3 DEF Acts
<1>5. QED
  BY <1>1, <1>4 DEF Acts

-----------------------------------------------------------------------------
(* Traces and the rows that stand for them.                                *)

LEMMA EventIs ==
  ASSUME NEW events \in Seq(Event), NEW i \in 1..Len(events)
  PROVE  /\ events[i] \in Event /\ events[i].act \in Actions /\ events[i].out \in Output
         /\ events[i] = [act |-> events[i].act, out |-> events[i].out]
<1>1. events[i] \in Event
  BY ElementOfSeq
<1>2. QED
  BY <1>1 DEF Event

\* The keys of a trace are those of the actions that were asked.
LEMMA KeysAgree ==
  ASSUME NEW events \in Seq(Event), NEW acts \in Seq(Actions), NEW e, Len(events) <= Len(acts),
         \A i \in 1..Len(events) : acts[i] = events[i].act
  PROVE  \A n \in 1..Len(events) : KeyOf(e, Acts(events), n) = KeyOf(e, acts, n)
<1> SUFFICES ASSUME NEW n \in 1..Len(events)
             PROVE  SubSeq(Acts(events), 1, n) = SubSeq(acts, 1, n)
  BY DEF KeyOf
<1>1. /\ Acts(events) \in Seq(Actions) /\ Len(Acts(events)) = Len(events)
      /\ \A i \in 1..Len(events) : Acts(events)[i] = events[i].act
  BY ActsIs
<1>2. Len(events) \in Nat /\ Len(acts) \in Nat
  BY LenProperties
<1>3. n \in Nat /\ n <= Len(Acts(events)) /\ n <= Len(acts)
  BY <1>1, <1>2
<1>4. \A i \in 1..n : Acts(events)[i] = acts[i]
  BY <1>1, <1>2
<1>5. QED
  BY <1>1, <1>3, <1>4, SameFirst

LEMMA KeyOfAll ==
  ASSUME NEW acts \in Seq(Actions), NEW e
  PROVE  KeyOf(e, acts, Len(acts)) = [epoch |-> e, acts |-> acts]
<1>1. SubSeq(acts, 1, Len(acts)) = acts
  BY LenProperties, AllOf
<1>2. QED
  BY <1>1 DEF KeyOf

LEMMA KeyOfSame ==
  ASSUME NEW s \in Seq(Actions), NEW t \in Seq(Actions), NEW e, NEW n \in Nat,
         n <= Len(s), n <= Len(t), \A i \in 1..n : s[i] = t[i]
  PROVE  KeyOf(e, s, n) = KeyOf(e, t, n)
BY SameFirst DEF KeyOf

LEMMA StandsGrows ==
  ASSUME NEW S, NEW T, S \subseteq T, NEW e, NEW events, Stands(S, e, events)
  PROVE  Stands(T, e, events)
BY DEF Stands

LEMMA StandsAppends ==
  ASSUME NEW S, NEW e, NEW s \in Seq(Event), NEW x \in Event, NEW acts \in Seq(Actions),
         Len(acts) = Len(s) + 1, \A i \in 1..Len(s) : acts[i] = s[i].act,
         acts[Len(s) + 1] = x.act, Stands(S, e, s),
         [key |-> [epoch |-> e, acts |-> acts], out |-> x.out] \in S
  PROVE  Stands(S, e, Append(s, x))
<1>1. PICK t : t = Append(s, x)
  OBVIOUS
<1>2. PICK n \in Nat : n = Len(s)
  BY LenProperties
<1>3. /\ t \in Seq(Event) /\ Len(t) = n + 1 /\ t[n + 1] = x
      /\ \A i \in 1..n : t[i] = s[i]
  BY <1>1, <1>2, AppendIs
<1>4. \A i \in 1..n + 1 : i \in 1..n \/ i = n + 1
  BY <1>2
<1>5. \A i \in 1..Len(t) : acts[i] = t[i].act
  BY <1>2, <1>3, <1>4
<1>6. \A i \in 1..n + 1 : KeyOf(e, Acts(t), i) = KeyOf(e, acts, i)
  BY <1>2, <1>3, <1>5, KeysAgree
<1>7. \A i \in 1..n : KeyOf(e, Acts(s), i) = KeyOf(e, acts, i)
  BY <1>2, KeysAgree
<1>8. KeyOf(e, acts, n + 1) = [epoch |-> e, acts |-> acts]
  BY <1>2, KeyOfAll
<1>9. ASSUME NEW i \in 1..n + 1
      PROVE  [key |-> KeyOf(e, Acts(t), i), out |-> t[i].out] \in S
  <2>1. CASE i \in 1..n
    BY <1>2, <1>3, <1>6, <1>7, <2>1 DEF Stands
  <2>2. CASE i = n + 1
    BY <1>3, <1>6, <1>8, <2>2
  <2>3. QED
    BY <1>4, <2>1, <2>2
<1>10. QED
  BY <1>1, <1>3, <1>9 DEF Stands

\* The same actions, both recorded, had the same results.
LEMMA StandsOnce ==
  ASSUME NEW S, Functional(S), NEW e, NEW s \in Seq(Event), NEW t \in Seq(Event),
         Acts(s) = Acts(t), Stands(S, e, s), Stands(S, e, t)
  PROVE  s = t
<1>1. Len(s) = Len(t) /\ \A i \in 1..Len(s) : s[i].act = t[i].act
  BY ActsIs
<1>2. ASSUME NEW i \in 1..Len(s)
      PROVE  s[i] = t[i]
  <2>1. PICK k : k = KeyOf(e, Acts(s), i)
    OBVIOUS
  <2>2. [key |-> k, out |-> s[i].out] \in S /\ [key |-> k, out |-> t[i].out] \in S
    BY <1>1, <2>1 DEF Stands
  <2>3. PICK r, q : r = [key |-> k, out |-> s[i].out] /\ q = [key |-> k, out |-> t[i].out]
    OBVIOUS
  <2>4. r = q
    BY <2>2, <2>3 DEF Functional
  <2>5. s[i].out = t[i].out
    BY <2>3, <2>4
  <2>6. /\ s[i] = [act |-> s[i].act, out |-> s[i].out]
        /\ t[i] = [act |-> t[i].act, out |-> t[i].out]
    BY <1>1, EventIs
  <2>7. QED
    BY <1>1, <2>5, <2>6
<1>3. QED
  BY <1>1, <1>2, SeqEqual

LEMMA CoversIs ==
  ASSUME NEW v, NEW w, v.events \in Seq(Event), w.events \in Seq(Event)
  PROVE  Covers(v, w) <=> /\ v.epoch = w.epoch /\ Len(w.events) <= Len(v.events)
                          /\ \A i \in 1..Len(w.events) : w.events[i] = v.events[i]
BY IsPrefixIs DEF Covers

\* A longer trace of the same scope shows all that a shorter one shows.
LEMMA ShownByLonger ==
  ASSUME NEW S \in SUBSET StoreRow, NEW v, NEW w, v.events \in Seq(Event), w.events \in Seq(Event),
         Covers(v, w), NEW row \in S, ShownBy(S, w, row)
  PROVE  ShownBy(S, v, row)
<1>1. PICK n : n = Len(row.key.acts)
  OBVIOUS
<1>2. n \in Nat /\ Len(w.events) \in Nat /\ Len(v.events) \in Nat
  <2>1. row.key.acts \in Seq(Actions)
    BY DEF StoreRow, Key
  <2>2. QED
    BY <1>1, <2>1, LenProperties
<1>3. /\ v.epoch = w.epoch /\ Len(w.events) <= Len(v.events)
      /\ \A i \in 1..Len(w.events) : w.events[i] = v.events[i]
  BY CoversIs
<1>4. /\ w.epoch = row.key.epoch /\ n <= Len(w.events)
      /\ \A i \in 1..n : /\ w.events[i].act = row.key.acts[i]
                         /\ [key |-> KeyOf(w.epoch, row.key.acts, i), out |-> w.events[i].out] \in S
  BY <1>1 DEF ShownBy
<1>5. \A i \in 1..n : i \in 1..Len(w.events)
  BY <1>2, <1>4
<1>6. n <= Len(v.events)
  BY <1>2, <1>3, <1>4
<1>7. QED
  BY <1>1, <1>3, <1>4, <1>5, <1>6 DEF ShownBy

LEMMA BackedBy ==
  ASSUME NEW S \in SUBSET StoreRow, NEW V, NEW W, Backed(S, W),
         \A v \in V : v.events \in Seq(Event), \A w \in W : w.events \in Seq(Event),
         \A w \in W : w.epoch \in Epochs => \E v \in V : Covers(v, w)
  PROVE  Backed(S, V)
<1> SUFFICES ASSUME NEW row \in S PROVE \E v \in V : ShownBy(S, v, row)
  BY DEF Backed
<1>1. PICK w \in W : ShownBy(S, w, row)
  BY DEF Backed
<1>2. w.epoch \in Epochs
  <2>1. row.key.epoch \in Epochs
    BY DEF StoreRow, Key
  <2>2. QED
    BY <1>1, <2>1 DEF ShownBy
<1>3. PICK v \in V : Covers(v, w)
  BY <1>2
<1>4. QED
  BY <1>1, <1>3, ShownByLonger

-----------------------------------------------------------------------------
(* Recording a step.                                                       *)

LEMMA InsertedIs ==
  ASSUME store \in SUBSET StoreRow, Functional(store), NEW key \in Key, NEW out \in Output
  PROVE  /\ Inserted(key, out) \in SUBSET StoreRow /\ Functional(Inserted(key, out))
         /\ store \subseteq Inserted(key, out)
<1>1. CASE Stored(key)
  BY <1>1 DEF Inserted
<1>2. CASE ~Stored(key)
  <2>1. PICK row : row = [key |-> key, out |-> out]
    OBVIOUS
  <2>2. Inserted(key, out) = store \cup {row} /\ row.key = key
    BY <1>2, <2>1 DEF Inserted
  <2>3. row \in StoreRow
    BY <2>1 DEF StoreRow
  <2>4. \A other \in store : other.key # key
    BY <1>2 DEF Stored
  <2>5. Functional(store \cup {row})
    BY <2>2, <2>4 DEF Functional
  <2>6. QED
    BY <2>2, <2>3, <2>5
<1>3. QED
  BY <1>1, <1>2

\* The fields of the attempt.
LEMMA AttemptIs ==
  ASSUME Types
  PROVE  /\ at.asked \in Seq(Actions) /\ at.seen \in Seq(Event) /\ at.world \in Seq(Event)
         /\ Len(at.asked) \in Nat /\ Len(at.seen) \in Nat /\ Len(at.world) \in Nat
         /\ at.epoch \in Epochs \cup {Unpinned} /\ at.live \in BOOLEAN /\ at.replay \in BOOLEAN
         /\ at.recordable \in BOOLEAN /\ at.pc \in {"none", "ready"} \cup Working
         /\ Own.epoch = at.epoch /\ Own.events = at.world
<1>1. /\ at.asked \in Seq(Actions) /\ at.seen \in Seq(Event) /\ at.world \in Seq(Event)
      /\ at.epoch \in Epochs \cup {Unpinned} /\ at.live \in BOOLEAN /\ at.replay \in BOOLEAN
      /\ at.recordable \in BOOLEAN /\ at.pc \in {"none", "ready"} \cup Working
  BY DEF Types, Attempt, Working
<1>2. QED
  BY <1>1, LenProperties DEF Own

LEMMA PutRow ==
  ASSUME Types, FlagsInv, TraceInv, at.pc = "put"
  PROVE  /\ KeyNow = [epoch |-> at.epoch, acts |-> at.asked] /\ KeyNow \in Key
         /\ Last(at.world) \in Event /\ Last(at.world).out \in Output
         /\ Last(at.world) = at.world[Len(at.seen) + 1]
         /\ at.world = Append(at.seen, Last(at.world))
         /\ Len(at.world) = Len(at.seen) + 1 /\ Len(at.asked) = Len(at.seen) + 1
         /\ at.asked[Len(at.seen) + 1] = Last(at.world).act
<1>1. KeyNow = [epoch |-> at.epoch, acts |-> at.asked]
  BY DEF KeyNow, Scoped
<1>2. at.epoch \in Epochs
  BY DEF FlagsInv
<1>3. KeyNow \in Key
  BY <1>1, <1>2, AttemptIs DEF Key
<1>4. Len(at.world) = Len(at.seen) + 1 /\ Len(at.asked) = Len(at.seen) + 1
  BY DEF TraceInv, Working
<1>5. Last(at.world) = at.world[Len(at.seen) + 1] /\ Len(at.seen) + 1 \in 1..Len(at.world)
  BY <1>4, AttemptIs DEF Last
<1>6. Last(at.world) \in Event /\ Last(at.world).out \in Output
  BY <1>5, AttemptIs, EventIs
<1>7. at.world = Append(at.seen, Last(at.world))
  <2>1. PICK t : t = Append(at.seen, Last(at.world))
    OBVIOUS
  <2>2. /\ t \in Seq(Event) /\ Len(t) = Len(at.seen) + 1 /\ t[Len(at.seen) + 1] = Last(at.world)
        /\ \A i \in 1..Len(at.seen) : t[i] = at.seen[i]
    BY <1>6, <2>1, AttemptIs, AppendIs
  <2>3. \A i \in 1..Len(at.world) : i \in 1..Len(at.seen) \/ i = Len(at.seen) + 1
    BY <1>4, AttemptIs
  <2>4. \A i \in 1..Len(at.world) : at.world[i] = t[i]
    BY <1>5, <2>2, <2>3 DEF TraceInv
  <2>5. QED
    BY <1>4, <2>1, <2>2, <2>4, AttemptIs, SeqEqual
<1>8. at.asked[Len(at.seen) + 1] = Last(at.world).act
  BY <1>4, <1>5 DEF TraceInv
<1>9. QED
  BY <1>1, <1>3, <1>4, <1>5, <1>6, <1>7, <1>8

\* A step is recorded behind a recorded chain, where nothing was, as its environment showed it.
LEMMA PutIs ==
  ASSUME IInv, Honest, at.pc = "put", NEW T, T = Inserted(KeyNow, Last(at.world).out)
  PROVE  /\ NoGaps(T) /\ Backed(T, worlds \cup {Own}) /\ Stands(T, at.epoch, at.world)
         /\ \A row \in T : row \in store \/ row.key = KeyNow
<1> USE DEF IInv
<1>1. PICK n \in Nat, e \in Epochs, asked \in Seq(Actions), world \in Seq(Event),
           seen \in Seq(Event), last \in Event :
        /\ n = Len(seen) /\ e = at.epoch /\ asked = at.asked /\ world = at.world /\ seen = at.seen
        /\ last = Last(at.world)
  BY AttemptIs, PutRow DEF FlagsInv
<1>2. /\ KeyNow = [epoch |-> e, acts |-> asked] /\ world = Append(seen, last)
      /\ Len(world) = n + 1 /\ Len(asked) = n + 1 /\ asked[n + 1] = last.act /\ world[n + 1] = last
  BY <1>1, PutRow
<1>3. at.live /\ at.recordable
  BY DEF FlagsInv, Working
<1>4. ~Stored(KeyNow)
  <2> SUFFICES ASSUME NEW row \in store, row.key = KeyNow PROVE FALSE
    BY DEF Stored
  <2>1. row.key.epoch = e /\ row.key.acts = asked
    BY <1>2
  <2>2. Untrodden(store, e, asked, n)
    BY <1>1, <1>3 DEF Honest, FreshInv
  <2>3. QED
    BY <1>2, <2>1, <2>2 DEF Untrodden
<1>5. PICK new : new = [key |-> KeyNow, out |-> last.out]
  OBVIOUS
<1>6. T = store \cup {new} /\ new.key = KeyNow
  BY <1>1, <1>4, <1>5 DEF Inserted
<1>7. \A i \in 1..n : asked[i] = seen[i].act
  BY <1>1 DEF TraceInv
<1>8. Stands(T, e, world)
  <2>1. Stands(store, e, seen)
    BY <1>1, <1>3 DEF Honest, SeenInv
  <2>2. Stands(T, e, seen)
    BY <1>6, <2>1, StandsGrows
  <2>3. [key |-> [epoch |-> e, acts |-> asked], out |-> last.out] \in T
    BY <1>2, <1>5, <1>6
  <2>4. QED
    BY <1>1, <1>2, <1>7, <2>2, <2>3, StandsAppends
<1>9. \A i \in 1..n + 1 : world[i].act = asked[i]
  <2>1. \A i \in 1..n : world[i] = seen[i]
    BY <1>1 DEF TraceInv
  <2>2. \A i \in 1..n + 1 : i \in 1..n \/ i = n + 1
    OBVIOUS
  <2>3. QED
    BY <1>2, <1>7, <2>1, <2>2
<1>10. \A i \in 1..n + 1 : [key |-> KeyOf(e, asked, i), out |-> world[i].out] \in T
  <2>1. Len(world) <= Len(asked) /\ \A i \in 1..Len(world) : asked[i] = world[i].act
    BY <1>2, <1>9
  <2>2. \A i \in 1..Len(world) : KeyOf(e, Acts(world), i) = KeyOf(e, asked, i)
    BY <2>1, KeysAgree
  <2>3. QED
    BY <1>2, <1>8, <2>2 DEF Stands
<1>11. new.key.epoch = e /\ new.key.acts = asked
  BY <1>2, <1>6
<1>12. NoGaps(T)
  <2> SUFFICES ASSUME NEW row \in T, NEW m \in 1..Len(row.key.acts)
               PROVE  \E other \in T : other.key = KeyOf(row.key.epoch, row.key.acts, m)
    BY DEF NoGaps
  <2>1. CASE row \in store
    BY <1>6, <2>1 DEF Honest, NoGaps
  <2>2. CASE row = new
    <3>1. PICK other : other = [key |-> KeyOf(e, asked, m), out |-> world[m].out]
      OBVIOUS
    <3>2. other \in T
      BY <1>2, <1>10, <1>11, <2>2, <3>1
    <3>3. other.key = KeyOf(e, asked, m)
      BY <3>1
    <3>4. QED
      BY <1>11, <2>2, <3>2, <3>3
  <2>3. QED
    BY <1>6, <2>1, <2>2
<1>13. Backed(T, worlds \cup {Own})
  <2>1. ASSUME NEW row \in store
        PROVE  \E w \in worlds \cup {Own} : ShownBy(T, w, row)
    <3>1. PICK w \in worlds \cup {Own} : ShownBy(store, w, row)
      BY DEF Honest, BackedInv, Backed
    <3>2. ShownBy(T, w, row)
      BY <1>6, <3>1 DEF ShownBy
    <3>3. QED
      BY <3>2
  <2>2. ShownBy(T, Own, new)
    <3>1. Own.epoch = e /\ Own.events = world
      BY <1>1, AttemptIs
    <3>2. QED
      BY <1>2, <1>9, <1>10, <1>11, <3>1 DEF ShownBy
  <2>3. QED
    BY <1>6, <2>1, <2>2 DEF Backed
<1>14. QED
  BY <1>1, <1>6, <1>8, <1>12, <1>13

-----------------------------------------------------------------------------
(* The end of an attempt.                                                  *)

LEMMA NoAttemptIs ==
  /\ NoAttempt \in Attempt /\ NoAttempt.pc = "none" /\ NoAttempt.replay = FALSE
  /\ NoAttempt.epoch = Unpinned /\ NoAttempt.asked = <<>> /\ NoAttempt.seen = <<>>
  /\ NoAttempt.world = <<>> /\ NoAttempt.live = FALSE /\ NoAttempt.recordable = FALSE
<1>1. <<>> \in Seq(Actions) /\ <<>> \in Seq(Event)
  BY EmptySeq
<1>2. QED
  BY <1>1 DEF NoAttempt, Attempt

LEMMA UnpinnedIs == Unpinned \notin Epochs
BY ReplayAssumption DEF Unpinned, Epochs

LEMMA NoAttemptOk ==
  ASSUME at' = NoAttempt
  PROVE  FlagsInv' /\ TraceInv'
<1>1. Len(<<>>) = 0
  OBVIOUS
<1>2. QED
  BY <1>1, NoAttemptIs, UnpinnedIs DEF FlagsInv, TraceInv, Working

LEMMA EventsAreRows ==
  ASSUME NEW events \in Seq(Event)
  PROVE  events \in Seq(Row)
<1>1. Len(events) \in Nat /\ \A i \in 1..Len(events) : events[i] \in Event
  BY LenProperties, ElementOfSeq
<1>2. Event \subseteq Row
  BY DEF Event, Row
<1>3. QED
  BY <1>1, <1>2

\* The rows of an attempt: what was seen, and the action that was cut.
LEMMA RowsAre ==
  ASSUME Types, TraceInv, NEW timedOut \in BOOLEAN, timedOut => at.pc \in Working
  PROVE  Rows(timedOut) \in Seq(Row) /\ (~timedOut => Rows(timedOut) = at.seen)
<1>1. at.seen \in Seq(Row)
  BY AttemptIs, EventsAreRows
<1>2. ASSUME timedOut PROVE Rows(timedOut) \in Seq(Row)
  <2>1. Len(at.asked) \in 1..Len(at.asked)
    BY <1>2, AttemptIs DEF TraceInv
  <2>2. PICK a \in Actions : a = Last(at.asked)
    BY <2>1, AttemptIs, ElementOfSeq DEF Last
  <2>3. [act |-> a, out |-> Cut] \in Row
    BY DEF Row
  <2>4. Append(at.seen, [act |-> a, out |-> Cut]) \in Seq(Row)
    BY <1>1, <2>3, AppendIs
  <2>5. QED
    BY <1>2, <2>2, <2>4 DEF Rows
<1>3. QED
  BY <1>1, <1>2 DEF Rows

\* What the attempt leaves behind: its chain, and its environment among the worlds.
LEMMA EndedIs ==
  ASSUME Types, FlagsInv, TraceInv, NEW world \in Seq(Event), NEW timedOut \in BOOLEAN,
         EndAttempt(world, timedOut), timedOut => at.pc \in Working,
         Len(at.world) <= Len(world), \A i \in 1..Len(at.world) : at.world[i] = world[i]
  PROVE  /\ at' = NoAttempt /\ chain' \in Chain /\ worlds' \subseteq World
         /\ ~chain'.timedOut => chain'.events = at.seen
         /\ chain'.regime = at.epoch
         /\ chain'.recorded <=> at.recordable
         /\ \A w \in worlds \cup {Own} : w.epoch \in Epochs => \E v \in worlds' : Covers(v, w)
<1>1. PICK shown : shown = [epoch |-> at.epoch, events |-> world]
  OBVIOUS
<1>2. shown.epoch = at.epoch /\ shown.events = world
  BY <1>1
<1>3. /\ at' = NoAttempt
      /\ chain' = [events |-> Rows(timedOut), timedOut |-> timedOut, regime |-> at.epoch,
                   recorded |-> at.recordable]
      /\ worlds' = IF at.replay /\ ~Known(shown)
                   THEN {old \in worlds : ~Covers(shown, old)} \cup {shown}
                   ELSE worlds
  BY <1>1 DEF EndAttempt
<1>4. /\ chain' \in Chain /\ chain'.regime = at.epoch /\ (chain'.recorded <=> at.recordable)
      /\ ~chain'.timedOut => chain'.events = at.seen
  <2>1. PICK rows \in Seq(Row) : rows = Rows(timedOut) /\ (~timedOut => rows = at.seen)
    BY RowsAre
  <2>2. chain' = [events |-> rows, timedOut |-> timedOut, regime |-> at.epoch,
                  recorded |-> at.recordable]
    BY <1>3, <2>1
  <2>3. ~timedOut => rows \in Seq(Event)
    BY <2>1, AttemptIs
  <2>4. QED
    BY <2>1, <2>2, <2>3, AttemptIs DEF Chain
<1>5. worlds \subseteq World /\ \A w \in worlds : w.events \in Seq(Event)
  BY DEF Types, World
<1>6. worlds' \subseteq World
  <2>1. at.replay => shown \in World
    BY <1>1 DEF FlagsInv, World
  <2>2. QED
    BY <1>3, <1>5, <2>1
<1>7. \A w \in worlds : Covers(w, w)
  <2>1. SUFFICES ASSUME NEW w \in worlds PROVE Covers(w, w)
    OBVIOUS
  <2>2. Len(w.events) \in Nat
    BY <1>5, LenProperties
  <2>3. QED
    BY <1>5, <2>2, CoversIs
<1>8. Covers(shown, Own)
  <2>1. Own.epoch = at.epoch /\ Own.events = at.world /\ at.world \in Seq(Event)
    BY AttemptIs
  <2>2. QED
    BY <1>2, <2>1, CoversIs
<1>9. ASSUME NEW w \in worlds
      PROVE  \E v \in worlds' : Covers(v, w)
  BY <1>3, <1>7
<1>10. ASSUME Own.epoch \in Epochs
       PROVE  \E v \in worlds' : Covers(v, Own)
  <2>1. at.replay
    BY <1>10, AttemptIs DEF FlagsInv
  <2>2. CASE Known(shown)
    <3>1. PICK old \in worlds : Covers(old, shown)
      BY <2>2 DEF Known
    <3>2. Covers(old, Own)
      <4>1. /\ Own.events \in Seq(Event) /\ old.events \in Seq(Event)
            /\ Len(Own.events) \in Nat /\ Len(old.events) \in Nat /\ Len(world) \in Nat
        BY <1>5, AttemptIs, LenProperties
      <4>2. /\ old.epoch = shown.epoch /\ Len(world) <= Len(old.events)
            /\ \A i \in 1..Len(world) : world[i] = old.events[i]
        BY <1>2, <3>1, <4>1, CoversIs
      <4>3. /\ shown.epoch = Own.epoch /\ Len(Own.events) <= Len(world)
            /\ \A i \in 1..Len(Own.events) : Own.events[i] = world[i]
        BY <1>2, <1>8, <4>1, CoversIs
      <4>4. Len(Own.events) <= Len(old.events) /\ \A i \in 1..Len(Own.events) : i \in 1..Len(world)
        BY <4>1, <4>2, <4>3
      <4>5. QED
        BY <4>1, <4>2, <4>3, <4>4, CoversIs
    <3>3. QED
      BY <1>3, <2>2, <3>2
  <2>3. CASE ~Known(shown)
    BY <1>3, <1>8, <2>1, <2>3
  <2>4. QED
    BY <2>2, <2>3
<1>11. QED
  BY <1>3, <1>4, <1>6, <1>9, <1>10

LEMMA EndHonest ==
  ASSUME Types, FlagsInv, TraceInv, SeenInv, PriorInv, prior' = prior,
         store \subseteq store', store' \in SUBSET StoreRow, NoGaps(store'),
         Backed(store', worlds \cup {Own}), drifted' \subseteq blocked',
         NEW world \in Seq(Event), NEW timedOut \in BOOLEAN, EndAttempt(world, timedOut),
         timedOut => at.pc \in Working,
         Len(at.world) <= Len(world), \A i \in 1..Len(at.world) : at.world[i] = world[i]
  PROVE  Honest'
<1>1. /\ at' = NoAttempt /\ chain' \in Chain /\ worlds' \subseteq World
      /\ ~chain'.timedOut => chain'.events = at.seen
      /\ chain'.regime = at.epoch
      /\ chain'.recorded <=> at.recordable
      /\ \A w \in worlds \cup {Own} : w.epoch \in Epochs => \E v \in worlds' : Covers(v, w)
  BY EndedIs
<1>2. /\ at'.seen = <<>> /\ Len(at'.seen) = 0 /\ ~at'.live /\ at'.world = <<>>
  BY <1>1, NoAttemptIs
<1>3. SeenInv' /\ MarkersInv' /\ FreshInv'
  BY <1>2 DEF SeenInv, MarkersInv, FreshInv, Stands
<1>4. BackedInv'
  <2>1. Own'.events = <<>> /\ <<>> \in Seq(Event)
    BY <1>2, EmptySeq DEF Own
  <2>2. \A v \in worlds' \cup {Own'} : v.events \in Seq(Event)
    BY <1>1, <2>1 DEF World
  <2>3. \A w \in worlds \cup {Own} : w.events \in Seq(Event)
    BY AttemptIs DEF Types, World
  <2>4. Backed(store', worlds' \cup {Own'})
    BY <1>1, <2>2, <2>3, BackedBy
  <2>5. QED
    BY <2>4 DEF BackedInv
<1>5. ChainInv'
  <2>1. at.recordable => Stands(store', at.epoch, at.seen)
    BY StandsGrows DEF SeenInv
  <2>2. QED
    BY <1>1, <2>1 DEF ChainInv
<1>6. PriorInv'
  BY StandsGrows DEF PriorInv
<1>7. QED
  BY <1>3, <1>4, <1>5, <1>6 DEF Honest

LEMMA EndStep ==
  ASSUME IInv, content' = content, Counted', prior' = prior, blocked' \subseteq Key,
         run' \in Run, run'.driftRetried <=> run'.drifts = 1,
         store \subseteq store', store' \in SUBSET StoreRow, Functional(store'),
         faults' = 0 => /\ faults = 0 /\ NoGaps(store') /\ Backed(store', worlds \cup {Own})
                        /\ drifted' \subseteq blocked',
         NEW world \in Seq(Event), NEW timedOut \in BOOLEAN, EndAttempt(world, timedOut),
         timedOut => at.pc \in Working,
         Len(at.world) <= Len(world), \A i \in 1..Len(at.world) : at.world[i] = world[i]
  PROVE  IInv'
<1> USE DEF IInv
<1>1. at' = NoAttempt /\ chain' \in Chain /\ worlds' \subseteq World
  BY EndedIs
<1>2. FlagsInv' /\ TraceInv'
  BY <1>1, NoAttemptOk
<1>3. Types' /\ RunInv'
  BY <1>1, NoAttemptIs DEF Types, RunInv
<1>4. ASSUME faults' = 0 PROVE Honest'
  BY <1>4, EndHonest DEF Honest
<1>5. QED
  BY <1>2, <1>3, <1>4

LEMMA RunIs ==
  ASSUME run \in Run
  PROVE  /\ run.pc \in RunPc /\ run.no \in 0..MaxRuns
         /\ run.identity \in Epochs /\ run.driftRetried \in BOOLEAN
         /\ run.slowRetried \in BOOLEAN /\ run.drifts \in 0..1
BY DEF Run

\* The store, the markers and the history of drifts stay, the attempt ends as it is.
LEMMA PlainEnd ==
  ASSUME IInv, UNCHANGED <<content, prior, blocked, drifted, store>>, Counted',
         faults' = 0 => faults = 0,
         run' \in Run, run'.driftRetried <=> run'.drifts = 1,
         NEW timedOut \in BOOLEAN, EndAttempt(at.world, timedOut),
         timedOut => at.pc \in Working
  PROVE  IInv'
<1> USE DEF IInv
<1>1. PICK world \in Seq(Event) : world = at.world
  BY AttemptIs
<1>2. EndAttempt(world, timedOut)
  BY <1>1
<1>3. Len(at.world) <= Len(world) /\ \A i \in 1..Len(at.world) : at.world[i] = world[i]
  BY <1>1, AttemptIs
<1>4. store' \in SUBSET StoreRow /\ Functional(store') /\ store \subseteq store' /\ blocked' \subseteq Key
  BY DEF Types
<1>5. faults' = 0 => /\ faults = 0 /\ NoGaps(store') /\ Backed(store', worlds \cup {Own})
                     /\ drifted' \subseteq blocked'
  BY DEF Honest, BackedInv, MarkersInv
<1>6. QED
  BY <1>2, <1>3, <1>4, <1>5, EndStep

LEMMA EndedRun ==
  ASSUME run \in Run, NEW pc \in RunPc, run' = [run EXCEPT !.pc = pc]
  PROVE  run' \in Run /\ run'.driftRetried = run.driftRetried /\ run'.drifts = run.drifts
BY DEF Run

LEMMA StopStep ==
  ASSUME IInv, Stop
  PROVE  IInv'
<1>1. run' \in Run /\ run'.driftRetried = run.driftRetried /\ run'.drifts = run.drifts
  BY EndedRun DEF IInv, Types, Stop, RunPc
<1>2. /\ EndAttempt(at.world, FALSE)
      /\ UNCHANGED <<content, store, blocked, epoch, prior, faults, slow, drifted>>
  BY DEF Stop
<1>3. Counted'
  BY <1>2 DEF IInv, Types, Counted
<1>4. QED
  BY <1>1, <1>2, <1>3, PlainEnd DEF IInv, RunInv

\* The attempt ends with a put under way, which may have landed.
LEMMA CutStep ==
  ASSUME IInv, LeavesPut, UNCHANGED <<content, blocked, prior, faults, drifted>>, Counted',
         run' \in Run, run'.driftRetried = run.driftRetried, run'.drifts = run.drifts,
         NEW timedOut \in BOOLEAN, EndAttempt(at.world, timedOut),
         timedOut => at.pc \in Working
  PROVE  IInv'
<1> USE DEF IInv
<1>1. UNCHANGED store \/ (at.pc = "put" /\ store' = Inserted(KeyNow, Last(at.world).out))
  BY DEF LeavesPut
<1>2. CASE UNCHANGED store
  BY <1>2, PlainEnd DEF RunInv
<1>3. CASE at.pc = "put" /\ store' = Inserted(KeyNow, Last(at.world).out)
  <2>1. PICK world \in Seq(Event) : world = at.world
    BY AttemptIs
  <2>2. EndAttempt(world, timedOut)
    BY <2>1
  <2>3. Len(at.world) <= Len(world) /\ \A i \in 1..Len(at.world) : at.world[i] = world[i]
    BY <2>1, AttemptIs
  <2>4. store' \in SUBSET StoreRow /\ Functional(store') /\ store \subseteq store'
    BY <1>3, PutRow, InsertedIs DEF Types
  <2>5. ASSUME faults = 0
        PROVE  NoGaps(store') /\ Backed(store', worlds \cup {Own}) /\ drifted' \subseteq blocked'
    BY <1>3, <2>5, PutIs DEF Honest, MarkersInv
  <2>6. blocked' \subseteq Key
    BY DEF Types
  <2>7. QED
    BY <2>2, <2>3, <2>4, <2>5, <2>6, EndStep DEF RunInv
<1>4. QED
  BY <1>1, <1>2, <1>3

LEMMA SlowModelStep ==
  ASSUME IInv, SlowModel
  PROVE  IInv'
<1>1. /\ EndAttempt(at.world, at.pc # "ready" /\ ~Preparing) /\ Calm /\ slow' = slow + 1
      /\ run' = [run EXCEPT !.slowRetried = TRUE] /\ LeavesPut /\ at.pc # "none"
      /\ UNCHANGED <<content, blocked, epoch, prior, faults, drifted>>
  BY DEF SlowModel
<1>2. run' \in Run /\ run'.driftRetried = run.driftRetried /\ run'.drifts = run.drifts
  BY <1>1 DEF IInv, Types, Run
<1>3. Counted'
  BY <1>1, ReplayAssumption DEF IInv, Types, Counted, Calm
<1>4. PICK timedOut \in BOOLEAN : timedOut = (at.pc # "ready" /\ ~Preparing)
  OBVIOUS
<1>5. EndAttempt(at.world, timedOut)
  BY <1>1, <1>4
<1>6. timedOut => at.pc \in Working
  BY <1>1, <1>4, AttemptIs DEF IInv, Working
<1>7. QED
  BY <1>1, <1>2, <1>3, <1>5, <1>6, CutStep

LEMMA TimeOutStep ==
  ASSUME IInv, TimeOut
  PROVE  IInv'
<1>1. run' \in Run /\ run'.driftRetried = run.driftRetried /\ run'.drifts = run.drifts
  BY EndedRun DEF IInv, Types, TimeOut, RunPc
<1>2. /\ EndAttempt(at.world, ~Preparing) /\ LeavesPut /\ at.pc \in Working
      /\ UNCHANGED <<content, blocked, epoch, prior, faults, slow, drifted>>
  BY DEF TimeOut, Working
<1>3. Counted'
  BY <1>2 DEF IInv, Types, Counted
<1>4. PICK timedOut \in BOOLEAN : timedOut = ~Preparing
  OBVIOUS
<1>5. EndAttempt(at.world, timedOut)
  BY <1>2, <1>4
<1>6. QED
  BY <1>1, <1>2, <1>3, <1>5, CutStep

\* The marker goes where the drift was.
LEMMA DriftStep ==
  ASSUME IInv, Drift
  PROVE  IInv'
<1> USE DEF IInv
<1>1. PICK n \in Nat, due \in Event : n = Len(at.world) + 1 /\ due = at.seen[n]
  <2>1. at.pc = "catchup" /\ Len(at.world) < Len(at.seen)
    BY DEF Drift
  <2>2. Len(at.world) + 1 \in Nat /\ Len(at.world) + 1 \in 1..Len(at.seen)
    BY <2>1, AttemptIs
  <2>3. QED
    BY <2>2, AttemptIs, EventIs
<1>2. /\ at.pc = "catchup" /\ Len(at.world) < Len(at.seen)
      /\ UNCHANGED <<content, store, epoch, prior, slow>>
  BY DEF Drift
<1>3. PICK out \in Outputs(due.act) \ {due.out} :
        /\ EndAttempt(Append(at.world, [due EXCEPT !.out = out]), FALSE)
        /\ drifted' = drifted \cup {Prefix(n)}
        /\ \/ blocked' = blocked \cup {Marked(n)} /\ UNCHANGED faults
           \/ Fault /\ blocked' \subseteq blocked \cup {Marked(n)}
        /\ \/ run' = [run EXCEPT !.driftRetried = TRUE, !.drifts = @ + 1]
           \/ run' = [run EXCEPT !.pc = "failed"]
  BY <1>1 DEF Drift
<1>4. [due EXCEPT !.out = out] \in Event
  BY <1>1 DEF Event, Outputs, Output
<1>5. PICK world \in Seq(Event) : world = Append(at.world, [due EXCEPT !.out = out])
  BY <1>4, AttemptIs, AppendIs
<1>6. EndAttempt(world, FALSE)
  BY <1>3, <1>5
<1>7. Len(at.world) <= Len(world) /\ \A i \in 1..Len(at.world) : at.world[i] = world[i]
  BY <1>4, <1>5, AttemptIs, AppendIs
<1>8. at.epoch \in Epochs /\ ~run.driftRetried
  BY <1>2 DEF FlagsInv, RunInv
<1>9. Prefix(n) \in Key
  <2>1. n \in 0..Len(at.asked)
    BY <1>1, <1>2, AttemptIs DEF TraceInv, Working
  <2>2. SubSeq(at.asked, 1, n) \in Seq(Actions)
    BY <2>1, AttemptIs, FirstOf
  <2>3. QED
    BY <1>8, <2>2 DEF Prefix, Scoped, Key
<1>10. blocked' \subseteq Key
  BY <1>3, <1>9 DEF Types, Marked
<1>11. run' \in Run /\ (run'.driftRetried <=> run'.drifts = 1)
  <2>1. run.drifts = 0
    BY <1>8, RunIs DEF RunInv, Types
  <2>2. CASE run' = [run EXCEPT !.driftRetried = TRUE, !.drifts = @ + 1]
    <3>1. run' = [run EXCEPT !.driftRetried = TRUE, !.drifts = 1] /\ 1 \in 0..1
      BY <2>1, <2>2
    <3>2. run' \in Run /\ run'.driftRetried = TRUE /\ run'.drifts = 1
      BY <3>1 DEF Run, Types
    <3>3. QED
      BY <3>2
  <2>3. CASE run' = [run EXCEPT !.pc = "failed"]
    BY <2>3, EndedRun DEF RunInv, Types, RunPc
  <2>4. QED
    BY <1>3, <2>2, <2>3
<1>12. Counted' /\ (faults' = 0 => faults = 0 /\ blocked' = blocked \cup {Prefix(n)})
  BY <1>2, <1>3, ReplayAssumption DEF Types, Counted, Fault, Calm, Marked
<1>13. faults' = 0 => /\ faults = 0 /\ NoGaps(store') /\ Backed(store', worlds \cup {Own})
                      /\ drifted' \subseteq blocked'
  BY <1>2, <1>3, <1>12 DEF Honest, BackedInv, MarkersInv
<1>14. store' \in SUBSET StoreRow /\ Functional(store') /\ store \subseteq store'
  BY <1>2 DEF Types
<1>15. QED
  BY <1>2, <1>6, <1>7, <1>10, <1>11, <1>12, <1>13, <1>14, EndStep

-----------------------------------------------------------------------------
(* The steps of an attempt.                                                *)

\* The attempt moves on in the same scope, its environment keeps what it showed.
Continues ==
  /\ at' \in Attempt /\ at'.epoch = at.epoch /\ at'.replay = at.replay
  /\ Len(at.world) <= Len(at'.world) /\ \A i \in 1..Len(at.world) : at'.world[i] = at.world[i]

LEMMA StillBacked ==
  ASSUME Types, Continues, BackedInv, UNCHANGED <<store, worlds>>
  PROVE  BackedInv'
<1>1. Own.epoch = at.epoch /\ Own.events = at.world /\ at.world \in Seq(Event)
  BY AttemptIs
<1>2. Own'.epoch = at.epoch /\ Own'.events = at'.world /\ at'.world \in Seq(Event)
  BY DEF Own, Continues, Attempt
<1>3. Covers(Own', Own)
  BY <1>1, <1>2, CoversIs DEF Continues
<1>4. \A w \in worlds : w.events \in Seq(Event) /\ Covers(w, w)
  <2> SUFFICES ASSUME NEW w \in worlds PROVE w.events \in Seq(Event) /\ Covers(w, w)
    OBVIOUS
  <2>1. w.events \in Seq(Event)
    BY DEF Types, World
  <2>2. QED
    BY <2>1, LenProperties, CoversIs
<1>5. Backed(store, worlds \cup {Own'})
  <2>1. \A w \in worlds \cup {Own} : \E v \in worlds \cup {Own'} : Covers(v, w)
    BY <1>3, <1>4
  <2>2. QED
    BY <1>1, <1>2, <1>4, <2>1, BackedBy DEF BackedInv, Types
<1>6. QED
  BY <1>5 DEF BackedInv

\* A step that touches the attempt alone.
LEMMA AttemptStep ==
  ASSUME IInv, Continues, FlagsInv', TraceInv', Counted', faults' = 0 => faults = 0,
         UNCHANGED <<content, store, blocked, run, chain, prior, worlds, drifted>>,
         faults = 0 /\ Honest /\ faults' = 0 => SeenInv' /\ MarkersInv' /\ FreshInv'
  PROVE  IInv'
<1> USE DEF IInv
<1>1. Types' /\ RunInv'
  BY DEF Types, RunInv, Continues
<1>2. ASSUME faults' = 0 PROVE Honest'
  <2>1. NoGaps(store') /\ BackedInv' /\ ChainInv' /\ PriorInv'
    BY <1>2, StillBacked DEF Honest, ChainInv, PriorInv
  <2>2. QED
    BY <1>2, <2>1 DEF Honest
<1>3. QED
  BY <1>1, <1>2

LEMMA CountersStay ==
  ASSUME Types, UNCHANGED <<epoch, faults, slow>>
  PROVE  Counted'
BY DEF Types, Counted

LEMMA AskLiveStep ==
  ASSUME IInv, NEW a \in Actions, AskLive(a)
  PROVE  IInv'
<1> USE DEF IInv
<1>1. /\ at.pc = "ready" /\ at.live /\ at' = [at EXCEPT !.asked = Append(@, a), !.pc = "execute"]
      /\ UNCHANGED <<content, store, blocked, epoch, run, chain, prior, faults, slow, worlds, drifted>>
  BY DEF AskLive, Asks
<1>2. PICK asked \in Seq(Actions) : asked = Append(at.asked, a)
  BY AttemptIs, AppendIs
<1>3. Len(asked) = Len(at.asked) + 1 /\ \A i \in 1..Len(at.asked) : asked[i] = at.asked[i]
  BY <1>2, AttemptIs, AppendIs
<1>4. /\ at' \in Attempt /\ at'.pc = "execute" /\ at'.asked = asked /\ at'.seen = at.seen
      /\ at'.world = at.world /\ at'.epoch = at.epoch /\ at'.replay = at.replay
      /\ at'.live = at.live /\ at'.recordable = at.recordable
  <2>1. at' = [at EXCEPT !.asked = asked, !.pc = "execute"]
    BY <1>1, <1>2
  <2>2. QED
    BY <2>1 DEF Types, Attempt
<1>5. FlagsInv'
  BY <1>1, <1>4 DEF FlagsInv, Working
<1>6. Len(at.asked) = Len(at.seen) /\ Len(at.seen) \in Nat
  BY <1>1, AttemptIs DEF TraceInv, Working
<1>7. TraceInv'
  BY <1>1, <1>3, <1>4, <1>6 DEF TraceInv, Working
<1>8. Continues
  BY <1>4, AttemptIs DEF Continues
<1>9. ASSUME Honest PROVE SeenInv' /\ MarkersInv' /\ FreshInv'
  <2>1. SeenInv' /\ MarkersInv'
    BY <1>1, <1>4, <1>9 DEF Honest, SeenInv, MarkersInv, Replayed
  <2>2. ASSUME at.recordable
        PROVE  Untrodden(store, at.epoch, asked, Len(at.seen))
    BY <1>1, <1>3, <1>6, <1>9, <2>2 DEF Honest, FreshInv, Untrodden
  <2>3. QED
    BY <1>1, <1>4, <2>1, <2>2 DEF FreshInv
<1>10. QED
  BY <1>1, <1>5, <1>7, <1>8, <1>9, CountersStay, AttemptStep

\* A recorded step, as the store has it.
LEMMA RecordedIs ==
  ASSUME Types, NEW a \in Actions, Stored(Asked(a))
  PROVE  /\ Recorded(a) \in Event /\ Recorded(a).act = a
         /\ [key |-> Asked(a), out |-> Recorded(a).out] \in store
<1>1. PICK row : row = CHOOSE r \in store : r.key = Asked(a)
  OBVIOUS
<1>2. row \in store /\ row.key = Asked(a) /\ Value(Asked(a)) = row.out
  BY <1>1 DEF Stored, Value
<1>3. row = [key |-> Asked(a), out |-> row.out] /\ row.out \in Output
  BY <1>2 DEF Types, StoreRow
<1>4. QED
  BY <1>2, <1>3 DEF Recorded, Event

\* How an attempt goes on: with a recorded step, or live.
Sees(a) == at' = [at EXCEPT !.asked = Append(@, a), !.seen = Append(@, Recorded(a))]

Departs(a, recordable) ==
  at' = [at EXCEPT !.asked = Append(@, a), !.live = TRUE, !.pc = "catchup",
                   !.recordable = recordable]

\* The policy goes on to a recorded step: what it has seen gets longer.
LEMMA SeesRecorded ==
  ASSUME IInv, NEW a \in Actions, at.pc = "ready", ~at.live, Stored(Asked(a)),
         Sees(a)
  PROVE  /\ Continues /\ FlagsInv' /\ TraceInv'
         /\ Honest /\ UNCHANGED <<store, blocked, drifted>> /\ Asked(a) \notin blocked =>
              SeenInv' /\ MarkersInv' /\ FreshInv'
<1> USE DEF IInv
<1>1. PICK n \in Nat, e \in Epochs, acts \in Seq(Actions), seen \in Seq(Event), x \in Event :
        /\ n = Len(at.seen) /\ e = at.epoch /\ acts = at.asked /\ seen = at.seen
        /\ x = Recorded(a)
  BY AttemptIs, RecordedIs DEF FlagsInv
<1>2. PICK asked \in Seq(Actions), longer \in Seq(Event) :
        asked = Append(acts, a) /\ longer = Append(seen, x)
  BY AppendIs
<1>3. Len(acts) = n /\ Len(seen) = n
  BY <1>1 DEF TraceInv, Working
<1>4. /\ Len(asked) = n + 1 /\ asked[n + 1] = a /\ \A i \in 1..n : asked[i] = acts[i]
      /\ Len(longer) = n + 1 /\ longer[n + 1] = x /\ \A i \in 1..n : longer[i] = seen[i]
  BY <1>2, <1>3, AppendIs
<1>5. /\ at' \in Attempt /\ at'.pc = "ready" /\ at'.asked = asked /\ at'.seen = longer
      /\ at'.world = at.world /\ at'.epoch = e /\ at'.replay = at.replay
      /\ at'.live = at.live /\ at'.recordable = at.recordable
  <2>1. at' = [at EXCEPT !.asked = asked, !.seen = longer]
    BY <1>1, <1>2 DEF Sees
  <2>2. QED
    BY <1>1, <2>1 DEF Types, Attempt
<1>6. \A i \in 1..n + 1 : i \in 1..n \/ i = n + 1
  OBVIOUS
<1>7. x.act = a /\ \A i \in 1..n : acts[i] = seen[i].act
  BY <1>1, RecordedIs DEF TraceInv
<1>8. \A i \in 1..n + 1 : asked[i] = longer[i].act
  BY <1>4, <1>6, <1>7
<1>9. FlagsInv' /\ TraceInv'
  <2>1. FlagsInv'
    BY <1>1, <1>5 DEF FlagsInv, Working
  <2>2. TraceInv'
    BY <1>4, <1>5, <1>8 DEF TraceInv, Working
  <2>3. QED
    BY <2>1, <2>2
<1>10. Continues
  BY <1>1, <1>5, AttemptIs DEF Continues
<1>11. Asked(a) = [epoch |-> e, acts |-> asked]
  BY <1>1, <1>2 DEF Asked, Scoped
<1>12. ASSUME Honest, UNCHANGED <<store, blocked, drifted>>, Asked(a) \notin blocked
       PROVE  SeenInv' /\ MarkersInv' /\ FreshInv'
  <2>1. [key |-> [epoch |-> e, acts |-> asked], out |-> x.out] \in store
    BY <1>1, <1>11, RecordedIs
  <2>2. Stands(store, e, seen)
    BY <1>1, <1>12 DEF Honest, SeenInv, Replayed
  <2>3. Stands(store, e, longer)
    BY <1>2, <1>3, <1>4, <1>7, <2>1, <2>2, StandsAppends
  <2>4. \A i \in 1..n : KeyOf(e, acts, i) \notin blocked
    BY <1>1, <1>12 DEF Honest, MarkersInv, Replayed
  <2>5. \A i \in 1..n : KeyOf(e, asked, i) = KeyOf(e, acts, i)
    <3> SUFFICES ASSUME NEW i \in 1..n PROVE KeyOf(e, asked, i) = KeyOf(e, acts, i)
      OBVIOUS
    <3>1. i \in Nat /\ i <= Len(asked) /\ i <= Len(acts) /\ \A j \in 1..i : asked[j] = acts[j]
      BY <1>3, <1>4
    <3>2. QED
      BY <3>1, KeyOfSame
  <2>6. KeyOf(e, asked, n + 1) = Asked(a)
    BY <1>4, <1>11, KeyOfAll
  <2>7. \A i \in 1..n + 1 : KeyOf(e, asked, i) \notin blocked
    BY <1>6, <1>12, <2>4, <2>5, <2>6
  <2>8. drifted' \subseteq blocked'
    BY <1>12 DEF Honest, MarkersInv
  <2>9. SeenInv'
    BY <1>5, <1>12, <2>3 DEF SeenInv
  <2>10. MarkersInv'
    <3>1. \A i \in 1..Len(at'.seen) : KeyOf(at'.epoch, at'.asked, i) \notin blocked'
      <4>1. /\ at'.seen = longer /\ at'.asked = asked /\ at'.epoch = e /\ blocked' = blocked
            /\ Len(at'.seen) = n + 1
        BY <1>4, <1>5, <1>12
      <4>2. \A i \in 1..n + 1 : KeyOf(e, asked, i) \notin blocked
        BY <2>7
      <4>3. QED
        BY <4>1, <4>2
    <3>2. QED
      BY <2>8, <3>1 DEF MarkersInv
  <2>11. FreshInv'
    BY <1>5 DEF FreshInv
  <2>12. QED
    BY <2>9, <2>10, <2>11
<1>13. QED
  BY <1>9, <1>10, <1>12

LEMMA ServeStep ==
  ASSUME IInv, NEW a \in Actions, Serve(a)
  PROVE  IInv'
<1>1. /\ at.pc = "ready" /\ ~at.live /\ Stored(Asked(a)) /\ Asked(a) \notin blocked
      /\ Sees(a)
      /\ UNCHANGED <<content, store, blocked, epoch, run, chain, prior, faults, slow, worlds, drifted>>
  BY DEF Serve, Asks, Served, Sees
<1>2. /\ Continues /\ FlagsInv' /\ TraceInv'
      /\ Honest => SeenInv' /\ MarkersInv' /\ FreshInv'
  BY <1>1, SeesRecorded
<1>3. QED
  BY <1>1, <1>2, CountersStay, AttemptStep DEF IInv

\* The policy leaves the recordings: its attempt goes live.
LEMMA GoesLive ==
  ASSUME IInv, NEW a \in Actions, at.pc = "ready", ~at.live, NEW recordable \in BOOLEAN,
         recordable => at.replay, Departs(a, recordable)
  PROVE  /\ Continues /\ FlagsInv' /\ TraceInv'
         /\ Honest /\ UNCHANGED <<store, blocked, drifted>> /\ (recordable => ~Stored(Asked(a))) =>
              SeenInv' /\ MarkersInv' /\ FreshInv'
<1> USE DEF IInv
<1>1. PICK n \in Nat, e \in Epochs, acts \in Seq(Actions), seen \in Seq(Event) :
        n = Len(at.seen) /\ e = at.epoch /\ acts = at.asked /\ seen = at.seen
  BY AttemptIs DEF FlagsInv
<1>2. PICK asked \in Seq(Actions) : asked = Append(acts, a)
  BY AppendIs
<1>3. Len(acts) = n /\ Len(seen) = n
  BY <1>1 DEF TraceInv, Working
<1>4. Len(asked) = n + 1 /\ asked[n + 1] = a /\ \A i \in 1..n : asked[i] = acts[i]
  BY <1>2, <1>3, AppendIs
<1>5. /\ at' \in Attempt /\ at'.pc = "catchup" /\ at'.asked = asked /\ at'.seen = seen
      /\ at'.world = at.world /\ at'.epoch = e /\ at'.replay = at.replay
      /\ at'.live = TRUE /\ at'.recordable = recordable
  <2>1. at' = [at EXCEPT !.asked = asked, !.live = TRUE, !.pc = "catchup", !.recordable = recordable]
    BY <1>1, <1>2 DEF Departs
  <2>2. QED
    BY <1>1, <2>1 DEF Types, Attempt
<1>6. FlagsInv'
  BY <1>1, <1>5 DEF FlagsInv, Working
<1>7. TraceInv'
  <2>1. at'.world = <<>> /\ Len(<<>>) = 0
    BY <1>5 DEF TraceInv
  <2>2. QED
    BY <1>1, <1>3, <1>4, <1>5, <2>1 DEF TraceInv, Working
<1>8. Continues
  BY <1>1, <1>5, AttemptIs DEF Continues
<1>9. ASSUME Honest, UNCHANGED <<store, blocked, drifted>>, recordable => ~Stored(Asked(a))
      PROVE  SeenInv' /\ MarkersInv' /\ FreshInv'
  <2>1. SeenInv'
    BY <1>1, <1>5, <1>9 DEF Honest, SeenInv, Replayed
  <2>2. MarkersInv'
    <3>1. drifted' \subseteq blocked' /\ \A i \in 1..n : KeyOf(e, acts, i) \notin blocked
      BY <1>1, <1>9 DEF Honest, MarkersInv, Replayed
    <3>2. \A i \in 1..n : KeyOf(e, asked, i) = KeyOf(e, acts, i)
      <4> SUFFICES ASSUME NEW i \in 1..n PROVE KeyOf(e, asked, i) = KeyOf(e, acts, i)
        OBVIOUS
      <4>1. i \in Nat /\ i <= Len(asked) /\ i <= Len(acts) /\ \A j \in 1..i : asked[j] = acts[j]
        BY <1>3, <1>4
      <4>2. QED
        BY <4>1, KeyOfSame
    <3>3. \A i \in 1..Len(at'.seen) : KeyOf(at'.epoch, at'.asked, i) \notin blocked'
      <4>1. /\ at'.seen = seen /\ at'.asked = asked /\ at'.epoch = e /\ blocked' = blocked
            /\ Len(at'.seen) = n
        BY <1>3, <1>5, <1>9
      <4>2. \A i \in 1..n : KeyOf(e, asked, i) \notin blocked
        BY <3>1, <3>2
      <4>3. QED
        BY <4>1, <4>2
    <3>4. QED
      BY <3>1, <3>3 DEF MarkersInv
  <2>3. ASSUME recordable, NEW row \in store, row.key.epoch = e, Len(row.key.acts) >= n + 1,
               \A i \in 1..n + 1 : row.key.acts[i] = asked[i]
        PROVE  FALSE
    <3>1. PICK acts2 \in Seq(Actions) : acts2 = row.key.acts
      BY DEF Types, StoreRow, Key
    <3>2. Len(acts2) \in Nat /\ n + 1 \in 1..Len(acts2)
      BY <2>3, <3>1, LenProperties
    <3>3. PICK other \in store : other.key = KeyOf(e, acts2, n + 1)
      BY <1>9, <2>3, <3>1, <3>2 DEF Honest, NoGaps
    <3>4. KeyOf(e, acts2, n + 1) = KeyOf(e, asked, n + 1)
      <4>1. n + 1 \in Nat /\ n + 1 <= Len(acts2) /\ n + 1 <= Len(asked)
        BY <1>4, <3>2
      <4>2. \A i \in 1..n + 1 : acts2[i] = asked[i]
        BY <2>3, <3>1
      <4> HIDE DEF IInv
      <4>3. QED
        BY <4>1, <4>2, KeyOfSame
    <3>5. KeyOf(e, asked, n + 1) = Asked(a)
      <4>1. KeyOf(e, asked, n + 1) = [epoch |-> e, acts |-> asked]
        BY <1>4, KeyOfAll
      <4>2. QED
        BY <1>1, <1>2, <4>1 DEF Asked, Scoped
    <3>6. QED
      BY <1>9, <2>3, <3>3, <3>4, <3>5 DEF Stored
  <2>4. FreshInv'
    <3>1. recordable => Untrodden(store, e, asked, n)
      BY <1>4, <2>3 DEF Untrodden
    <3>2. QED
      BY <1>3, <1>5, <1>9, <3>1 DEF FreshInv
  <2>5. QED
    BY <2>1, <2>2, <2>4
<1>10. QED
  BY <1>6, <1>7, <1>8, <1>9

LEMMA MissStep ==
  ASSUME IInv, NEW a \in Actions, Miss(a)
  PROVE  IInv'
<1>1. PICK recordable \in BOOLEAN : recordable = (Asked(a) \notin blocked)
  OBVIOUS
<1>2. /\ at.pc = "ready" /\ ~at.live /\ ~Served(a)
      /\ Departs(a, recordable)
      /\ UNCHANGED <<content, store, blocked, epoch, run, chain, prior, faults, slow, worlds, drifted>>
  BY <1>1 DEF Miss, Asks, Departs
<1>3. at.replay /\ (recordable => ~Stored(Asked(a)))
  BY <1>1, <1>2 DEF IInv, FlagsInv, Served
<1>4. /\ Continues /\ FlagsInv' /\ TraceInv'
      /\ Honest => SeenInv' /\ MarkersInv' /\ FreshInv'
  BY <1>2, <1>3, GoesLive
<1>5. QED
  BY <1>2, <1>4, CountersStay, AttemptStep DEF IInv

\* A read that fails open: from here on nothing is promised of what replay shows.
LEMMA ReadFailsStep ==
  ASSUME IInv, NEW a \in Actions, ReadFails(a)
  PROVE  IInv'
<1>1. /\ at.pc = "ready" /\ ~at.live /\ Stored(Asked(a)) /\ Fault
      /\ UNCHANGED <<content, store, blocked, epoch, run, chain, prior, slow, worlds, drifted>>
      /\ IF Asked(a) \in blocked
               THEN Sees(a)
               ELSE at' = [at EXCEPT !.asked = Append(@, a), !.live = TRUE, !.pc = "catchup"]
  BY DEF ReadFails, Asks, Sees
<1>2. Counted' /\ faults' # 0
  BY <1>1, ReplayAssumption DEF IInv, Types, Counted, Fault, Calm
<1>3. CASE Asked(a) \in blocked
  BY <1>1, <1>2, <1>3, SeesRecorded, AttemptStep
<1>4. CASE Asked(a) \notin blocked
  <2>1. PICK recordable \in BOOLEAN : recordable = at.recordable
    BY AttemptIs DEF IInv
  <2>2. Departs(a, recordable)
    BY <1>1, <1>4, <2>1 DEF IInv, Types, Attempt, Departs
  <2>3. recordable => at.replay
    BY <2>1 DEF IInv, FlagsInv
  <2>4. Continues /\ FlagsInv' /\ TraceInv'
    BY <1>1, <2>2, <2>3, GoesLive
  <2>5. QED
    BY <1>1, <1>2, <2>4, AttemptStep
<1>5. QED
  BY <1>3, <1>4

LEMMA CatchUpStep ==
  ASSUME IInv, CatchUp
  PROVE  IInv'
<1> USE DEF IInv
<1>1. /\ at.pc = "catchup" /\ Len(at.world) < Len(at.seen)
      /\ UNCHANGED <<content, store, blocked, epoch, run, chain, prior, faults, slow, worlds, drifted>>
  BY DEF CatchUp
<1>2. PICK n \in Nat, due \in Event, world \in Seq(Event) :
        n = Len(at.world) /\ due = at.seen[n + 1] /\ world = Append(at.world, due)
  <2>1. Len(at.world) \in Nat /\ Len(at.world) + 1 \in 1..Len(at.seen)
    BY <1>1, AttemptIs
  <2>2. at.seen[Len(at.world) + 1] \in Event
    BY <2>1, AttemptIs, EventIs
  <2>3. Append(at.world, at.seen[Len(at.world) + 1]) \in Seq(Event)
    BY <2>2, AttemptIs, AppendIs
  <2>4. QED
    BY <2>1, <2>2, <2>3
<1>3. /\ Len(world) = n + 1 /\ world[n + 1] = due /\ \A i \in 1..n : world[i] = at.world[i]
  BY <1>2, AttemptIs, AppendIs
<1>4. /\ at' \in Attempt /\ at'.pc = "catchup" /\ at'.asked = at.asked /\ at'.seen = at.seen
      /\ at'.world = world /\ at'.epoch = at.epoch /\ at'.replay = at.replay
      /\ at'.live = at.live /\ at'.recordable = at.recordable
  <2>1. at' = [at EXCEPT !.world = world]
    BY <1>2 DEF CatchUp
  <2>2. QED
    BY <1>1, <2>1 DEF Types, Attempt
<1>5. FlagsInv'
  BY <1>1, <1>4 DEF FlagsInv, Working
<1>6. TraceInv'
  <2>1. \A i \in 1..n + 1 : i \in 1..n \/ i = n + 1
    OBVIOUS
  <2>2. \A i \in 1..n : at.world[i] = at.seen[i]
    BY <1>1, <1>2 DEF TraceInv
  <2>3. \A i \in 1..n + 1 : world[i] = at.seen[i]
    BY <1>2, <1>3, <2>1, <2>2
  <2>4. n + 1 <= Len(at.seen)
    BY <1>1, <1>2, AttemptIs
  <2>5. at.live
    BY <1>1 DEF FlagsInv, Working
  <2>6. QED
    BY <1>1, <1>3, <1>4, <2>3, <2>4, <2>5 DEF TraceInv, Working
<1>7. Continues
  BY <1>2, <1>3, <1>4 DEF Continues
<1>8. ASSUME Honest PROVE SeenInv' /\ MarkersInv' /\ FreshInv'
  <2>1. SeenInv' /\ FreshInv'
    BY <1>1, <1>4, <1>8 DEF Honest, SeenInv, FreshInv, Replayed
  <2>2. MarkersInv'
    BY <1>1, <1>4, <1>8 DEF Honest, MarkersInv, Replayed
  <2>3. QED
    BY <2>1, <2>2
<1>9. QED
  BY <1>1, <1>5, <1>6, <1>7, <1>8, CountersStay, AttemptStep

LEMMA CaughtUpStep ==
  ASSUME IInv, CaughtUp
  PROVE  IInv'
<1> USE DEF IInv
<1>1. /\ at.pc = "catchup" /\ Len(at.world) = Len(at.seen) /\ at' = [at EXCEPT !.pc = "execute"]
      /\ UNCHANGED <<content, store, blocked, epoch, run, chain, prior, faults, slow, worlds, drifted>>
  BY DEF CaughtUp
<1>2. at.seen = at.world /\ at.live
  BY <1>1, AttemptIs, SeqEqual DEF TraceInv, FlagsInv, Working
<1>3. /\ at' \in Attempt /\ at'.pc = "execute" /\ at'.asked = at.asked /\ at'.seen = at.seen
      /\ at'.world = at.world /\ at'.epoch = at.epoch /\ at'.replay = at.replay
      /\ at'.live = at.live /\ at'.recordable = at.recordable
  BY <1>1 DEF Types, Attempt
<1>4. FlagsInv'
  BY <1>1, <1>3 DEF FlagsInv, Working
<1>5. TraceInv'
  BY <1>1, <1>2, <1>3 DEF TraceInv, Working
<1>6. Continues
  BY <1>3, AttemptIs DEF Continues
<1>7. ASSUME Honest PROVE SeenInv' /\ MarkersInv' /\ FreshInv'
  BY <1>1, <1>2, <1>3, <1>7 DEF Honest, SeenInv, FreshInv, MarkersInv, Replayed
<1>8. QED
  BY <1>1, <1>4, <1>5, <1>6, <1>7, CountersStay, AttemptStep

LEMMA ExecuteStep ==
  ASSUME IInv, Execute
  PROVE  IInv'
<1> USE DEF IInv
<1>1. /\ at.pc = "execute"
      /\ UNCHANGED <<content, store, blocked, epoch, run, chain, prior, faults, slow, worlds, drifted>>
  BY DEF Execute
<1>2. PICK n \in Nat : n = Len(at.seen) /\ Len(at.asked) = n + 1 /\ at.seen = at.world /\ at.live
  BY <1>1, AttemptIs DEF TraceInv, FlagsInv, Working
<1>3. at.asked[n + 1] \in Actions /\ Last(at.asked) = at.asked[n + 1]
  BY <1>2, AttemptIs, ElementOfSeq DEF Last
<1>4. PICK out \in Output, skip \in BOOLEAN, event \in Event :
        /\ event = [act |-> at.asked[n + 1], out |-> out]
        /\ at' = IF at.recordable /\ ~skip
                 THEN [[at EXCEPT !.world = Append(@, event), !.recordable = StillRecordable(skip)]
                         EXCEPT !.pc = "put"]
                 ELSE [[at EXCEPT !.world = Append(@, event), !.recordable = StillRecordable(skip)]
                         EXCEPT !.pc = "ready", !.seen = Append(@, event)]
  <2>1. \A out \in Output : [act |-> at.asked[n + 1], out |-> out] \in Event
    BY <1>3 DEF Event
  <2>2. /\ \A out \in Outputs(Last(at.asked)) : out \in Output
        /\ \A skip \in Skips(Last(at.asked)) : skip \in BOOLEAN
    BY DEF Outputs, Output, Skips
  <2>3. PICK out \in Outputs(Last(at.asked)), skip \in Skips(Last(at.asked)), event \in Event :
          /\ event = [act |-> Last(at.asked), out |-> out]
          /\ at' = IF at.recordable /\ ~skip
                   THEN [[at EXCEPT !.world = Append(@, event), !.recordable = StillRecordable(skip)]
                           EXCEPT !.pc = "put"]
                   ELSE [[at EXCEPT !.world = Append(@, event), !.recordable = StillRecordable(skip)]
                           EXCEPT !.pc = "ready", !.seen = Append(@, event)]
    BY <1>3, <2>1, <2>2 DEF Execute
  <2>4. out \in Output /\ skip \in BOOLEAN
    BY <2>2, <2>3
  <2>5. QED
    BY <1>3, <2>3, <2>4
<1>5. PICK world \in Seq(Event) : world = Append(at.world, event)
  BY AttemptIs, AppendIs
<1>6. Len(world) = n + 1 /\ world[n + 1] = event /\ \A i \in 1..n : world[i] = at.world[i]
  BY <1>2, <1>5, AttemptIs, AppendIs
<1>7. event.act = at.asked[n + 1]
  BY <1>4
<1>8. CASE at.recordable /\ ~skip
  <2>1. /\ at' \in Attempt /\ at'.pc = "put" /\ at'.asked = at.asked /\ at'.seen = at.seen
        /\ at'.world = world /\ at'.epoch = at.epoch /\ at'.replay = at.replay
        /\ at'.live = at.live /\ at'.recordable = TRUE
    <3>1. StillRecordable(skip) = TRUE
      BY <1>8, AttemptIs DEF StillRecordable
    <3>2. at' = [[at EXCEPT !.world = world, !.recordable = TRUE] EXCEPT !.pc = "put"]
      BY <1>4, <1>5, <1>8, <3>1
    <3>3. QED
      BY <3>2 DEF Types, Attempt
  <2>2. FlagsInv'
    BY <1>2, <1>8, <2>1 DEF FlagsInv, Working
  <2>3. TraceInv'
    BY <1>1, <1>2, <1>6, <1>7, <2>1 DEF TraceInv, Working
  <2>4. Continues
    BY <1>2, <1>6, <2>1 DEF Continues
  <2>5. ASSUME Honest PROVE SeenInv' /\ MarkersInv' /\ FreshInv'
    BY <1>1, <1>2, <1>8, <2>1, <2>5 DEF Honest, SeenInv, FreshInv, MarkersInv, Replayed
  <2>6. QED
    BY <1>1, <2>2, <2>3, <2>4, <2>5, CountersStay, AttemptStep
<1>9. CASE ~(at.recordable /\ ~skip)
  <2>1. /\ at' \in Attempt /\ at'.pc = "ready" /\ at'.asked = at.asked /\ at'.seen = world
        /\ at'.world = world /\ at'.epoch = at.epoch /\ at'.replay = at.replay
        /\ at'.live = at.live /\ at'.recordable = FALSE
    <3>1. StillRecordable(skip) = FALSE
      BY <1>9, AttemptIs DEF StillRecordable
    <3>2. at' = [[at EXCEPT !.world = world, !.recordable = FALSE]
                   EXCEPT !.pc = "ready", !.seen = world]
      BY <1>2, <1>4, <1>5, <1>9, <3>1
    <3>3. QED
      BY <3>2 DEF Types, Attempt
  <2>2. FlagsInv'
    BY <1>2, <2>1 DEF FlagsInv, Working
  <2>3. TraceInv'
    <3>1. \A i \in 1..n : at.asked[i] = world[i].act
      BY <1>2, <1>6 DEF TraceInv
    <3>2. \A i \in 1..n + 1 : i \in 1..n \/ i = n + 1
      OBVIOUS
    <3>3. \A i \in 1..n + 1 : at.asked[i] = world[i].act
      BY <1>6, <1>7, <3>1, <3>2
    <3>4. QED
      BY <1>2, <1>6, <2>1, <3>3 DEF TraceInv, Working
  <2>4. Continues
    BY <1>2, <1>6, <2>1 DEF Continues
  <2>5. ASSUME Honest PROVE SeenInv' /\ MarkersInv' /\ FreshInv'
    BY <1>1, <1>2, <2>1, <2>5 DEF Honest, SeenInv, FreshInv, MarkersInv, Replayed
  <2>6. QED
    BY <1>1, <2>2, <2>3, <2>4, <2>5, CountersStay, AttemptStep
<1>10. QED
  BY <1>8, <1>9

\* The result of a recorded step, or of one whose recording was dropped, is seen.
LEMMA PutStep ==
  ASSUME IInv, Put
  PROVE  IInv'
<1> USE DEF IInv
<1>1. /\ at.pc = "put"
      /\ \/ store' = Inserted(KeyNow, Last(at.world).out) /\ UNCHANGED faults
         \/ Fault /\ UNCHANGED store
      /\ UNCHANGED <<content, blocked, epoch, run, chain, prior, slow, worlds, drifted>>
  BY DEF Put
<1>2. at.live /\ at.recordable
  BY <1>1 DEF FlagsInv, Working
<1>3. PICK n \in Nat : n = Len(at.seen) /\ Len(at.asked) = n + 1 /\ Len(at.world) = n + 1
  BY <1>1, AttemptIs, PutRow
<1>4. /\ at' \in Attempt /\ at'.pc = "ready" /\ at'.asked = at.asked /\ at'.seen = at.world
      /\ at'.world = at.world /\ at'.epoch = at.epoch /\ at'.replay = at.replay
      /\ at'.live = at.live /\ at'.recordable = at.recordable
  <2>1. at' = [at EXCEPT !.pc = "ready", !.seen = at.world]
    BY <1>1, PutRow DEF Put
  <2>2. QED
    BY <2>1 DEF Types, Attempt
<1>5. FlagsInv'
  BY <1>2, <1>4 DEF FlagsInv, Working
<1>6. TraceInv'
  <2>1. \A i \in 1..n : at.asked[i] = at.world[i].act
    BY <1>1, <1>3 DEF TraceInv
  <2>2. at.asked[n + 1] = at.world[n + 1].act
    BY <1>1, <1>3 DEF TraceInv
  <2>3. \A i \in 1..n + 1 : i \in 1..n \/ i = n + 1
    OBVIOUS
  <2>4. \A i \in 1..n + 1 : at.asked[i] = at.world[i].act
    BY <2>1, <2>2, <2>3
  <2>5. QED
    BY <1>2, <1>3, <1>4, <2>4 DEF TraceInv, Working
<1>7. Continues
  BY <1>4, AttemptIs DEF Continues
<1>8. CASE Fault /\ UNCHANGED store
  <2>1. Counted' /\ faults' # 0
    BY <1>1, <1>8, ReplayAssumption DEF Types, Counted, Fault, Calm
  <2>2. QED
    BY <1>1, <1>5, <1>6, <1>7, <1>8, <2>1, AttemptStep
<1>9. CASE store' = Inserted(KeyNow, Last(at.world).out) /\ UNCHANGED faults
  <2>1. store' \in SUBSET StoreRow /\ Functional(store') /\ store \subseteq store'
    BY <1>1, <1>9, PutRow, InsertedIs DEF Types
  <2>2. Types' /\ RunInv'
    <3>1. Counted'
      BY <1>1, <1>9, CountersStay
    <3>2. QED
      BY <1>1, <1>4, <2>1, <3>1 DEF Types, RunInv
  <2>3. ASSUME faults' = 0 PROVE Honest'
    <3>1. Honest
      BY <1>9, <2>3
    <3>2. PICK T : T = store'
      OBVIOUS
    <3>3. /\ NoGaps(T) /\ Backed(T, worlds \cup {Own}) /\ Stands(T, at.epoch, at.world)
          /\ \A row \in T : row \in store \/ row.key = KeyNow
      BY <1>1, <1>9, <3>1, <3>2, PutIs
    <3>4. SeenInv'
      BY <1>4, <3>2, <3>3 DEF SeenInv
    <3>5. MarkersInv'
      BY <1>1, <1>2, <1>4, <3>1 DEF Honest, MarkersInv, Replayed
    <3>6. Untrodden(T, at.epoch, at.asked, n + 1)
      <4> SUFFICES ASSUME NEW row \in T, row.key.epoch = at.epoch, Len(row.key.acts) > n + 1,
                          \A i \in 1..Len(at.asked) : row.key.acts[i] = at.asked[i]
                   PROVE  FALSE
        BY DEF Untrodden
      <4>1. CASE row \in store
        <5>1. Len(row.key.acts) \in Nat
          BY <4>1, LenProperties DEF Types, StoreRow, Key
        <5>2. Len(row.key.acts) > n /\ Len(row.key.acts) >= Len(at.asked)
          BY <1>3, <5>1
        <5>3. Untrodden(store, at.epoch, at.asked, n)
          BY <1>2, <1>3, <3>1 DEF Honest, FreshInv
        <5>4. QED
          BY <4>1, <5>2, <5>3 DEF Untrodden
      <4>2. CASE row.key = KeyNow
        <5>1. row.key.acts = at.asked
          BY <4>2 DEF KeyNow, Scoped
        <5>2. QED
          BY <1>3, <5>1
      <4>3. QED
        BY <3>3, <4>1, <4>2
    <3>7. FreshInv'
      BY <1>3, <1>4, <3>2, <3>6 DEF FreshInv
    <3>8. BackedInv'
      <4>1. Own' = Own /\ worlds' = worlds
        BY <1>1, <1>4 DEF Own
      <4>2. QED
        BY <3>2, <3>3, <4>1 DEF BackedInv
    <3>9. ChainInv' /\ PriorInv'
      <4>1. /\ chain.recorded /\ ~chain.timedOut => Stands(store', chain.regime, chain.events)
            /\ prior.recorded /\ prior.verdict \in Audited =>
                 Stands(store', prior.identity, prior.events)
        BY <2>1, <3>1, StandsGrows DEF Honest, ChainInv, PriorInv
      <4>2. QED
        BY <1>1, <3>1, <4>1 DEF Honest, ChainInv, PriorInv
    <3>10. QED
      BY <3>2, <3>3, <3>4, <3>5, <3>7, <3>8, <3>9 DEF Honest
  <2>4. QED
    BY <1>5, <1>6, <2>1, <2>2, <2>3
<1>10. QED
  BY <1>1, <1>8, <1>9

LEMMA EpochIs ==
  ASSUME Types
  PROVE  epoch \in Epochs /\ {faults, slow} \subseteq 0..MaxTroubles
<1>1. MaxTroubles \in Nat /\ epoch \in Nat /\ faults \in Nat /\ slow \in Nat
      /\ epoch + faults + slow <= MaxTroubles
  BY ReplayAssumption DEF Types, Counted
<1>2. epoch <= MaxTroubles /\ faults <= MaxTroubles /\ slow <= MaxTroubles
  BY <1>1
<1>3. QED
  BY <1>1, <1>2 DEF Epochs

LEMMA StartAttemptStep ==
  ASSUME IInv, StartAttempt
  PROVE  IInv'
<1> USE DEF IInv
<1>1. /\ at.pc = "none" /\ at' = Executor
      /\ UNCHANGED <<content, store, blocked, epoch, run, chain, prior, faults, slow, worlds, drifted>>
  BY DEF StartAttempt
<1>2. PICK replay \in BOOLEAN : replay = (content /\ ~run.driftRetried)
  OBVIOUS
<1>3. PICK e \in Epochs \cup {Unpinned} : e = IF replay THEN epoch ELSE Unpinned
  BY EpochIs
<1>4. PICK live \in BOOLEAN : live = ~replay
  OBVIOUS
<1>5. /\ at' \in Attempt /\ at'.pc = "ready" /\ at'.asked = <<>> /\ at'.seen = <<>>
      /\ at'.world = <<>> /\ at'.epoch = e /\ at'.replay = replay
      /\ at'.live = live /\ at'.recordable = replay
  <2>1. at' = [NoAttempt EXCEPT !.pc = "ready", !.replay = replay, !.recordable = replay,
                                !.epoch = e, !.live = live]
    BY <1>1, <1>2, <1>3, <1>4 DEF Executor
  <2>2. at' = [pc |-> "ready", replay |-> replay, epoch |-> e, asked |-> <<>>,
               seen |-> <<>>, world |-> <<>>, live |-> live, recordable |-> replay]
    BY <2>1 DEF NoAttempt
  <2>3. <<>> \in Seq(Actions) /\ <<>> \in Seq(Event)
    BY EmptySeq
  <2>4. QED
    BY <2>2, <2>3 DEF Attempt
<1>6. (replay <=> e \in Epochs) /\ (live <=> ~replay)
  BY <1>3, <1>4, UnpinnedIs, EpochIs
<1>7. FlagsInv'
  BY <1>5, <1>6 DEF FlagsInv, Working
<1>8. Len(<<>>) = 0
  OBVIOUS
<1>9. TraceInv'
  BY <1>5, <1>8 DEF TraceInv, Working
<1>10. Types'
  <2>1. Counted'
    BY <1>1, CountersStay
  <2>2. QED
    BY <1>1, <1>5, <2>1 DEF Types
<1>11. RunInv'
  <2>1. replay => ~run.driftRetried
    BY <1>2
  <2>2. QED
    BY <1>1, <1>5, <2>1 DEF RunInv
<1>12. ASSUME faults' = 0 PROVE Honest'
  <2>1. Honest
    BY <1>1, <1>12
  <2>2. SeenInv'
    BY <1>5, <1>8 DEF SeenInv, Stands
  <2>3. MarkersInv'
    BY <1>1, <1>5, <1>8, <2>1 DEF Honest, MarkersInv
  <2>4. FreshInv'
    BY <1>5, <1>6 DEF FreshInv
  <2>5. BackedInv'
    <3>1. Own.epoch = at.epoch /\ at.epoch \notin Epochs
      BY <1>1, AttemptIs DEF FlagsInv
    <3>2. \A w \in worlds : w.events \in Seq(Event) /\ Covers(w, w)
      <4> SUFFICES ASSUME NEW w \in worlds PROVE w.events \in Seq(Event) /\ Covers(w, w)
        OBVIOUS
      <4>1. w.events \in Seq(Event)
        BY DEF Types, World
      <4>2. QED
        BY <4>1, LenProperties, CoversIs
    <3>3. Own'.events \in Seq(Event) /\ Own.events \in Seq(Event)
      <4>1. Own'.events = <<>>
        BY <1>5 DEF Own
      <4>2. QED
        BY <4>1, EmptySeq, AttemptIs
    <3>4. \A w \in worlds \cup {Own} : w.epoch \in Epochs => \E v \in worlds \cup {Own'} : Covers(v, w)
      BY <3>1, <3>2
    <3>5. Backed(store, worlds \cup {Own'})
      BY <2>1, <3>2, <3>3, <3>4, BackedBy DEF Honest, BackedInv, Types
    <3>6. QED
      BY <1>1, <3>5 DEF BackedInv
  <2>6. NoGaps(store') /\ ChainInv' /\ PriorInv'
    BY <1>1, <2>1 DEF Honest, ChainInv, PriorInv
  <2>7. QED
    BY <2>2, <2>3, <2>4, <2>5, <2>6 DEF Honest
<1>13. QED
  BY <1>1, <1>7, <1>9, <1>10, <1>11, <1>12

-----------------------------------------------------------------------------
(* Between the rollouts.                                                   *)

\* A step that leaves the attempt, the store and the histories alone.
LEMMA OutsideStep ==
  ASSUME IInv, UNCHANGED <<content, store, blocked, at, faults, worlds, drifted>>, Counted',
         run' \in Run, run'.driftRetried <=> run'.drifts = 1, at.replay => ~run'.driftRetried,
         chain' \in Chain, prior' \in Prior, Honest => ChainInv' /\ PriorInv'
  PROVE  IInv'
<1> USE DEF IInv
<1>1. Types' /\ RunInv'
  BY DEF Types, RunInv
<1>2. FlagsInv' /\ TraceInv' /\ Functional(store')
  BY DEF FlagsInv, TraceInv
<1>3. ASSUME faults' = 0 PROVE Honest'
  <2>1. Honest
    BY <1>3
  <2>2. SeenInv' /\ MarkersInv' /\ FreshInv'
    BY <2>1 DEF Honest, SeenInv, MarkersInv, FreshInv, Replayed
  <2>3. NoGaps(store') /\ BackedInv'
    BY <2>1 DEF Honest, BackedInv, Own
  <2>4. QED
    BY <2>1, <2>2, <2>3 DEF Honest
<1>4. QED
  BY <1>1, <1>2, <1>3

LEMMA BumpEpochStep ==
  ASSUME IInv, BumpEpoch
  PROVE  IInv'
<1>1. Counted'
  BY ReplayAssumption DEF IInv, Types, Counted, BumpEpoch, Calm
<1>2. UNCHANGED <<content, store, blocked, run, at, chain, prior, faults, worlds, drifted>>
  BY DEF BumpEpoch
<1>3. Honest => ChainInv' /\ PriorInv'
  BY <1>2 DEF Honest, ChainInv, PriorInv
<1>4. QED
  BY <1>1, <1>2, <1>3, OutsideStep DEF IInv, Types, RunInv

LEMMA IdleIs ==
  ASSUME NEW no \in 0..MaxRuns, NEW identity \in Epochs, NEW pc \in RunPc,
         NEW new, new = [pc |-> pc, no |-> no, identity |-> identity, driftRetried |-> FALSE,
                         slowRetried |-> FALSE, drifts |-> 0]
  PROVE  new \in Run /\ new.drifts = 0 /\ new.driftRetried = FALSE
<1>1. 0 \in 0..1
  OBVIOUS
<1>2. QED
  BY <1>1 DEF Run

LEMMA StartRunStep ==
  ASSUME IInv, StartRun
  PROVE  IInv'
<1>1. /\ run.no < MaxRuns
      /\ run' = [IdleRun EXCEPT !.pc = "rollout", !.no = run.no + 1, !.identity = epoch]
      /\ UNCHANGED <<content, store, blocked, epoch, at, chain, prior, faults, slow, worlds, drifted>>
  BY DEF StartRun
<1>2. run.no + 1 \in 0..MaxRuns /\ epoch \in Epochs
  <2>1. run.no \in 0..MaxRuns /\ MaxRuns \in Nat
    BY RunIs, ReplayAssumption DEF IInv, Types
  <2>2. QED
    BY <1>1, <2>1, EpochIs DEF IInv
<1>3. run' \in Run /\ run'.drifts = 0 /\ run'.driftRetried = FALSE
  <2>1. run' = [pc |-> "rollout", no |-> run.no + 1, identity |-> epoch, driftRetried |-> FALSE,
                slowRetried |-> FALSE, drifts |-> 0]
    BY <1>1 DEF IdleRun
  <2>2. QED
    BY <1>2, <2>1, IdleIs DEF RunPc
<1>4. Honest => ChainInv' /\ PriorInv'
  BY <1>1 DEF Honest, ChainInv, PriorInv
<1>5. QED
  BY <1>1, <1>3, <1>4, CountersStay, OutsideStep DEF IInv, Types

LEMMA OverIs ==
  ASSUME Types, Over
  PROVE  /\ run' \in Run /\ run'.drifts = 0 /\ run'.driftRetried = FALSE
         /\ chain' \in Chain /\ chain'.events = <<>> /\ chain'.recorded = FALSE
<1>1. run' = [pc |-> "idle", no |-> run.no, identity |-> 0, driftRetried |-> FALSE,
              slowRetried |-> FALSE, drifts |-> 0]
  BY DEF Over, IdleRun
<1>2. run.no \in 0..MaxRuns /\ 0 \in Epochs
  BY RunIs, ReplayAssumption DEF Types, Epochs
<1>3. run' \in Run /\ run'.drifts = 0 /\ run'.driftRetried = FALSE
  BY <1>1, <1>2, IdleIs DEF RunPc
<1>4. chain' = [events |-> <<>>, timedOut |-> FALSE, regime |-> Unpinned, recorded |-> FALSE]
  BY DEF Over, NoChain
<1>5. <<>> \in Seq(Event) /\ <<>> \in Seq(Row)
  BY EmptySeq
<1>6. QED
  BY <1>3, <1>4, <1>5 DEF Chain

\* The experiment is over; what is left of it is what prior says.
LEMMA OverStep ==
  ASSUME IInv, Over,
         UNCHANGED <<content, store, blocked, epoch, at, faults, slow, worlds, drifted>>,
         prior' \in Prior, Honest => PriorInv'
  PROVE  IInv'
<1>1. /\ run' \in Run /\ run'.drifts = 0 /\ run'.driftRetried = FALSE
      /\ chain' \in Chain /\ chain'.recorded = FALSE
  BY OverIs DEF IInv
<1>2. ChainInv'
  BY <1>1 DEF ChainInv
<1>3. QED
  BY <1>1, <1>2, CountersStay, OutsideStep DEF IInv

LEMMA DiscardStep ==
  ASSUME IInv, Discard
  PROVE  IInv'
<1>1. /\ Over /\ UNCHANGED <<content, store, blocked, epoch, at, faults, slow, worlds, drifted>>
      /\ prior' = prior
  BY DEF Discard
<1>2. prior' \in Prior /\ (Honest => PriorInv')
  BY <1>1 DEF IInv, Types, Honest, PriorInv
<1>3. QED
  BY <1>1, <1>2, OverStep

LEMMA ChainIs ==
  ASSUME Types
  PROVE  /\ chain.events \in Seq(Row) /\ chain.regime \in Epochs \cup {Unpinned}
         /\ chain.recorded \in BOOLEAN /\ chain.timedOut \in BOOLEAN
         /\ ~chain.timedOut => chain.events \in Seq(Event)
BY DEF Types, Chain

\* A certificate speaks of the chain it was given for.
LEMMA CertifiedStep ==
  ASSUME IInv, Over, NEW verdict \in {"no_chain"} \cup Audited, prior' = Certified(verdict),
         verdict \in Audited => ~chain.timedOut,
         UNCHANGED <<content, store, blocked, epoch, at, faults, slow, worlds, drifted>>
  PROVE  IInv'
<1>1. PICK recorded \in BOOLEAN : recorded = (chain.recorded /\ chain.regime = run.identity)
  OBVIOUS
<1>2. PICK new : new = [verdict |-> verdict, inherited |-> FALSE, identity |-> run.identity,
                        events |-> chain.events, audited |-> chain.events, recorded |-> recorded]
  OBVIOUS
<1>3. prior' = new
  BY <1>1, <1>2 DEF Certified
<1>4. /\ new \in Prior /\ new.events = chain.events /\ new.audited = chain.events
      /\ new.identity = run.identity /\ new.recorded = recorded /\ new.verdict = verdict
  BY <1>2, ChainIs, RunIs DEF IInv, Types, Prior
<1>5. ASSUME Honest PROVE PriorInv'
  <2>1. recorded /\ verdict \in Audited => Stands(store, run.identity, chain.events)
    BY <1>1, <1>5 DEF Honest, ChainInv
  <2>2. QED
    BY <1>3, <1>4, <2>1 DEF PriorInv
<1>6. QED
  BY <1>3, <1>4, <1>5, OverStep

LEMMA CertifyStep ==
  ASSUME IInv, NothingToAudit \/ Audit
  PROVE  IInv'
<1>1. CASE NothingToAudit
  BY <1>1, CertifiedStep DEF NothingToAudit, Audited
<1>2. CASE Audit
  <2>1. PICK verdict \in Audited : prior' = Certified(verdict)
    BY <1>2 DEF Audit, Audited
  <2>2. QED
    BY <1>2, <2>1, CertifiedStep DEF Audit
<1>3. QED
  BY <1>1, <1>2

\* The same actions under the same identity, recorded both times, had the same results.
LEMMA InheritStep ==
  ASSUME IInv, Inherit
  PROVE  IInv'
<1> USE DEF IInv
<1>1. /\ prior.identity = run.identity /\ Acts(chain.events) = Acts(prior.events)
      /\ ~chain.timedOut
      /\ Over /\ UNCHANGED <<content, store, blocked, epoch, at, faults, slow, worlds, drifted>>
  BY DEF Inherit, Inheritable
<1>2. /\ prior.verdict \in Audited => prior.events \in Seq(Event)
      /\ prior.identity \in Epochs \cup {Unpinned} /\ prior.recorded \in BOOLEAN
  BY DEF Types, Prior
<1>3. PICK recorded \in BOOLEAN :
        recorded = (prior.recorded /\ chain.recorded /\ chain.regime = run.identity)
  OBVIOUS
<1>4. /\ prior' \in Prior /\ prior'.events = chain.events /\ prior'.audited = prior.audited
      /\ prior'.identity = prior.identity /\ prior'.recorded = recorded
      /\ prior'.verdict = prior.verdict
  <2>1. prior' = [prior EXCEPT !.inherited = TRUE, !.events = chain.events, !.recorded = recorded]
    BY <1>3 DEF Inherit
  <2>2. chain.events \in Seq(Event) /\ chain.events \in Seq(Row)
    BY <1>1, ChainIs
  <2>3. QED
    BY <2>1, <2>2 DEF Types, Prior
<1>5. ASSUME Honest PROVE PriorInv'
  <2> SUFFICES ASSUME recorded, prior.verdict \in Audited PROVE PriorInv'
    BY <1>4 DEF PriorInv
  <2>1. /\ Stands(store, prior.identity, prior.events) /\ prior.audited = prior.events
        /\ Stands(store, prior.identity, chain.events)
    BY <1>1, <1>3, <1>5 DEF Honest, PriorInv, ChainInv
  <2>2. chain.events = prior.events
    BY <1>1, <1>2, <2>1, ChainIs, StandsOnce
  <2>3. QED
    BY <1>1, <1>4, <2>1, <2>2 DEF PriorInv
<1>6. QED
  BY <1>1, <1>4, <1>5, OverStep

-----------------------------------------------------------------------------
(* The threads that outlive their attempts.                                *)

\* A late insert is a fault; first write wins as ever.
LEMMA LatePutStep ==
  ASSUME IInv, LateInv, LatePut
  PROVE  IInv'
<1> USE DEF IInv
<1>1. /\ Calm /\ faults' = faults + 1
      /\ UNCHANGED <<content, blocked, epoch, run, at, chain, prior, slow, worlds, drifted>>
  BY DEF LatePut, Fault
<1>2. PICK row \in StoreRow : store' = Inserted(row.key, row.out)
  BY DEF LatePut, LateInv
<1>3. store' \in SUBSET StoreRow /\ Functional(store')
  BY <1>2, InsertedIs DEF Types, StoreRow
<1>4. Counted' /\ faults' # 0
  BY <1>1, ReplayAssumption DEF Types, Counted, Calm
<1>5. Types' /\ RunInv'
  BY <1>1, <1>3, <1>4 DEF Types, RunInv
<1>6. FlagsInv' /\ TraceInv'
  BY <1>1 DEF FlagsInv, TraceInv
<1>7. QED
  BY <1>3, <1>4, <1>5, <1>6

LEMMA LateStep ==
  ASSUME IInv, LateInv, [Next]_vars
  PROVE  LateInv'
<1> USE DEF IInv, LateInv
<1>1. ASSUME LeavesPut PROVE LateInv'
  <2>1. CASE UNCHANGED late
    BY <2>1
  <2>2. CASE at.pc = "put" /\ late' = late \cup {[key |-> KeyNow, out |-> Last(at.world).out]}
    <3>1. PICK row : row = [key |-> KeyNow, out |-> Last(at.world).out]
      OBVIOUS
    <3>2. row \in StoreRow
      BY <2>2, <3>1, PutRow DEF StoreRow
    <3>3. QED
      BY <2>2, <3>1, <3>2
  <2>3. QED
    BY <1>1, <2>1, <2>2 DEF LeavesPut
<1>2. CASE TimeOut \/ SlowModel
  BY <1>1, <1>2 DEF TimeOut, SlowModel
<1>3. CASE LatePut
  BY <1>3 DEF LatePut
<1>4. CASE ~TimeOut /\ ~SlowModel /\ ~LatePut
  BY <1>4
  DEF Next, vars, BumpEpoch, StartRun, StartAttempt, AskLive, Serve, Miss, ReadFails, CatchUp,
      CaughtUp, Drift, Execute, Put, Stop, Inherit, NothingToAudit, Audit, Discard
<1>5. QED
  BY <1>2, <1>3, <1>4

-----------------------------------------------------------------------------
(* The theorems.                                                           *)

LEMMA InitInvariant == Init => IInv /\ LateInv
<1> SUFFICES ASSUME Init PROVE IInv /\ LateInv
  OBVIOUS
<1>1. /\ content \in BOOLEAN /\ store = {} /\ blocked = {} /\ epoch = 0 /\ run = IdleRun
      /\ late = {}
      /\ at = NoAttempt /\ chain = NoChain /\ prior = NoPrior /\ faults = 0 /\ slow = 0
      /\ worlds = {} /\ drifted = {}
  BY DEF Init
<1>2. <<>> \in Seq(Event) /\ <<>> \in Seq(Row) /\ Len(<<>>) = 0
  BY EmptySeq
<1>3. run \in Run /\ run.drifts = 0 /\ run.driftRetried = FALSE
  BY <1>1, ReplayAssumption DEF IdleRun, Run, RunPc, Epochs
<1>4. chain \in Chain /\ chain.recorded = FALSE /\ prior \in Prior /\ prior.recorded = FALSE
  BY <1>1, <1>2 DEF NoChain, Chain, NoPrior, Prior
<1>5. Types /\ RunInv
  BY <1>1, <1>3, <1>4, NoAttemptIs, ReplayAssumption DEF Types, RunInv, Counted
<1>6. FlagsInv /\ TraceInv
  BY <1>1, <1>2, NoAttemptIs, UnpinnedIs DEF FlagsInv, TraceInv, Working
<1>7. SeenInv /\ MarkersInv /\ FreshInv
  BY <1>1, <1>2, NoAttemptIs DEF SeenInv, MarkersInv, FreshInv, Stands
<1>8. Functional(store) /\ NoGaps(store) /\ BackedInv
  BY <1>1 DEF Functional, NoGaps, BackedInv, Backed
<1>9. ChainInv /\ PriorInv
  BY <1>4 DEF ChainInv, PriorInv
<1>10. QED
  BY <1>1, <1>5, <1>6, <1>7, <1>8, <1>9 DEF IInv, LateInv, Honest

LEMMA NextStep ==
  ASSUME IInv, LateInv, [Next]_vars
  PROVE  IInv'
<1>1. ASSUME NEW a \in Actions, AskLive(a) \/ Serve(a) \/ Miss(a) \/ ReadFails(a)
      PROVE  IInv'
  BY <1>1, AskLiveStep, ServeStep, MissStep, ReadFailsStep
<1>2. CASE CatchUp \/ CaughtUp \/ Drift \/ Execute \/ Put \/ TimeOut \/ Stop \/ SlowModel
  BY <1>2, CatchUpStep, CaughtUpStep, DriftStep, ExecuteStep, PutStep, TimeOutStep, StopStep,
     SlowModelStep
<1>3. CASE BumpEpoch \/ LatePut \/ StartRun \/ StartAttempt \/ Inherit \/ NothingToAudit \/ Audit \/ Discard
  BY <1>3, BumpEpochStep, LatePutStep, StartRunStep, StartAttemptStep, InheritStep, CertifyStep, DiscardStep
<1>4. CASE UNCHANGED vars
  <2>1. UNCHANGED <<content, store, blocked, epoch, run, at, chain, prior, faults, slow, worlds,
                    drifted>>
    BY <1>4 DEF vars
  <2>2. Honest => ChainInv' /\ PriorInv'
    BY <2>1 DEF Honest, ChainInv, PriorInv
  <2>3. QED
    BY <2>1, <2>2, CountersStay, OutsideStep DEF IInv, Types, RunInv
<1>5. QED
  BY <1>1, <1>2, <1>3, <1>4 DEF Next

LEMMA Invariance == Spec => [](IInv /\ LateInv)
BY InitInvariant, NextStep, LateStep, PTL DEF Spec

LEMMA InvariantTypes == IInv /\ LateInv => TypeOK
<1> SUFFICES ASSUME IInv, LateInv PROVE TypeOK
  OBVIOUS
<1>1. /\ \A row \in store \cup late : row.key \in Key /\ row.out \in Output
      /\ at.pc \in {"none", "ready", "catchup", "execute", "put"}
      /\ at.seen \in Seq(Event) /\ at.world \in Seq(Event) /\ at.asked \in Seq(Actions)
      /\ chain.events \in Seq(Row) /\ chain.regime \in Epochs \cup {Unpinned}
      /\ prior.verdict \in {"none", "deterministic", "forked", "no_chain"}
  BY DEF IInv, LateInv, Types, StoreRow, Attempt, Chain, Prior, Audited
<1>2. QED
  BY <1>1, EpochIs DEF IInv, Types, Run, RunPc, TypeOK

\* What was replayed is what one environment showed: the rows that stand for it are all of
\* one recorded chain.
LEMMA InvariantSeen == IInv => SeenByOneEnvironment
<1> SUFFICES ASSUME IInv, faults = 0
             PROVE  \E w \in worlds \cup {Own} : Covers(w, [Own EXCEPT !.events = at.seen])
  BY DEF SeenByOneEnvironment
<1> USE DEF IInv
<1>1. PICK sight : sight = [Own EXCEPT !.events = at.seen]
  OBVIOUS
<1>2. sight.epoch = at.epoch /\ sight.events = at.seen /\ sight.events \in Seq(Event)
  BY <1>1, AttemptIs DEF Own
<1>3. Honest
  OBVIOUS
<1>4. PICK n \in Nat, e \in Epochs \cup {Unpinned}, asked \in Seq(Actions), seen \in Seq(Event) :
        n = Len(seen) /\ e = at.epoch /\ asked = at.asked /\ seen = at.seen
  BY AttemptIs
<1>5. Own.epoch = e /\ Own.events = at.world /\ at.world \in Seq(Event)
  BY <1>4, AttemptIs
<1>6. CASE n <= Len(at.world) /\ \A i \in 1..n : seen[i] = at.world[i]
  <2>1. Covers(Own, sight)
    BY <1>2, <1>4, <1>5, <1>6, CoversIs
  <2>2. QED
    BY <1>1, <2>1
<1>7. CASE Replayed /\ n # 0
  <2>1. Stands(store, e, seen)
    BY <1>3, <1>4, <1>7 DEF Honest, SeenInv
  <2>2. n <= Len(asked) /\ \A i \in 1..n : asked[i] = seen[i].act
    BY <1>4, AttemptIs DEF TraceInv
  <2>3. \A i \in 1..n : KeyOf(e, Acts(seen), i) = KeyOf(e, asked, i)
    BY <1>4, <2>2, KeysAgree
  <2>4. n \in 1..n
    BY <1>7
  <2>5. PICK row : row = [key |-> KeyOf(e, asked, n), out |-> seen[n].out]
    OBVIOUS
  <2>6. row \in store /\ row.key = KeyOf(e, asked, n)
    BY <1>4, <2>1, <2>3, <2>4, <2>5 DEF Stands
  <2>7. PICK acts \in Seq(Actions) : acts = SubSeq(asked, 1, n) /\ Len(acts) = n
                                     /\ \A i \in 1..n : acts[i] = asked[i]
    <3>1. n \in 0..Len(asked)
      BY <2>2, LenProperties
    <3>2. QED
      BY <3>1, FirstOf
  <2>8. row.key.epoch = e /\ row.key.acts = acts
    BY <2>6, <2>7 DEF KeyOf
  <2>9. PICK w \in worlds \cup {Own} : ShownBy(store, w, row)
    BY <1>3, <2>6 DEF Honest, BackedInv, Backed
  <2>10. /\ w.epoch = e /\ n <= Len(w.events)
         /\ \A i \in 1..n : /\ w.events[i].act = acts[i]
                            /\ [key |-> KeyOf(e, acts, i), out |-> w.events[i].out] \in store
    BY <2>7, <2>8, <2>9 DEF ShownBy
  <2>11. w.events \in Seq(Event) /\ Len(w.events) \in Nat
    <3>1. w.events \in Seq(Event)
      BY <1>5 DEF Types, World
    <3>2. QED
      BY <3>1, LenProperties
  <2>12. ASSUME NEW i \in 1..n
         PROVE  seen[i] = w.events[i]
    <3>1. KeyOf(e, acts, i) = KeyOf(e, Acts(seen), i)
      <4>1. i \in Nat /\ i <= Len(acts) /\ i <= Len(asked) /\ \A j \in 1..i : acts[j] = asked[j]
        BY <2>2, <2>7, LenProperties
      <4>2. QED
        BY <2>3, <4>1, KeyOfSame
    <3>2. PICK k, r, q : /\ k = KeyOf(e, acts, i) /\ r = [key |-> k, out |-> seen[i].out]
                         /\ q = [key |-> k, out |-> w.events[i].out]
      OBVIOUS
    <3>3. r \in store /\ q \in store /\ r.key = k /\ q.key = k
      BY <1>4, <2>1, <2>10, <3>1, <3>2 DEF Stands
    <3>4. r = q
      BY <3>3 DEF Functional
    <3>5. seen[i].out = w.events[i].out
      BY <3>2, <3>4
    <3>6. seen[i].act = w.events[i].act
      BY <2>2, <2>7, <2>10
    <3>7. i \in 1..Len(seen) /\ i \in 1..Len(w.events)
      BY <1>4, <2>10, <2>11
    <3>8. /\ seen[i] = [act |-> seen[i].act, out |-> seen[i].out]
          /\ w.events[i] = [act |-> w.events[i].act, out |-> w.events[i].out]
      BY <2>11, <3>7, EventIs
    <3>9. QED
      BY <3>5, <3>6, <3>8
  <2>13. Covers(w, sight)
    BY <1>2, <1>4, <2>10, <2>11, <2>12, CoversIs
  <2>14. QED
    BY <1>1, <2>13
<1>8. (n <= Len(at.world) /\ \A i \in 1..n : seen[i] = at.world[i]) \/ (Replayed /\ n # 0)
  <2>1. CASE n = 0
    BY <2>1, AttemptIs
  <2>2. CASE n # 0 /\ ~Replayed
    <3>1. at.live /\ at.pc \in {"ready", "execute", "put"}
      BY <1>4, <2>2, AttemptIs DEF Replayed, Working, FlagsInv
    <3>2. CASE at.pc = "put"
      BY <1>4, <3>2, AttemptIs DEF TraceInv, Working
    <3>3. CASE at.pc # "put"
      BY <1>4, <3>1, <3>3, AttemptIs DEF TraceInv
    <3>4. QED
      BY <3>2, <3>3
  <2>3. QED
    BY <2>1, <2>2
<1>9. QED
  BY <1>6, <1>7, <1>8

LEMMA InvariantGaps == IInv => RecordedChainsHaveNoGaps
<1> SUFFICES ASSUME IInv, faults = 0, NEW row \in store, NEW n \in 1..Len(row.key.acts)
             PROVE  Stored([row.key EXCEPT !.acts = SubSeq(@, 1, n)])
  BY DEF RecordedChainsHaveNoGaps
<1>1. PICK other \in store : other.key = KeyOf(row.key.epoch, row.key.acts, n)
  BY DEF IInv, Honest, NoGaps
<1>2. row.key \in Key
  BY DEF IInv, Types, StoreRow
<1>3. [row.key EXCEPT !.acts = SubSeq(@, 1, n)] = KeyOf(row.key.epoch, row.key.acts, n)
  <2>1. PICK e, acts, first : row.key = [epoch |-> e, acts |-> acts] /\ first = SubSeq(acts, 1, n)
    BY <1>2 DEF Key
  <2>2. [[epoch |-> e, acts |-> acts] EXCEPT !.acts = first] = [epoch |-> e, acts |-> first]
    OBVIOUS
  <2>3. row.key.epoch = e /\ row.key.acts = acts
    BY <2>1
  <2>4. QED
    BY <2>1, <2>2, <2>3 DEF KeyOf
<1>4. QED
  BY <1>1, <1>3 DEF Stored

\* _materialize: once an attempt has caught up, everything its policy saw, replayed or live, is
\* what the environment it will be graded in showed; however often the store failed open.
THEOREM LiveSafe == Spec => []LiveRolloutSeesItsOwnEnvironment
<1>1. IInv => LiveRolloutSeesItsOwnEnvironment
  BY DEF IInv, TraceInv, LiveRolloutSeesItsOwnEnvironment
<1>2. QED
  BY <1>1, Invariance, PTL

\* As long as no store operation failed or landed after the attempt that issued it (a cancelled
\* put goes on in its thread), a policy that replays sees what one environment of its
\* scope really showed, though many rollouts recorded it, and no recorded chain has a gap.
THEOREM ReplaySafe == Spec => []ReplayIsReal
<1>1. IInv /\ LateInv => ReplayIsReal
  BY InvariantTypes, InvariantSeen, InvariantGaps DEF ReplayIsReal
<1>2. QED
  BY <1>1, Invariance, PTL

\* An audit's verdict that is inherited because the actions are the same covers the outputs
\* too, when both baselines recorded their chains under the scope of their identity; the
\* no_chain of a chain that timed out, inherited by one that did not, is no audit's.
THEOREM CertificatesSafe == Spec => []InheritedCertificatesCoverOutputs
<1>1. IInv => InheritedCertificatesCoverOutputs
  BY DEF IInv, Honest, PriorInv, Audited, InheritedCertificatesCoverOutputs
<1>2. QED
  BY <1>1, Invariance, PTL

\* _blocked_key: a step that drifted is served to no later rollout, so every drift is at a
\* step that never drifted before, unless the store lost the marker.
THEOREM DriftsSafe == Spec => NoStepDriftsTwice
<1>1. IInv /\ [Next]_vars =>
        [run'.drifts > run.drifts /\ faults' = 0 => drifted' # drifted]_vars
  <2> SUFFICES ASSUME IInv, Next, run'.drifts > run.drifts, faults' = 0
               PROVE  drifted' # drifted
    OBVIOUS
  <2> USE DEF IInv
  <2>1. CASE Drift
    <3>1. PICK n \in Nat : n = Len(at.world) + 1 /\ n \in 1..Len(at.seen)
      BY <2>1, AttemptIs DEF Drift
    <3>2. at.pc = "catchup" /\ faults = 0 /\ drifted' = drifted \cup {Prefix(n)}
      BY <2>1, <3>1 DEF Drift, Fault, Types, Counted
    <3>3. Prefix(n) = KeyOf(at.epoch, at.asked, n)
      BY DEF Prefix, Scoped, KeyOf
    <3>4. Prefix(n) \notin drifted
      BY <3>1, <3>2, <3>3 DEF Honest, MarkersInv, Replayed
    <3>5. QED
      BY <3>2, <3>4
  <2>2. CASE ~Drift
    <3>1. run'.drifts = run.drifts \/ run'.drifts = 0
      <4>1. CASE StartRun
        BY <4>1 DEF StartRun, IdleRun
      <4>2. CASE Over
        BY <4>2, OverIs
      <4>3. CASE Stop \/ TimeOut
        BY <4>3, EndedRun DEF Stop, TimeOut, Types, RunPc
      <4>4. CASE SlowModel
        BY <4>4 DEF SlowModel, Types, Run
      <4>5. CASE ~StartRun /\ ~Over /\ ~Stop /\ ~TimeOut /\ ~SlowModel
        BY <2>2, <4>5
        DEF Next, BumpEpoch, LatePut, StartAttempt, AskLive, Serve, Miss, ReadFails, CatchUp, CaughtUp, Execute,
            Put, Inherit, NothingToAudit, Audit, Discard
      <4>6. QED
        BY <4>1, <4>2, <4>3, <4>4, <4>5
    <3>2. run.drifts \in 0..1
      BY RunIs DEF Types
    <3>3. QED
      BY <3>1, <3>2
  <2>3. QED
    BY <2>1, <2>2
<1>2. QED
  BY <1>1, Invariance, PTL DEF Spec, NoStepDriftsTwice
=============================================================================
