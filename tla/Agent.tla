-------------------------------- MODULE Agent --------------------------------
(***************************************************************************)
(* The shipped policy's step (src/policy/core.py, LlmAgent.act): request    *)
(* assembly and context fitting, overflow retrims, parse repair and the     *)
(* thinking cutoff; under it one completion call: the cache                 *)
(* (src/plugins/caching/llm_cache.py) and the OpenAI-compatible provider    *)
(* with its transport retries and its reasoning budget                      *)
(* (src/llm/openai_completion_backend.py, backend.py, transport.py).        *)
(*                                                                         *)
(* A text is its size: est, what estimate_message_tokens says, and real,    *)
(* what the server counts.  Calibration is in percent.  The endpoint is     *)
(* deterministic: one reply per request body.                               *)
(***************************************************************************)
EXTENDS Integers, Sequences, FiniteSets, SequencesExt

CONSTANTS
  Revisions,       \* deployments: provider, base_url and model_name
  Informs,         \* those whose overflow message tells the input tokens
  Reports,         \* those whose stream ends with a usage chunk
  Configs,         \* provider configs: a deployment, enable_thinking, a reasoning budget or none
  Replies,         \* what the endpoint may decode for a body
  Sizes,           \* sizes of an executed step's group
  Prompt,          \* size of the system prompt, the task and the tools
  Note,            \* size of the note on omitted steps
  Failed,          \* size of a failed step's note
  Repair,          \* size of a repair turn
  Echo,            \* size of a repair turn that echoes the completion
  Room,            \* max_context_length - max_completion_tokens
  OutputRetries,   \* max_output_retries
  RetrimBudget,    \* RETRIM_BUDGET
  MaxCalibration,  \* MAX_CALIBRATION, in percent
  CutoffThreshold, \* LENGTH_CUTOFF_ABORT_THRESHOLD
  MaxSteps,        \* bound: steps whose observation is sent on
  MaxRollouts,     \* bound: rollouts, one after the other, over one cache
  MaxMishaps       \* bound: bodies answered with anything but a call, outages and store
                   \* operations that fail open

Size == [est: Nat, real: Nat]

\* call: a tool call that validates.  long, edge: the same after reasoning over the budget,
\* by more than the recount interval or by less.  runaway: reasoning to the token limit.
\* silent: no tool call.  bad: one that does not validate.  cut: one truncated at the
\* limit.  rejected: one the server itself refuses.
AllReplies == {"call", "long", "edge", "runaway", "silent", "bad", "cut", "rejected"}

ASSUME AgentAssumption ==
  /\ Configs \subseteq [revision: Revisions, thinking: {"unset", "on", "off"}, budget: BOOLEAN]
  /\ \A c \in Configs : c.budget => c.thinking = "on"
  /\ Replies \subseteq AllReplies
  /\ Sizes \cup {Prompt, Note, Failed, Repair, Echo} \subseteq Size
  /\ {Room, OutputRetries, RetrimBudget, MaxCalibration, CutoffThreshold,
      MaxSteps, MaxRollouts, MaxMishaps} \subseteq Nat
  /\ 0 < Prompt.est           \* every message is estimated at 8 tokens or more
  /\ 100 <= MaxCalibration    \* 4.0
  /\ 0 < CutoffThreshold      \* 2

VARIABLES
  provider,    \* [revision, body, reply]: what the endpoint has decoded so far
  store,       \* [key, completion]: the cache table
  cfg,         \* the rollout's provider config
  pc,
  trajectory,  \* groups [kind, size], one per step
  window,      \* calibration
  thinking,    \* [off, cutoffs]: _thinking_disabled, _length_cutoff_missing_tool_calls
  act,         \* [attempt, retrims]
  request,     \* the request under way
  completion,  \* its completion
  rollouts, troubles,
  log,         \* history: what this rollout sent, was told and observed, in order
  past,        \* history: the log of the rollout before, if of the same config
  runaways     \* history: completions of this rollout cut off while thinking

agent == <<trajectory, window, thinking>>
vars == <<provider, store, cfg, pc, agent, act, request, completion, rollouts, troubles,
          log, past, runaways>>

Group == [kind: {"real", "failed"}, size: Size]
Turns == {"none", "repair", "echo"}
Request == [dropped: Nat, groups: Seq(Group), turn: Turns, thinking: {"default", "off"}]
Kinds == {"call", "missing", "invalid"}
Completion == [kind: Kinds, length: BOOLEAN, usage: BOOLEAN]
Nothing == [dropped |-> 0, groups |-> <<>>, turn |-> "none", thinking |-> "default"]
NoCompletion == [kind |-> "missing", length |-> FALSE, usage |-> FALSE]

TypeOK ==
  /\ cfg \in Configs
  /\ pc \in {"idle", "lookup", "live", "parse", "acting", "over"}
  /\ trajectory \in Seq(Group)
  /\ window \in 100..MaxCalibration
  /\ thinking \in [off: BOOLEAN, cutoffs: 0..CutoffThreshold]
  /\ act \in [attempt: 0..OutputRetries, retrims: 0..RetrimBudget]
  /\ request \in Request /\ completion \in Completion
  /\ rollouts \in 0..MaxRollouts /\ troubles \in 0..MaxMishaps
  /\ runaways \in Nat

-----------------------------------------------------------------------------
(* _RequestBuilder and _ContextWindow                                      *)

TurnSize(turn) ==
  CASE turn = "none" -> [est |-> 0, real |-> 0] [] turn = "repair" -> Repair [] turn = "echo" -> Echo

NoteSize(dropped) == IF dropped > 0 THEN Note ELSE [est |-> 0, real |-> 0]

\* The numbers of a sequence, added up from its first on.
Sum(s) ==
  LET upto[n \in 0..Len(s)] == IF n = 0 THEN 0 ELSE upto[n - 1] + s[n]
  IN upto[Len(s)]

Estimates(groups) == Sum([i \in DOMAIN groups |-> groups[i].size.est])
RealTokens(groups) == Sum([i \in DOMAIN groups |-> groups[i].size.real])

\* estimate_request_tokens, and what the server counts
Estimate(r) ==
  Prompt.est + TurnSize(r.turn).est + NoteSize(r.dropped).est + Estimates(r.groups)
Input(r) ==
  Prompt.real + TurnSize(r.turn).real + NoteSize(r.dropped).real + RealTokens(r.groups)

\* Slip: the last group is kept, whatever it is.
LastGroup(groups) == IF groups = <<>> THEN 0 ELSE Len(groups) - 1

\* The retention floor: the newest executed step, or the last group before there is one.
Floor(groups) ==
  LET executed == {i \in DOMAIN groups : groups[i].kind = "real"}
  IN IF executed = {} THEN LastGroup(groups)
     ELSE (CHOOSE i \in executed : \A j \in executed : j <= i) - 1

Suffix(groups, start) == SubSeq(groups, start + 1, Len(groups))

\* Slip: repair turns are appended after the fit and not reserved for.
FitsWithoutTurn(groups, turn, calibration) ==
  (Prompt.est + Estimates(groups)) * calibration <= Room * 100

\* The note on omitted steps is not reserved for either.
Fits(groups, turn, calibration) ==
  (Prompt.est + TurnSize(turn).est + Estimates(groups)) * calibration <= Room * 100

\* fit: the fewest groups dropped, oldest first, never past the floor.
Dropped(groups, turn, calibration) ==
  CHOOSE start \in 0..Floor(groups) :
    /\ start = Floor(groups) \/ Fits(Suffix(groups, start), turn, calibration)
    /\ \A less \in 0..(start - 1) : ~Fits(Suffix(groups, less), turn, calibration)

Fitted(groups, turn, calibration, mode) ==
  LET start == Dropped(groups, turn, calibration)
  IN [dropped |-> start, groups |-> Suffix(groups, start), turn |-> turn, thinking |-> mode]

\* Slip: a pathological server pushes the density as far as it likes.
Unclamped(calibration) == calibration

Clamped(calibration) == IF calibration > MaxCalibration THEN MaxCalibration ELSE calibration
AtLeast(low, calibration) == IF calibration < low THEN low ELSE calibration

\* calibrate_from_usage
Calibrated(calibration, r, c) ==
  IF c.usage THEN Clamped(AtLeast(100, (Input(r) * 100) \div Estimate(r))) ELSE calibration

\* shrink_for_overflow: by what the server counted with a margin, or blindly.
Shrunk(calibration, r, informed) ==
  LET target == IF informed THEN (Input(r) * 105) \div Estimate(r) ELSE (calibration * 13) \div 10
  IN Clamped(AtLeast(calibration, target))

-----------------------------------------------------------------------------
(* The request body, its cache key and the completion of a reply.          *)

\* _resolved_thinking
Resolved(r) == IF r.thinking = "default" THEN cfg.thinking ELSE "off"
Budgeted(r) == cfg.budget /\ Resolved(r) = "on"

Body(r) == [messages |-> [dropped |-> r.dropped, groups |-> r.groups, turn |-> r.turn],
            thinking |-> Resolved(r)]

\* Slip: only what the provider receives is hashed.
BodyOnly(r) == [revision |-> cfg.revision, body |-> Body(r), budget |-> FALSE]

\* The provider revision, and cache_key: the body and the client's own budget, which is no
\* part of it.
Key(r) == [revision |-> cfg.revision, body |-> Body(r), budget |-> Budgeted(r)]

\* _budget_aborted_completion: shaped like a runaway, without a usage chunk.
Aborted == [kind |-> "missing", length |-> TRUE, usage |-> FALSE]

\* _completion_from_stream.  Whether reasoning a little over the budget is caught depends on
\* where the stream is cut into chunks: the watch recounts at intervals.
Completions(reply, revision, budgeted) ==
  LET full(kind, length) == [kind |-> kind, length |-> length, usage |-> revision \in Reports]
  IN CASE reply = "call" -> {full("call", FALSE)}
       [] reply = "long" -> IF budgeted THEN {Aborted} ELSE {full("call", FALSE)}
       [] reply = "edge" -> {full("call", FALSE)} \cup (IF budgeted THEN {Aborted} ELSE {})
       [] reply = "runaway" -> IF budgeted THEN {Aborted} ELSE {full("missing", TRUE)}
       [] reply = "silent" -> {full("missing", FALSE)}
       [] reply = "bad" -> {full("invalid", FALSE)}
       [] reply = "cut" -> {full("invalid", TRUE)}
       [] OTHER -> {}

Mishaps == troubles + Cardinality({p \in provider : p.reply # "call"})

Reply(r, reply) == [revision |-> cfg.revision, body |-> Body(r), reply |-> reply]

\* One reply per deployment and body, decided when it is first asked for.
Decoded(r) ==
  LET known == {p \in provider : p.revision = cfg.revision /\ p.body = Body(r)}
  IN IF known # {} THEN {p.reply : p \in known}
     ELSE IF Mishaps < MaxMishaps THEN Replies ELSE Replies \cap {"call"}

-----------------------------------------------------------------------------
(* LlmAgent                                                                *)

Fresh == [attempt |-> 0, retrims |-> 0]
Awake == [off |-> FALSE, cutoffs |-> 0]

Said(what, value) == [what |-> what, value |-> value]

\* The first rollout's history is kept, the next one's as long as it repeats it.
Heard(entries) ==
  IF rollouts = 1 \/ \E p \in past : IsPrefix(log, p)
  THEN log' = log \o entries /\ UNCHANGED past
  ELSE log' = <<>> /\ past' = {}

\* Between two acts nothing is under way.
Quiet == act' = Fresh /\ request' = Nothing /\ completion' = NoCompletion

\* Slip: the window is built once, with the agent.
KeepWindow == UNCHANGED window

NewWindow == window' = 100

\* reset, for the next rollout
StartRollout ==
  /\ pc = "over" /\ rollouts < MaxRollouts
  /\ rollouts' = rollouts + 1
  /\ cfg' \in Configs
  /\ past' = IF rollouts > 0 /\ cfg' = cfg THEN {log} ELSE {}
  /\ trajectory' = <<>> /\ thinking' = Awake /\ NewWindow
  /\ log' = <<>> /\ runaways' = 0
  /\ pc' = "idle"
  /\ UNCHANGED <<provider, store, act, request, completion, troubles>>

Init ==
  /\ provider = {} /\ store = {}
  /\ cfg \in Configs
  /\ pc = "over"
  /\ trajectory = <<>> /\ window = 100 /\ thinking = Awake
  /\ act = Fresh /\ request = Nothing /\ completion = NoCompletion
  /\ rollouts = 0 /\ troubles = 0
  /\ log = <<>> /\ past = {} /\ runaways = 0

\* The next request goes out, after "heard", if anything, was recorded.
Send(groups, turn, calibration, off, heard) ==
  LET r == Fitted(groups, turn, calibration, IF off THEN "off" ELSE "default")
  IN /\ request' = r
     /\ Heard(heard \o <<Said("request", r)>>)
     /\ pc' = "lookup"

\* Submit, the step limit, a deadline or a terminal observation.
EndRollout ==
  /\ pc \in {"idle", "acting"} /\ pc' = "over"
  /\ Quiet
  /\ UNCHANGED <<provider, store, cfg, agent, rollouts, troubles, log, past, runaways>>

BeginAct ==
  /\ pc = "idle"
  /\ Send(trajectory, "none", window, thinking.off, <<>>)
  /\ UNCHANGED <<provider, store, cfg, agent, act, completion, rollouts, troubles, runaways>>

\* observe, for each executed action of the batch.
Observe(size) ==
  /\ pc = "acting" /\ Len(trajectory) < MaxSteps
  /\ trajectory' = Append(trajectory, [kind |-> "real", size |-> size])
  /\ Heard(<<Said("observed", size)>>)
  /\ \/ pc' = "acting" /\ UNCHANGED <<act, request, completion>>
     \/ pc' = "idle" /\ Quiet
  /\ UNCHANGED <<provider, store, cfg, window, thinking, rollouts, troubles, runaways>>

-----------------------------------------------------------------------------
(* CachingCompletionBackend.complete and OpenAICompletionBackend._complete *)

Trouble == Mishaps < MaxMishaps /\ troubles' = troubles + 1
Rows(r) == {row \in store : row.key = Key(r)}

\* Back in _complete_fitted with a completion; act parses it at once.
Return(c) ==
  /\ completion' = c
  /\ window' = Calibrated(window, request, c)
  /\ Heard(<<Said("completion", c)>>)
  /\ runaways' = IF c.length /\ c.kind # "call" /\ Resolved(request) = "on" THEN runaways + 1
                                                                        ELSE runaways
  /\ pc' = IF c.kind = "call" THEN "acting" ELSE "parse"

Hit ==
  /\ pc = "lookup"
  /\ \E row \in Rows(request) : Return(row.completion)
  /\ UNCHANGED <<provider, store, cfg, trajectory, thinking, act, request, rollouts, troubles>>

\* No row, or the read fails open.
Miss ==
  /\ pc = "lookup"
  /\ \/ Rows(request) = {} /\ UNCHANGED troubles
     \/ Rows(request) # {} /\ Trouble
  /\ pc' = "live"
  /\ UNCHANGED <<provider, store, cfg, agent, act, request, completion, rollouts, log, past, runaways>>

\* The first write of a key wins; a write may fail open.
Put(c) ==
  \/ /\ store' = IF Rows(request) = {} THEN store \cup {[key |-> Key(request), completion |-> c]} ELSE store
     /\ UNCHANGED troubles
  \/ Trouble /\ UNCHANGED store

Answer ==
  /\ pc = "live" /\ Input(request) <= Room
  /\ \E reply \in Decoded(request) :
       /\ provider' = provider \cup {Reply(request, reply)}
       /\ \E c \in Completions(reply, cfg.revision, Budgeted(request)) : Put(c) /\ Return(c)
  /\ UNCHANGED <<cfg, trajectory, thinking, act, request, rollouts>>

\* Stalls, dropped streams, 429s and 5xxs are retried by transient_retrying without a trace;
\* one more than OPENAI_CLIENT_RETRY_BUDGET in a row is a CompletionInfraError.
Outage ==
  /\ pc = "live" /\ Trouble
  /\ pc' = "over" /\ Quiet
  /\ UNCHANGED <<provider, store, cfg, agent, rollouts, log, past, runaways>>

\* ContextWindowExceededError: shrink and refit, or give the rollout up.
Overflow ==
  /\ pc = "live" /\ Input(request) > Room
  /\ LET informed == cfg.revision \in Informs
         heard == <<Said("overflow", informed)>>
         shrunk == Shrunk(window, request, informed)
     IN \/ /\ shrunk > window /\ act.retrims < RetrimBudget
           /\ window' = shrunk
           /\ act' = [act EXCEPT !.retrims = @ + 1]
           /\ Send(trajectory, request.turn, shrunk, request.thinking = "off", heard)
           /\ UNCHANGED completion
        \/ /\ shrunk <= window \/ act.retrims = RetrimBudget
           /\ pc' = "over" /\ Heard(heard) /\ Quiet
           /\ UNCHANGED window
  /\ UNCHANGED <<provider, store, cfg, trajectory, thinking, rollouts, troubles, runaways>>

-----------------------------------------------------------------------------
(* act, after the completion                                               *)

Toggleable == cfg.thinking # "unset"

\* No valid action in this step; the loop counts it and calls act again.
FailStep ==
  /\ trajectory' = Append(trajectory, [kind |-> "failed", size |-> Failed])
  /\ pc' = "idle" /\ Quiet
  /\ UNCHANGED <<log, past>>

\* Another attempt with a repair turn, or the step has failed.
Retry(turn, off) ==
  \/ /\ act.attempt < OutputRetries
     /\ act' = [act EXCEPT !.attempt = @ + 1, !.retrims = 0]
     /\ Send(trajectory, turn, window, off, <<>>)
     /\ UNCHANGED <<trajectory, completion>>
  \/ act.attempt = OutputRetries /\ FailStep

\* ProviderRejectedToolCallError: not retried by the transport, never cached.
Rejected ==
  /\ pc = "live" /\ Input(request) <= Room
  /\ "rejected" \in Decoded(request)
  /\ provider' = provider \cup {Reply(request, "rejected")}
  /\ Retry("repair", request.thinking = "off")
  /\ UNCHANGED <<store, cfg, window, thinking, rollouts, troubles, runaways>>

\* Slip: thinking goes off for this step only.
OffThisTime(state) == state

\* Slip: whatever the deployment declares.
OffAnyway(state) == [state EXCEPT !.off = TRUE]

\* "if self.thinking_toggleable": off for the rest of the rollout.
SwitchedOff(state) == IF Toggleable THEN [state EXCEPT !.off = TRUE] ELSE state

TurnFor(c) == IF c.kind = "missing" THEN "echo" ELSE "repair"

\* A completion that is no action.
Reject ==
  /\ pc = "parse"
  /\ LET c == completion
         cutoffs == thinking.cutoffs + (IF c.length /\ c.kind = "missing" THEN 1 ELSE 0)
         counted == [thinking EXCEPT !.cutoffs = cutoffs]
         payloadTooLong == c.length /\ c.kind = "invalid" /\ (thinking.off \/ ~Toggleable)
         after == IF c.length THEN SwitchedOff(counted) ELSE counted
     IN \/ /\ ~c.length
           /\ Retry(TurnFor(c), request.thinking = "off") /\ UNCHANGED thinking
        \/ /\ c.length /\ c.kind = "missing" /\ cutoffs >= CutoffThreshold
           /\ pc' = "over" /\ thinking' = counted /\ Quiet
           /\ UNCHANGED <<trajectory, log, past>>
        \/ payloadTooLong /\ FailStep /\ UNCHANGED thinking
        \/ /\ c.length /\ ~payloadTooLong /\ cutoffs < CutoffThreshold
           /\ thinking' = after
           /\ Retry(TurnFor(c), request.thinking = "off" \/ Toggleable)
  /\ UNCHANGED <<provider, store, cfg, window, rollouts, troubles, runaways>>

-----------------------------------------------------------------------------
Next ==
  \/ StartRollout \/ EndRollout \/ BeginAct
  \/ \E size \in Sizes : Observe(size)
  \/ Hit \/ Miss \/ Answer \/ Outage \/ Overflow \/ Rejected
  \/ Reject

Spec == Init /\ [][Next]_vars

-----------------------------------------------------------------------------
(* Properties.                                                             *)

Sent == pc \in {"lookup", "live"}

\* However far a request is trimmed, the model sees the result of the last command it ran
\* and every failure since.
NewestStepIsShown ==
  Sent => /\ request.dropped + Len(request.groups) = Len(trajectory)
          /\ (\E i \in DOMAIN trajectory : trajectory[i].kind = "real")
               => \E i \in DOMAIN request.groups : request.groups[i].kind = "real"
          /\ trajectory # <<>> => request.groups # <<>>

\* With estimates that are right, a request the server finds too long has nothing left to
\* drop: repair turns, even one that echoes a large completion, are reserved for.
AccurateRequestsFit ==
  Sent /\ (\A size \in {Prompt, Repair, Echo} : size.real = size.est)
       /\ (\A i \in DOMAIN trajectory : trajectory[i].size.real = trajectory[i].size.est)
    => Input(request) <= Room + Note.real \/ request.dropped = Floor(trajectory)

\* Trimming drops enough and not too much: a request fits if anything droppable makes it
\* fit, and the newest real step is always in it.
TrimmingIsRight ==
  /\ TypeOK
  /\ NewestStepIsShown
  /\ AccurateRequestsFit

\* One completion cut off while thinking is all a rollout pays for, in any of its steps,
\* where thinking can be turned off.
OneThinkingRunaway == Toggleable => runaways <= 1

\* The override is only ever passed to a deployment that declares a thinking channel.
OverrideOnlyWhereDeclared == Sent /\ request.thinking = "off" => Toggleable

\* A thinking runaway is paid for once, and thinking is only turned off where it can be.
ThinkingEndsOnce ==
  /\ OneThinkingRunaway
  /\ OverrideOnlyWhereDeclared

Requests(l) == {k \in DOMAIN l : l[k].what = "request"}
SameUntil(l, m, k) == SubSeq(l, 1, k - 1) = SubSeq(m, 1, k - 1)

\* A rollout that has been told and shown the same as an earlier one asks the same next:
\* nothing an earlier rollout of the process learnt leaks into a request, and so into a
\* cache key.
SameHistorySameRequest ==
  \A p \in past :
    \A k \in Requests(p) \cap Requests(log) : SameUntil(p, log, k) => p[k] = log[k]

\* What the policy is handed, from the cache too, is a completion this deployment itself
\* would have produced for this request, its reasoning budget included.
CompletionIsOwn ==
  pc \in {"parse", "acting"} =>
    \E p \in provider : /\ p.revision = cfg.revision /\ p.body = Body(request)
                        /\ completion \in Completions(p.reply, p.revision, Budgeted(request))

-----------------------------------------------------------------------------
(* What the repository says and the code does not do.                      *)

\* llm_cache.py: "concurrent writers of the same key store identical bytes".
WritersStoreIdenticalBytes ==
  pc \in {"parse", "acting"} => \A row \in Rows(request) : row.completion = completion
=============================================================================
