--------------------------- MODULE NetCacheProofs ---------------------------
(***************************************************************************)
(* What a client is answered and what stays frozen, for every set of        *)
(* connections, scopes, requests and builds and any number of restarts,     *)
(* disk errors and changes of the network.                                  *)
(***************************************************************************)
EXTENDS NetCache, TLAPS

-----------------------------------------------------------------------------
(* The inductive invariant. *)

\* what the network or an entry answered to an orig request, and how old it may be
RespOk(f) ==
  /\ f.resp \in Response
  /\ f.resp.content.asset = Asset(f.orig)
  /\ f.since <= f.resp.content.version

\* a flow, given the cache directory E and what version v of the network it can have seen
FlowOk(f, E, v) ==
  /\ f \in Flows
  /\ f.pc = "idle" => f = Idle
  /\ f.pc # "idle" => /\ f.orig \in Requests
                      /\ f.req \in {f.orig, Pinned(f.orig)}
                      /\ f.key = SnapshotKey(f.scope, f.orig)
                      /\ f.scope = NoScope \/ f.since = 0
  /\ f.pc = "sent" => f.resp = Nothing /\ ~f.hit /\ f.since <= v
  /\ f.pc \notin {"idle", "sent"} => RespOk(f)
  /\ f.hit => f.key \in Keys /\ Whole(E[f.key])
  /\ (f.pc = "body" /\ f.scope # NoScope /\ ~f.hit) =>
       f.resp.telemetry = FALSE /\ (FrozenUrl(f) # NoKey => f.stream = FALSE)
  /\ f.pc \notin {"stored", "answered"} => f.stored = FALSE
  /\ f.pc # "answered" => f.failed = FALSE
  /\ (f.pc \in {"stored", "answered"} /\ f.resp.status = "ok" /\ f.key # NoKey /\ ~f.failed) =>
       Whole(E[f.key])

Frozen == [status |-> "ok", telemetry |-> FALSE]

\* an entry has both files, and they are an answer to every request with its key
EntryOk(k, e) ==
  \/ e = Absent
  \/ /\ e.body \in Content /\ e = [body |-> e.body, meta |-> Frozen]
     /\ \A s \in Scopes, r \in Requests : k = <<s, CacheUrl(r, FALSE)>> => e.body.asset = Asset(r)

EntriesOk(E) == E \in [Keys -> Dirs] /\ \A k \in Keys : EntryOk(k, E[k])

\* the hook under way holds an entry nobody else can take
WritingOk ==
  \/ writing = NotWriting
  \/ \E c \in Conns : /\ flow[c].pc = "body"
                      /\ writing = [conn |-> c, key |-> <<flow[c].scope, FrozenUrl(flow[c])>>]
                      /\ Storable(flow[c])

Threads == [pc : {"idle", "waiting", "fetching", "fetched", "sending"},
            build : Builds \cup {Nothing}, fetched : 0..MaxVersions]

Fetches(c, b) == thread[c].build = b /\ thread[c].pc \in {"fetching", "fetched"}

\* a build is fetched by one thread, and only while it is missing
MirrorOk ==
  /\ mirror \in [Builds -> 0..MaxVersions]
  /\ thread \in [Conns -> Threads]
  /\ \A c \in Conns : thread[c].pc # "idle" => thread[c].build \in Builds
  /\ \A c \in Conns, b \in Builds : Fetches(c, b) => mirror[b] = 0
  /\ \A c, d \in Conns, b \in Builds : Fetches(c, b) /\ Fetches(d, b) => c = d

CountersOk ==
  /\ version \in 1..MaxVersions
  /\ asked \in 0..MaxRequests /\ troubles \in 0..MaxTroubles

FlowsOk ==
  /\ scopes \in [Conns -> Scopes \cup {NoScope}]
  /\ flow \in [Conns -> Flows]
  /\ \A c \in Conns : FlowOk(flow[c], entries, version)

IInv == CountersOk /\ FlowsOk /\ EntriesOk(entries) /\ WritingOk /\ MirrorOk

-----------------------------------------------------------------------------
(* Keys and what they denote. *)

\* Two requests with one canonical URL ask for the same thing.
LEMMA UrlDenotes ==
  ASSUME NEW r \in Request, NEW q \in Request,
         CacheUrl(r, FALSE) # NoKey, CacheUrl(q, FALSE) # NoKey,
         CacheUrl(r, FALSE) = CacheUrl(q, FALSE)
  PROVE  Asset(r) = Asset(q)
<1>1. /\ r.method = q.method /\ r.site = q.site
      /\ (IF r.method = "POST" THEN r.body ELSE 0) = (IF q.method = "POST" THEN q.body ELSE 0)
      /\ (IF r.method = "GET" /\ r.site = "release" THEN 0 ELSE r.query) =
         (IF q.method = "GET" /\ q.site = "release" THEN 0 ELSE q.query)
  BY DEF CacheUrl, Request
<1>2. Pinned(r).site = Pinned(q).site
  BY <1>1 DEF Pinned, Request
<1>3. (IF r.site = "release" THEN 0 ELSE r.query) = (IF q.site = "release" THEN 0 ELSE q.query)
  BY <1>1
<1> QED  BY <1>1, <1>2, <1>3 DEF Asset

\* The pinned host serves what was asked for.
LEMMA PinnedDenotes ==
  ASSUME NEW r \in Request
  PROVE  Pinned(r) \in Request /\ Asset(Pinned(r)) = Asset(r)
<1>1. CASE r.site = "pool"
  <2>1. Pinned(r) = [r EXCEPT !.site = "mirror"]
    BY <1>1 DEF Pinned
  <2>2. /\ Pinned(r) \in Request /\ Pinned(r).site = "mirror" /\ Pinned(r).method = r.method
        /\ Pinned(r).query = r.query /\ Pinned(r).body = r.body
    BY <2>1 DEF Request
  <2>3. Pinned(Pinned(r)) = Pinned(r)
    BY <2>2 DEF Pinned
  <2> QED  BY <1>1, <2>2, <2>3 DEF Asset
<1>2. CASE r.site # "pool"
  BY <1>2 DEF Pinned
<1> QED  BY <1>1, <1>2

\* A snapshot key is a scope and a canonical URL.
LEMMA KeyIsKey ==
  ASSUME NEW s \in Scopes \cup {NoScope}, NEW r \in Requests
  PROVE  /\ SnapshotKey(s, r) \in Keys \cup {NoKey}
         /\ SnapshotKey(s, r) # NoKey =>
              /\ s \in Scopes /\ CacheUrl(r, FALSE) # NoKey
              /\ SnapshotKey(s, r) = <<s, CacheUrl(r, FALSE)>>
         /\ (s # NoScope /\ CacheUrl(r, FALSE) # NoKey) =>
              SnapshotKey(s, r) \in Keys /\ SnapshotKey(s, r) = <<s, CacheUrl(r, FALSE)>>
  BY NetCacheAssumption DEF SnapshotKey, Keys

\* What is frozen is frozen under the key the client asked for.
LEMMA FrozenUnderKey ==
  ASSUME NEW f \in Flows, f.orig \in Requests, f.key = SnapshotKey(f.scope, f.orig),
         f.scope # NoScope, FrozenUrl(f) # NoKey
  PROVE  /\ f.key \in Keys /\ f.key = <<f.scope, FrozenUrl(f)>>
         /\ FrozenUrl(f) = CacheUrl(f.orig, FALSE)
         /\ f.resp.status # "variant"
<1>1. f.resp.status # "variant" /\ FrozenUrl(f) = CacheUrl(f.orig, FALSE)
  BY DEF FrozenUrl, CacheUrl, IdentityUrl
<1>2. f.scope \in Scopes \cup {NoScope}
  BY DEF Flows
<1> QED  BY <1>1, <1>2, KeyIsKey

LEMMA WholeIsWhole ==
  ASSUME NEW E, EntriesOk(E), NEW k \in Keys
  PROVE  /\ Whole(E[k]) <=> E[k] # Absent
         /\ Whole(E[k]) => /\ E[k].body \in Content /\ E[k].meta = Frozen
                           /\ Shown(E[k].meta, E[k].body) \in Response
                           /\ Shown(E[k].meta, E[k].body).content = E[k].body
<1>0. EntryOk(k, E[k])
  BY DEF EntriesOk
<1>1. CASE E[k] = Absent
  BY <1>1 DEF Whole, Absent
<1>2. CASE E[k].body \in Content /\ E[k] = [body |-> E[k].body, meta |-> Frozen]
  <2>0. E[k].meta = Frozen
    <3>1. PICK b : E[k] = [body |-> b, meta |-> Frozen]
      BY <1>2
    <3> QED  BY <3>1
  <2>1. E[k].meta = Frozen /\ Frozen \in [status : Statuses, telemetry : BOOLEAN]
    BY <2>0 DEF Frozen, Statuses
  <2>2. E[k].meta # Nothing /\ E[k].body # Nothing
    BY <1>2, <2>1, SentinelAssumption
  <2>3. Whole(E[k]) /\ E[k] # Absent
    BY <2>2 DEF Whole, Absent
  <2>4. Shown(E[k].meta, E[k].body) = [status |-> "ok", telemetry |-> FALSE, content |-> E[k].body]
    BY <2>1 DEF Shown, Frozen
  <2> QED  BY <1>2, <2>1, <2>3, <2>4 DEF Response, Statuses
<1> QED  BY <1>0, <1>1, <1>2 DEF EntryOk

-----------------------------------------------------------------------------
(* The parts of the invariant an action leaves alone. *)

\* Entries only appear and the network only moves on: other flows stay as they were.
LEMMA FlowFrame ==
  ASSUME NEW f, NEW E, NEW F, NEW v \in Nat, NEW w \in Nat, FlowOk(f, E, v), v <= w,
         \A k \in Keys : Whole(E[k]) => Whole(F[k])
  PROVE  FlowOk(f, F, w)
<1>1. f.key \in Keys \cup {NoKey} /\ f.since \in 0..MaxVersions /\ MaxVersions \in Nat
  BY NetCacheAssumption DEF FlowOk, Flows
<1>2. f.pc = "sent" => f.since <= w
  BY <1>1 DEF FlowOk
<1>3. f.hit => Whole(F[f.key])
  BY DEF FlowOk
<1>4. (f.pc \in {"stored", "answered"} /\ f.resp.status = "ok" /\ f.key # NoKey /\ ~f.failed) =>
        Whole(F[f.key])
  BY <1>1 DEF FlowOk
<1> QED  BY <1>2, <1>3, <1>4 DEF FlowOk

\* One flow takes a step.
LEMMA FlowsStep ==
  ASSUME CountersOk, FlowsOk, NEW c \in Conns, NEW g, FlowOk(g, entries', version'),
         flow' = [flow EXCEPT ![c] = g], scopes' \in [Conns -> Scopes \cup {NoScope}],
         version' \in 1..MaxVersions, version <= version',
         \A k \in Keys : Whole(entries[k]) => Whole(entries'[k])
  PROVE  FlowsOk'
<1>0. version \in Nat /\ version' \in Nat
  BY NetCacheAssumption DEF CountersOk
<1>1. flow' \in [Conns -> Flows]
  BY DEF FlowsOk, FlowOk
<1>2. ASSUME NEW d \in Conns PROVE FlowOk(flow[d], entries', version')
  <2>1. FlowOk(flow[d], entries, version)
    BY DEF FlowsOk
  <2> QED  BY <1>0, <2>1, FlowFrame
<1>3. ASSUME NEW d \in Conns PROVE FlowOk(flow'[d], entries', version')
  <2>1. CASE d = c
    <3>1. flow'[d] = g
      BY <2>1 DEF FlowsOk
    <3> QED  BY <3>1
  <2>2. CASE d # c
    <3>1. flow'[d] = flow[d]
      BY <2>2 DEF FlowsOk
    <3> QED  BY <3>1, <1>2
  <2> QED  BY <2>1, <2>2
<1> QED  BY <1>1, <1>3 DEF FlowsOk

\* No flow takes a step.
LEMMA FlowsFrame ==
  ASSUME CountersOk, FlowsOk, UNCHANGED <<scopes, flow, entries>>,
         version' \in 1..MaxVersions, version <= version'
  PROVE  FlowsOk'
<1>0. version \in Nat /\ version' \in Nat
  BY NetCacheAssumption DEF CountersOk
<1>2. ASSUME NEW d \in Conns PROVE FlowOk(flow[d], entries, version')
  <2>1. FlowOk(flow[d], entries, version)
    BY DEF FlowsOk
  <2> QED  BY <1>0, <2>1, FlowFrame
<1> QED  BY <1>2 DEF FlowsOk

\* The hook under way keeps its flow and its key.
LEMMA WritingFrame ==
  ASSUME WritingOk, UNCHANGED <<writing, entries>>,
         \A d \in Conns : flow[d].pc = "body" => flow'[d] = flow[d]
  PROVE  WritingOk'
<1>1. CASE writing = NotWriting
  BY <1>1 DEF WritingOk
<1>2. CASE writing # NotWriting
  <2>1. PICK d \in Conns : /\ flow[d].pc = "body"
                           /\ writing = [conn |-> d, key |-> <<flow[d].scope, FrozenUrl(flow[d])>>]
                           /\ Storable(flow[d])
    BY <1>2 DEF WritingOk
  <2>2. flow'[d] = flow[d]
    BY <2>1
  <2>3. Storable(flow[d])'
    BY <2>1, <2>2 DEF Storable
  <2> QED  BY <2>1, <2>2, <2>3 DEF WritingOk
<1> QED  BY <1>1, <1>2

LEMMA NoneWrites ==
  ASSUME writing' = NotWriting
  PROVE  WritingOk'
  BY DEF WritingOk, NotWriting

LEMMA MirrorFrame ==
  ASSUME MirrorOk, UNCHANGED uv
  PROVE  MirrorOk'
  BY DEF MirrorOk, uv, Fetches

LEMMA EntriesFrame ==
  ASSUME EntriesOk(entries), entries' = entries
  PROVE  EntriesOk(entries)' /\ \A k \in Keys : Whole(entries[k]) => Whole(entries'[k])
  OBVIOUS

-----------------------------------------------------------------------------
(* What each hook makes of a flow. *)

Redirected(f, q) == [f EXCEPT !.req = q]
FromEntry(f, a) == [f EXCEPT !.pc = "headers", !.hit = TRUE, !.resp = a]
FromOrigin(f, a) == [f EXCEPT !.pc = "headers", !.resp = a]
Checked(f) == [Headers(f) EXCEPT !.pc = "body"]
Done(f, b) == [f EXCEPT !.pc = "answered", !.failed = b]
Named(f) == [f EXCEPT !.pc = "stored", !.stored = TRUE]

LEMMA RedirectedFields ==
  ASSUME NEW f \in Flows, NEW q
  PROVE  /\ Redirected(f, q).pc = f.pc /\ Redirected(f, q).key = f.key /\ Redirected(f, q).hit = f.hit
         /\ Redirected(f, q).stored = f.stored
  BY DEF Flows, Redirected

LEMMA FromEntryFields ==
  ASSUME NEW f \in Flows, NEW a
  PROVE  /\ FromEntry(f, a).pc = "headers" /\ FromEntry(f, a).key = f.key
         /\ FromEntry(f, a).resp = a /\ FromEntry(f, a).stored = f.stored
  BY DEF Flows, FromEntry

LEMMA FromOriginFields ==
  ASSUME NEW f \in Flows, NEW a
  PROVE  /\ FromOrigin(f, a).pc = "headers" /\ FromOrigin(f, a).key = f.key
         /\ FromOrigin(f, a).hit = f.hit /\ FromOrigin(f, a).stored = f.stored
  BY DEF Flows, FromOrigin

LEMMA DoneFields ==
  ASSUME NEW f \in Flows, NEW b
  PROVE  /\ Done(f, b).pc = "answered" /\ Done(f, b).key = f.key /\ Done(f, b).hit = f.hit
         /\ Done(f, b).stored = f.stored /\ Done(f, b).resp = f.resp
  BY DEF Flows, Done

LEMMA NamedFields ==
  ASSUME NEW f \in Flows
  PROVE  /\ Named(f).pc = "stored" /\ Named(f).key = f.key /\ Named(f).hit = f.hit
         /\ Named(f).stored = TRUE /\ Named(f).resp = f.resp
  BY DEF Flows, Named

LEMMA IdleIsOk ==
  ASSUME NEW E, NEW v
  PROVE  FlowOk(Idle, E, v)
<1>1. Idle \in Flows
  <2>1. 0 \in 0..MaxVersions
    BY NetCacheAssumption
  <2> QED  BY <2>1 DEF Idle, Flows
<1>2. /\ Idle.pc = "idle" /\ Idle.hit = FALSE /\ Idle.stored = FALSE /\ Idle.failed = FALSE
  BY DEF Idle
<1> QED  BY <1>1, <1>2 DEF FlowOk

\* the flow of a request before its answer
LEMMA FlowFields ==
  ASSUME CountersOk, NEW c \in Conns, scopes[c] \in Scopes \cup {NoScope},
         NEW r \in Requests, NEW auth \in Scopes \cup {NoScope}
  PROVE  \E s \in Scopes \cup {NoScope}, n \in 0..MaxVersions :
           /\ s = CacheScope(c, auth) /\ n <= version /\ (s = NoScope \/ n = 0)
           /\ Flow(c, r, auth) =
                [pc |-> "sent", req |-> r, orig |-> r, scope |-> s, key |-> SnapshotKey(s, r), since |-> n,
                 hit |-> FALSE, resp |-> Nothing, stream |-> FALSE, stored |-> FALSE, failed |-> FALSE]
<1>1. PICK s \in Scopes \cup {NoScope} : s = CacheScope(c, auth)
  BY DEF CacheScope
<1>2. version \in 0..MaxVersions /\ 0 \in 0..MaxVersions /\ version \in Nat /\ 0 <= version
  BY NetCacheAssumption DEF CountersOk
<1>3. PICK n \in 0..MaxVersions : n = IF auth = NoScope /\ scopes[c] = NoScope THEN version ELSE 0
  BY <1>2
<1>4. n <= version
  BY <1>2, <1>3
<1>5. s = NoScope \/ n = 0
  BY <1>1, <1>3, NetCacheAssumption DEF CacheScope
<1>6. Flow(c, r, auth) =
        [pc |-> "sent", req |-> r, orig |-> r, scope |-> s, key |-> SnapshotKey(s, r), since |-> n,
         hit |-> FALSE, resp |-> Nothing, stream |-> FALSE, stored |-> FALSE, failed |-> FALSE]
  <2>1. Flow(c, r, auth) = [Idle EXCEPT !.pc = "sent", !.req = r, !.orig = r, !.scope = s,
                                        !.key = SnapshotKey(s, r), !.since = n]
    BY <1>1, <1>3, Zenon DEF Flow
  <2> QED  BY <2>1 DEF Idle
<1> QED  BY <1>1, <1>3, <1>4, <1>5, <1>6

\* sent upstream, to whichever host
LEMMA SentIsOk ==
  ASSUME NEW E, NEW v, NEW r \in Requests, NEW q \in {r, Pinned(r)},
         NEW s \in Scopes \cup {NoScope}, NEW n \in 0..MaxVersions, n <= v, s = NoScope \/ n = 0
  PROVE  FlowOk([pc |-> "sent", req |-> q, orig |-> r, scope |-> s, key |-> SnapshotKey(s, r), since |-> n,
                 hit |-> FALSE, resp |-> Nothing, stream |-> FALSE, stored |-> FALSE, failed |-> FALSE], E, v)
<1> DEFINE f == [pc |-> "sent", req |-> q, orig |-> r, scope |-> s, key |-> SnapshotKey(s, r), since |-> n,
                 hit |-> FALSE, resp |-> Nothing, stream |-> FALSE, stored |-> FALSE, failed |-> FALSE]
<1>1. r \in Request /\ q \in Request
  BY PinnedDenotes, NetCacheAssumption
<1>2. SnapshotKey(s, r) \in Keys \cup {NoKey}
  BY KeyIsKey
<1>3. f \in Flows
  BY <1>1, <1>2 DEF Flows
<1>4. /\ f.pc = "sent" /\ f.orig = r /\ f.req = q /\ f.key = SnapshotKey(f.scope, f.orig)
      /\ f.scope = s /\ f.since = n /\ f.resp = Nothing /\ f.hit = FALSE
      /\ f.stored = FALSE /\ f.failed = FALSE
  OBVIOUS
<1> HIDE DEF f
<1>5. FlowOk(f, E, v)
  BY <1>3, <1>4 DEF FlowOk
<1> QED  BY <1>5 DEF f

\* sent to the pinned host
LEMMA RedirectIsOk ==
  ASSUME NEW E, NEW v, NEW f, FlowOk(f, E, v), f.pc = "sent",
         NEW q, q \in {f.orig, Pinned(f.orig)}, NEW g, g = Redirected(f, q)
  PROVE  FlowOk(g, E, v)
<1>1. f \in Flows /\ f.orig \in Requests
      /\ f.key = SnapshotKey(f.scope, f.orig) /\ (f.scope = NoScope \/ f.since = 0)
      /\ f.hit = FALSE /\ f.since <= v /\ f.stored = FALSE /\ f.failed = FALSE /\ f.resp = Nothing
  BY DEF FlowOk, Flows
<1>2. q \in Request
  BY <1>1, PinnedDenotes, NetCacheAssumption
<1>3. g \in Flows
  BY <1>1, <1>2 DEF Flows, Redirected
<1>4. /\ g.pc = "sent" /\ g.resp = f.resp /\ g.orig = f.orig /\ g.req = q /\ g.key = f.key
      /\ g.scope = f.scope /\ g.since = f.since /\ g.hit = f.hit /\ g.stored = f.stored /\ g.failed = f.failed
  BY <1>1 DEF Flows, Redirected
<1> QED  BY <1>1, <1>3, <1>4 DEF FlowOk

\* answered from an entry
LEMMA HitIsOk ==
  ASSUME NEW E, EntriesOk(E), NEW v, NEW f, FlowOk(f, E, v), f.pc = "sent",
         f.key \in Keys, Whole(E[f.key]),
         NEW a, a = Shown(E[f.key].meta, E[f.key].body),
         NEW g, g = FromEntry(f, a)
  PROVE  FlowOk(g, E, v)
<1>0. f \in Flows /\ f.orig \in Requests /\ f.req \in {f.orig, Pinned(f.orig)}
      /\ f.key = SnapshotKey(f.scope, f.orig) /\ (f.scope = NoScope \/ f.since = 0)
      /\ f.stored = FALSE /\ f.failed = FALSE
  BY DEF FlowOk
<1>1. a \in Response /\ a.content = E[f.key].body
  BY WholeIsWhole
<1>2. f.scope \in Scopes /\ f.key = <<f.scope, CacheUrl(f.orig, FALSE)>> /\ f.since = 0
  <2>1. f.scope \in Scopes \cup {NoScope}
    BY <1>0 DEF Flows
  <2>2. f.key # NoKey
    BY SentinelAssumption
  <2>3. f.scope \in Scopes /\ f.key = <<f.scope, CacheUrl(f.orig, FALSE)>>
    BY <1>0, <2>1, <2>2, KeyIsKey
  <2> QED  BY <1>0, <2>3, NetCacheAssumption
<1>3. E[f.key] # Absent /\ EntryOk(f.key, E[f.key])
  BY WholeIsWhole DEF EntriesOk
<1>4. a.content.asset = Asset(f.orig)
  BY <1>0, <1>1, <1>2, <1>3 DEF EntryOk
<1>5. a.content.version \in 1..MaxVersions
  BY <1>1 DEF Response, Content
<1>6. 0 <= a.content.version
  BY <1>5, NetCacheAssumption
<1>7. g \in Flows
  BY <1>0, <1>1 DEF Flows, FromEntry
<1>8. /\ g.pc = "headers" /\ g.resp = a /\ g.orig = f.orig /\ g.req = f.req /\ g.key = f.key
      /\ g.scope = f.scope /\ g.since = f.since /\ g.hit = TRUE /\ g.stored = f.stored /\ g.failed = f.failed
  BY <1>0 DEF Flows, FromEntry
<1>9. RespOk(g)
  BY <1>1, <1>2, <1>4, <1>6, <1>8 DEF RespOk
<1>10. FlowOk(g, E, v)
  BY <1>0, <1>7, <1>8, <1>9 DEF FlowOk
<1> QED  BY <1>10

\* the origin answered
LEMMA UpstreamIsOk ==
  ASSUME NEW E, NEW v \in 1..MaxVersions, NEW f, FlowOk(f, E, v), f.pc = "sent",
         NEW a, a.status \in Statuses, a = [status |-> a.status, telemetry |-> TRUE,
                                            content |-> [asset |-> Asset(f.req), version |-> v]],
         NEW g, g = FromOrigin(f, a)
  PROVE  FlowOk(g, E, v)
<1>1. f \in Flows /\ f.orig \in Requests /\ f.req \in {f.orig, Pinned(f.orig)}
      /\ f.key = SnapshotKey(f.scope, f.orig) /\ (f.scope = NoScope \/ f.since = 0)
      /\ ~f.hit /\ f.since <= v /\ f.stored = FALSE /\ f.failed = FALSE
  BY DEF FlowOk
<1>2. Asset(f.req) = Asset(f.orig)
  BY <1>1, PinnedDenotes, NetCacheAssumption
<1>3. [asset |-> Asset(f.req), version |-> v] \in Content
  BY <1>1, <1>2 DEF Content
<1>4. a \in Response
  <2>1. PICK s \in Statuses : a = [status |-> s, telemetry |-> TRUE,
                                   content |-> [asset |-> Asset(f.req), version |-> v]]
    OBVIOUS
  <2> QED  BY <1>3, <2>1 DEF Response
<1>5. a.content.asset = Asset(f.orig) /\ a.content.version = v
  <2>1. PICK s, b : b = [asset |-> Asset(f.req), version |-> v] /\ a = [status |-> s, telemetry |-> TRUE, content |-> b]
    OBVIOUS
  <2>2. a.content = b
    BY <2>1
  <2> QED  BY <1>2, <2>1, <2>2
<1>6. g \in Flows
  BY <1>1, <1>4 DEF Flows, FromOrigin
<1>7. /\ g.pc = "headers" /\ g.resp = a /\ g.orig = f.orig /\ g.req = f.req /\ g.key = f.key
      /\ g.scope = f.scope /\ g.since = f.since /\ g.hit = f.hit /\ g.stored = f.stored /\ g.failed = f.failed
  BY <1>1 DEF Flows, FromOrigin
<1>8. RespOk(g)
  BY <1>1, <1>4, <1>5, <1>7 DEF RespOk
<1> QED  BY <1>1, <1>6, <1>7, <1>8 DEF FlowOk

\* responseheaders ran
LEMMA HeadersIsOk ==
  ASSUME NEW E, NEW v, NEW f, FlowOk(f, E, v), f.pc = "headers",
         NEW g, g = Checked(f)
  PROVE  FlowOk(g, E, v)
<1>1. f \in Flows /\ f.orig \in Requests /\ f.req \in {f.orig, Pinned(f.orig)}
      /\ f.key = SnapshotKey(f.scope, f.orig) /\ (f.scope = NoScope \/ f.since = 0)
      /\ RespOk(f) /\ f.stored = FALSE /\ f.failed = FALSE
      /\ (f.hit => f.key \in Keys /\ Whole(E[f.key]))
  BY DEF FlowOk
<1>2. f.hit \in BOOLEAN /\ f.resp \in Response
  BY <1>1 DEF Flows, RespOk
<1>3. CASE f.scope = NoScope
  <2>1. g = [f EXCEPT !.stream = TRUE, !.pc = "body"]
    BY <1>1, <1>3 DEF Headers, Flows, Checked
  <2>2. g \in Flows
    BY <1>1, <2>1 DEF Flows
  <2>3. /\ g.pc = "body" /\ g.resp = f.resp /\ g.orig = f.orig /\ g.req = f.req /\ g.key = f.key
        /\ g.scope = f.scope /\ g.since = f.since /\ g.hit = f.hit /\ g.stored = f.stored /\ g.failed = f.failed
    BY <1>1, <2>1 DEF Flows
  <2>4. RespOk(g)
    BY <1>1, <2>3 DEF RespOk
  <2> QED  BY <1>1, <1>3, <2>2, <2>3, <2>4 DEF FlowOk
<1>4. CASE f.scope # NoScope
  <2>1. PICK t \in BOOLEAN : t = (f.resp.telemetry /\ f.hit)
    BY Zenon
  <2>2. PICK b \in BOOLEAN : b = (FrozenUrl(f) = NoKey)
    BY Zenon
  <2>3. PICK a : a = [f.resp EXCEPT !.telemetry = t]
    OBVIOUS
  <2>4. a \in Response /\ a.telemetry = t /\ a.status = f.resp.status /\ a.content = f.resp.content
    BY <1>2, <2>3 DEF Response
  <2>5. g = [f EXCEPT !.resp = a, !.stream = b, !.pc = "body"]
    <3>1. Headers(f) = [f EXCEPT !.resp = a, !.stream = b]
      BY <1>1, <1>4, <2>1, <2>2, <2>3, Zenon DEF Headers, Flows
    <3> QED  BY <1>1, <3>1 DEF Flows, Checked
  <2>6. g \in Flows
    BY <1>1, <2>4, <2>5 DEF Flows
  <2>7. /\ g.pc = "body" /\ g.resp = a /\ g.orig = f.orig /\ g.req = f.req /\ g.key = f.key /\ g.stream = b
        /\ g.scope = f.scope /\ g.since = f.since /\ g.hit = f.hit /\ g.stored = f.stored /\ g.failed = f.failed
    BY <1>1, <2>5 DEF Flows
  <2>8. RespOk(g)
    BY <1>1, <2>4, <2>7 DEF RespOk
  <2>9. FrozenUrl(g) = FrozenUrl(f)
    BY <2>4, <2>7, Zenon DEF FrozenUrl, IdentityUrl
  <2>10. ~g.hit => g.resp.telemetry = FALSE /\ (FrozenUrl(g) # NoKey => g.stream = FALSE)
    BY <1>2, <2>1, <2>2, <2>4, <2>7, <2>9
  <2> QED  BY <1>1, <1>4, <2>6, <2>7, <2>8, <2>10 DEF FlowOk
<1> QED  BY <1>3, <1>4

\* and a hit keeps its answer
LEMMA CheckedFields ==
  ASSUME NEW f \in Flows, f.resp \in Response
  PROVE  /\ Checked(f).pc = "body" /\ Checked(f).key = f.key /\ Checked(f).hit = f.hit
         /\ Checked(f).stored = f.stored
         /\ f.hit => Checked(f).resp = f.resp
<1>1. CASE f.scope = NoScope
  <2>1. Checked(f) = [f EXCEPT !.stream = TRUE, !.pc = "body"]
    BY <1>1 DEF Headers, Checked, Flows
  <2> QED  BY <2>1 DEF Flows
<1>2. CASE f.scope # NoScope
  <2>1. PICK t \in BOOLEAN : t = (f.resp.telemetry /\ f.hit)
    BY Zenon
  <2>2. PICK b \in BOOLEAN : b = (FrozenUrl(f) = NoKey)
    BY Zenon
  <2>3. PICK a : a = [f.resp EXCEPT !.telemetry = t]
    OBVIOUS
  <2>4. Checked(f) = [f EXCEPT !.resp = a, !.stream = b, !.pc = "body"]
    <3>1. Headers(f) = [f EXCEPT !.resp = a, !.stream = b]
      BY <1>2, <2>1, <2>2, <2>3, Zenon DEF Headers, Flows
    <3> QED  BY <3>1 DEF Flows, Checked
  <2>5. f.hit => a = f.resp
    <3>1. f.hit \in BOOLEAN
      BY DEF Flows
    <3>2. ASSUME f.hit PROVE t = f.resp.telemetry
      BY <2>1, <3>1, <3>2 DEF Response
    <3> QED  BY <2>3, <3>2 DEF Response
  <2> QED  BY <2>4, <2>5 DEF Flows
<1> QED  BY <1>1, <1>2

\* the client is answered, after its entry was frozen if it was worth it
LEMMA AnsweredIsOk ==
  ASSUME NEW E, NEW v, NEW f, FlowOk(f, E, v), f.pc \in {"body", "stored"},
         NEW b \in BOOLEAN, NEW g, g = Done(f, b),
         (f.resp.status = "ok" /\ f.key # NoKey /\ ~b) => Whole(E[f.key])
  PROVE  FlowOk(g, E, v)
<1>1. f \in Flows /\ f.orig \in Requests /\ f.req \in {f.orig, Pinned(f.orig)}
      /\ f.key = SnapshotKey(f.scope, f.orig) /\ (f.scope = NoScope \/ f.since = 0)
      /\ RespOk(f) /\ (f.hit => f.key \in Keys /\ Whole(E[f.key]))
  BY DEF FlowOk
<1>2. g \in Flows
  BY <1>1 DEF Flows, Done
<1>3. /\ g.pc = "answered" /\ g.resp = f.resp /\ g.orig = f.orig /\ g.req = f.req /\ g.key = f.key
      /\ g.scope = f.scope /\ g.since = f.since /\ g.hit = f.hit /\ g.stored = f.stored /\ g.failed = b
  BY <1>1 DEF Flows, Done
<1>4. RespOk(g)
  BY <1>1, <1>3 DEF RespOk
<1> QED  BY <1>1, <1>2, <1>3, <1>4 DEF FlowOk

\* the entry has its name
LEMMA StoredIsOk ==
  ASSUME NEW E, NEW v, NEW f, FlowOk(f, E, v), f.pc = "body", Whole(E[f.key]),
         NEW g, g = Named(f)
  PROVE  FlowOk(g, E, v)
<1>1. f \in Flows /\ f.orig \in Requests /\ f.req \in {f.orig, Pinned(f.orig)}
      /\ f.key = SnapshotKey(f.scope, f.orig) /\ (f.scope = NoScope \/ f.since = 0)
      /\ RespOk(f) /\ f.failed = FALSE /\ (f.hit => f.key \in Keys /\ Whole(E[f.key]))
  BY DEF FlowOk
<1>2. g \in Flows
  BY <1>1 DEF Flows, Named
<1>3. /\ g.pc = "stored" /\ g.resp = f.resp /\ g.orig = f.orig /\ g.req = f.req /\ g.key = f.key
      /\ g.scope = f.scope /\ g.since = f.since /\ g.hit = f.hit /\ g.stored = TRUE /\ g.failed = f.failed
  BY <1>1 DEF Flows, Named
<1>4. RespOk(g)
  BY <1>1, <1>3 DEF RespOk
<1> QED  BY <1>1, <1>2, <1>3, <1>4 DEF FlowOk

-----------------------------------------------------------------------------
(* What a flow freezes. *)

LEMMA FrozenIsOk ==
  ASSUME NEW v, NEW f, FlowOk(f, entries, v), f.pc = "body", Storable(f)
  PROVE  /\ f.key \in Keys /\ f.key = <<f.scope, FrozenUrl(f)>> /\ entries[f.key] = Absent
         /\ f.hit = FALSE /\ f.stored = FALSE
         /\ f.resp \in Response /\ Shown(EntryOf(f).meta, EntryOf(f).body) = f.resp
         /\ EntryOf(f) \in Dirs /\ EntryOf(f) # Absent /\ EntryOk(f.key, EntryOf(f)) /\ Whole(EntryOf(f))
<1>1. f \in Flows /\ f.orig \in Requests /\ f.key = SnapshotKey(f.scope, f.orig) /\ RespOk(f)
      /\ f.stored = FALSE
  BY DEF FlowOk
<1>2. ~f.hit /\ f.scope # NoScope /\ f.resp.status # "error" /\ FrozenUrl(f) # NoKey
  BY DEF Storable
<1>3. f.hit = FALSE
  BY <1>1, <1>2 DEF Flows
<1>4. /\ f.key \in Keys /\ f.key = <<f.scope, FrozenUrl(f)>>
      /\ FrozenUrl(f) = CacheUrl(f.orig, FALSE) /\ f.resp.status # "variant"
  BY <1>1, <1>2, FrozenUnderKey
<1>5. f.resp.telemetry = FALSE /\ f.stream = FALSE
  BY <1>2 DEF FlowOk
<1>6. f.resp \in Response /\ f.resp.content.asset = Asset(f.orig)
  BY <1>1 DEF RespOk
<1>7. f.resp.status = "ok"
  BY <1>2, <1>4, <1>6 DEF Response, Statuses
<1>8. f.resp.content \in Content
  BY <1>6 DEF Response
<1>9. PICK b \in Content : b = f.resp.content
  BY <1>8
<1>10. EntryOf(f) = [body |-> b, meta |-> Frozen]
  BY <1>5, <1>7, <1>9 DEF EntryOf, Frozen
<1>11. EntryOf(f).body = b /\ EntryOf(f).meta = Frozen
  BY <1>10
<1>12. f.resp = [status |-> "ok", telemetry |-> FALSE, content |-> b]
  BY <1>5, <1>6, <1>7, <1>9 DEF Response
<1>13. Shown(EntryOf(f).meta, EntryOf(f).body) = f.resp
  BY <1>11, <1>12 DEF Shown, Frozen
<1>14. Frozen \in [status : {"ok"}, telemetry : {FALSE}] /\ Frozen \in [status : Statuses, telemetry : BOOLEAN]
  BY DEF Frozen, Statuses
<1>15. EntryOf(f) \in Dirs
  <2>1. PICK m \in [status : {"ok"}, telemetry : {FALSE}] : m = Frozen
    BY <1>14
  <2>2. EntryOf(f) = [body |-> b, meta |-> m]
    BY <1>10, <2>1
  <2>3. PICK M : M = [status : {"ok"}, telemetry : {FALSE}] \cup {Nothing}
    OBVIOUS
  <2>4. m \in M
    BY <2>3
  <2>5. EntryOf(f) \in [body : Content \cup {Nothing}, meta : M]
    BY <2>2, <2>4
  <2> QED  BY <2>3, <2>5 DEF Dirs
<1>16. b # Nothing /\ Frozen # Nothing
  BY <1>14, SentinelAssumption
<1>17. Whole(EntryOf(f)) /\ EntryOf(f) # Absent
  BY <1>11, <1>16 DEF Whole, Absent
<1>18. ASSUME NEW s \in Scopes, NEW r \in Requests, f.key = <<s, CacheUrl(r, FALSE)>>
       PROVE  b.asset = Asset(r)
  <2>1. CacheUrl(r, FALSE) = CacheUrl(f.orig, FALSE)
    <3>1. PICK u, w : u = CacheUrl(r, FALSE) /\ w = CacheUrl(f.orig, FALSE)
      OBVIOUS
    <3>2. <<s, u>> = <<f.scope, w>>
      BY <1>4, <1>18, <3>1
    <3> QED  BY <3>1, <3>2
  <2>2. Asset(r) = Asset(f.orig)
    BY <1>1, <1>2, <1>4, <2>1, UrlDenotes, NetCacheAssumption
  <2> QED  BY <1>6, <1>9, <2>2
<1>19. EntryOk(f.key, EntryOf(f))
  BY <1>10, <1>11, <1>18 DEF EntryOk
<1>20. entries[f.key] = Absent
  BY <1>4 DEF Storable
<1> QED  BY <1>1, <1>3, <1>4, <1>6, <1>13, <1>15, <1>17, <1>19, <1>20

\* the flow of the hook under way, and the key it writes
LEMMA WriterIsOk ==
  ASSUME IInv, NEW c \in Conns, writing.conn = c
  PROVE  flow[c].pc = "body" /\ Storable(flow[c]) /\ FlowOk(flow[c], entries, version)
         /\ writing.key = <<flow[c].scope, FrozenUrl(flow[c])>>
<1>1. writing # NotWriting
  BY NetCacheAssumption DEF NotWriting
<1>2. PICK d \in Conns : /\ flow[d].pc = "body"
                         /\ writing = [conn |-> d, key |-> <<flow[d].scope, FrozenUrl(flow[d])>>]
                         /\ Storable(flow[d])
  BY <1>1 DEF IInv, WritingOk
<1>3. writing.conn = d /\ writing.key = <<flow[d].scope, FrozenUrl(flow[d])>>
  <2>1. PICK k : writing = [conn |-> d, key |-> k] /\ k = <<flow[d].scope, FrozenUrl(flow[d])>>
    BY <1>2
  <2> QED  BY <2>1
<1>4. d = c
  BY <1>3
<1> QED  BY <1>2, <1>3, <1>4 DEF IInv, FlowsOk

-----------------------------------------------------------------------------
(* Every action of the addon preserves the invariant. *)

\* A hook or a message changes one flow and nothing that lasts.
LEMMA OneFlow ==
  ASSUME IInv, NEW c \in Conns, NEW g, flow' = [flow EXCEPT ![c] = g],
         FlowOk(g, entries, version),
         writing' = NotWriting \/ (writing' = writing /\ flow[c].pc # "body"),
         UNCHANGED <<version, scopes, entries, uv>>,
         asked' \in 0..MaxRequests, troubles' \in 0..MaxTroubles
  PROVE  IInv'
<1>1. version' \in 1..MaxVersions /\ version <= version'
  BY NetCacheAssumption DEF IInv, CountersOk
<1>2. CountersOk'
  BY <1>1 DEF CountersOk
<1>3. EntriesOk(entries)' /\ \A k \in Keys : Whole(entries[k]) => Whole(entries'[k])
  BY EntriesFrame DEF IInv
<1>4. FlowOk(g, entries', version')
  OBVIOUS
<1>5. scopes' \in [Conns -> Scopes \cup {NoScope}]
  BY DEF IInv, FlowsOk
<1>6. FlowsOk'
  BY <1>1, <1>3, <1>4, <1>5, FlowsStep DEF IInv
<1>7. WritingOk'
  <2>1. CASE writing' = NotWriting
    BY <2>1, NoneWrites
  <2>2. CASE writing' = writing /\ flow[c].pc # "body"
    <3>1. ASSUME NEW d \in Conns, flow[d].pc = "body" PROVE flow'[d] = flow[d]
      BY <2>2, <3>1 DEF IInv, FlowsOk
    <3> QED  BY <2>2, <3>1, WritingFrame DEF IInv
  <2> QED  BY <2>1, <2>2
<1>8. MirrorOk'
  BY MirrorFrame DEF IInv
<1> QED  BY <1>2, <1>3, <1>6, <1>7, <1>8 DEF IInv

LEMMA CountsOn ==
  ASSUME CountersOk
  PROVE  /\ asked \in 0..MaxRequests /\ troubles \in 0..MaxTroubles
         /\ Trouble => troubles' \in 0..MaxTroubles
         /\ (asked < MaxRequests /\ asked' = asked + 1) => asked' \in 0..MaxRequests
  BY NetCacheAssumption DEF CountersOk, Trouble

LEMMA ConnectOk ==
  ASSUME IInv, NEW c \in Conns, http_connect(c)
  PROVE  IInv'
<1>1. PICK s \in Scopes : scopes' = [scopes EXCEPT ![c] = s]
  BY DEF http_connect
<1>2. UNCHANGED <<version, flow, entries, writing, uv, asked, troubles>>
  BY DEF http_connect
<1>3. scopes' \in [Conns -> Scopes \cup {NoScope}]
  BY <1>1 DEF IInv, FlowsOk
<1>4. FlowsOk'
  BY <1>2, <1>3 DEF IInv, FlowsOk
<1>5. CountersOk'
  BY <1>2 DEF IInv, CountersOk
<1>6. MirrorOk'
  BY <1>2, MirrorFrame DEF IInv
<1>7. EntriesOk(entries)'
  BY <1>2, EntriesFrame DEF IInv
<1>8. WritingOk'
  BY <1>2, WritingFrame DEF IInv
<1> QED  BY <1>4, <1>5, <1>6, <1>7, <1>8 DEF IInv

\* the flow of a request before its answer is looked for
LEMMA FlowIsOk ==
  ASSUME IInv, NEW c \in Conns, NEW r \in Requests, NEW auth \in Scopes \cup {NoScope}
  PROVE  \E f : /\ f = Flow(c, r, auth) /\ FlowOk(f, entries, version)
                /\ f.pc = "sent" /\ f.orig = r /\ f.scope = CacheScope(c, auth)
                /\ f.key = SnapshotKey(CacheScope(c, auth), r) /\ f.key \in Keys \cup {NoKey}
<1>0. scopes[c] \in Scopes \cup {NoScope} /\ CountersOk
  BY DEF IInv, FlowsOk
<1>1. PICK s \in Scopes \cup {NoScope}, n \in 0..MaxVersions :
        /\ s = CacheScope(c, auth) /\ n <= version /\ (s = NoScope \/ n = 0)
        /\ Flow(c, r, auth) =
             [pc |-> "sent", req |-> r, orig |-> r, scope |-> s, key |-> SnapshotKey(s, r), since |-> n,
              hit |-> FALSE, resp |-> Nothing, stream |-> FALSE, stored |-> FALSE, failed |-> FALSE]
  BY <1>0, FlowFields
<1> DEFINE f == [pc |-> "sent", req |-> r, orig |-> r, scope |-> s, key |-> SnapshotKey(s, r), since |-> n,
                 hit |-> FALSE, resp |-> Nothing, stream |-> FALSE, stored |-> FALSE, failed |-> FALSE]
<1>2. FlowOk(f, entries, version)
  BY <1>1, SentIsOk
<1>3. f.pc = "sent" /\ f.orig = r /\ f.scope = s /\ f.key = SnapshotKey(s, r)
  OBVIOUS
<1>4. f = Flow(c, r, auth)
  BY <1>1
<1>5. SnapshotKey(s, r) \in Keys \cup {NoKey}
  BY KeyIsKey
<1> HIDE DEF f
<1> QED  BY <1>1, <1>2, <1>3, <1>4, <1>5

\* what request makes of a flow
LEMMA RequestFlow ==
  ASSUME IInv, NEW c \in Conns, NEW r \in Requests, NEW auth \in Scopes \cup {NoScope}, request(c, r, auth)
  PROVE  \E g : /\ flow' = [flow EXCEPT ![c] = g] /\ FlowOk(g, entries, version)
                /\ g.pc \in {"sent", "headers"} /\ g.stored = FALSE
                /\ g.key \in Keys \cup {NoKey}
                /\ g.hit => /\ g.key \in Keys /\ Whole(entries[g.key])
                            /\ g.resp = Shown(entries[g.key].meta, entries[g.key].body)
<1>1. PICK f : /\ f = Flow(c, r, auth) /\ FlowOk(f, entries, version)
               /\ f.pc = "sent" /\ f.orig = r /\ f.scope = CacheScope(c, auth)
               /\ f.key = SnapshotKey(CacheScope(c, auth), r) /\ f.key \in Keys \cup {NoKey}
  BY FlowIsOk
<1>2. EntriesOk(entries)
  BY DEF IInv
<1>3. CASE f.key # NoKey /\ Whole(entries[f.key])
  <2>1. f.key \in Keys
    BY <1>1, <1>3
  <2>2. Load(CacheScope(c, auth), r) = entries[f.key] /\ entries[f.key] # Absent
    BY <1>1, <1>2, <1>3, <2>1, WholeIsWhole DEF Load
  <2>3. PICK a : a = Shown(entries[f.key].meta, entries[f.key].body)
    OBVIOUS
  <2>4. PICK g : g = FromEntry(f, a)
    OBVIOUS
  <2>5. FlowOk(g, entries, version) /\ g.pc = "headers" /\ g.stored = FALSE /\ g.key = f.key /\ g.resp = a
    <3>1. f.key \in Keys /\ Whole(entries[f.key]) /\ FlowOk(f, entries, version) /\ f.pc = "sent"
      BY <1>1, <1>3, <2>1
    <3>2. f \in Flows /\ f.stored = FALSE
      BY <3>1 DEF FlowOk
    <3>3. FlowOk(g, entries, version)
      BY <1>2, <2>3, <2>4, <3>1, HitIsOk
    <3> QED  BY <2>4, <3>2, <3>3, FromEntryFields
  <2>6. flow' = [flow EXCEPT ![c] = g]
    BY <1>1, <2>2, <2>3, <2>4, Zenon DEF request, FromEntry, Redirected
  <2> QED  BY <1>3, <2>1, <2>3, <2>5, <2>6
<1>4. CASE ~(f.key # NoKey /\ Whole(entries[f.key]))
  <2>1. Load(CacheScope(c, auth), r) = Absent
    BY <1>1, <1>4 DEF Load
  <2>2. PICK q \in {r, Pinned(r)} : q = IF CacheScope(c, auth) = NoScope THEN r ELSE Pinned(r)
    OBVIOUS
  <2>3. PICK g : g = Redirected(f, q)
    OBVIOUS
  <2>4. FlowOk(g, entries, version) /\ g.pc = "sent" /\ g.stored = FALSE /\ g.hit = FALSE /\ g.key = f.key
    <3>1. q \in {f.orig, Pinned(f.orig)} /\ FlowOk(f, entries, version) /\ f.pc = "sent"
      BY <1>1
    <3>2. f \in Flows /\ f.stored = FALSE /\ ~f.hit
      BY <3>1 DEF FlowOk
    <3>3. f.hit = FALSE
      BY <3>2 DEF Flows
    <3>4. FlowOk(g, entries, version)
      BY <2>3, <3>1, RedirectIsOk
    <3> QED  BY <2>3, <3>1, <3>2, <3>3, <3>4, RedirectedFields
  <2>5. flow' = [flow EXCEPT ![c] = g]
    BY <1>1, <2>1, <2>2, <2>3, Zenon DEF request, FromEntry, Redirected
  <2> QED  BY <1>1, <2>4, <2>5
<1> QED  BY <1>3, <1>4

\* what LoadFails makes of it
LEMMA LoadFailsFlow ==
  ASSUME IInv, NEW c \in Conns, NEW r \in Requests, NEW auth \in Scopes \cup {NoScope}, LoadFails(c, r, auth)
  PROVE  \E g : /\ flow' = [flow EXCEPT ![c] = g] /\ FlowOk(g, entries, version)
                /\ g.pc = "sent" /\ g.stored = FALSE /\ g.hit = FALSE
                /\ g.key \in Keys \cup {NoKey}
<1>1. PICK f : /\ f = Flow(c, r, auth) /\ FlowOk(f, entries, version)
               /\ f.pc = "sent" /\ f.orig = r /\ f.scope = CacheScope(c, auth)
               /\ f.key = SnapshotKey(CacheScope(c, auth), r) /\ f.key \in Keys \cup {NoKey}
  BY FlowIsOk
<1>2. PICK g : g = Redirected(f, Pinned(r))
  OBVIOUS
<1>3. FlowOk(g, entries, version) /\ g.pc = "sent" /\ g.stored = FALSE /\ g.hit = FALSE /\ g.key = f.key
  <2>1. Pinned(r) \in {f.orig, Pinned(f.orig)} /\ FlowOk(f, entries, version) /\ f.pc = "sent"
    BY <1>1
  <2>2. f \in Flows /\ f.stored = FALSE /\ ~f.hit
    BY <2>1 DEF FlowOk
  <2>3. f.hit = FALSE
    BY <2>2 DEF Flows
  <2>4. FlowOk(g, entries, version)
    BY <1>2, <2>1, RedirectIsOk
  <2> QED  BY <1>2, <2>1, <2>2, <2>3, <2>4, RedirectedFields
<1>4. flow' = [flow EXCEPT ![c] = g]
  BY <1>1, <1>2, Zenon DEF LoadFails, Redirected
<1> QED  BY <1>1, <1>3, <1>4

LEMMA RequestOk ==
  ASSUME IInv, NEW c \in Conns, NEW r \in Requests, NEW auth \in Scopes \cup {NoScope}, request(c, r, auth)
  PROVE  IInv'
<1>1. PICK g : flow' = [flow EXCEPT ![c] = g] /\ FlowOk(g, entries, version)
  BY RequestFlow
<1>2. writing' = NotWriting /\ UNCHANGED <<version, scopes, entries, uv>>
  BY DEF request
<1>3. asked' \in 0..MaxRequests /\ troubles' \in 0..MaxTroubles
  <2>1. asked < MaxRequests /\ asked' = asked + 1 /\ troubles' = troubles
    BY DEF request, Free
  <2> QED  BY <2>1, CountsOn DEF IInv
<1> QED  BY <1>1, <1>2, <1>3, OneFlow

LEMMA LoadFailsOk ==
  ASSUME IInv, NEW c \in Conns, NEW r \in Requests, NEW auth \in Scopes \cup {NoScope}, LoadFails(c, r, auth)
  PROVE  IInv'
<1>1. PICK g : flow' = [flow EXCEPT ![c] = g] /\ FlowOk(g, entries, version)
  BY LoadFailsFlow
<1>2. writing' = NotWriting /\ UNCHANGED <<version, scopes, entries, uv>>
  BY DEF LoadFails
<1>3. asked' \in 0..MaxRequests /\ troubles' \in 0..MaxTroubles
  <2>1. asked < MaxRequests /\ asked' = asked + 1 /\ Trouble
    BY DEF LoadFails, Free
  <2> QED  BY <2>1, CountsOn DEF IInv
<1> QED  BY <1>1, <1>2, <1>3, OneFlow

LEMMA UpstreamFlow ==
  ASSUME IInv, NEW c \in Conns, Upstream(c)
  PROVE  \E a : /\ flow' = [flow EXCEPT ![c] = FromOrigin(flow[c], a)]
                /\ FlowOk(FromOrigin(flow[c], a), entries, version)
<1>1. PICK status \in Statuses :
        flow' = [flow EXCEPT ![c] =
          [flow[c] EXCEPT !.pc = "headers",
                          !.resp = [status |-> status, telemetry |-> TRUE,
                                    content |-> [asset |-> Asset(flow[c].req), version |-> version]]]]
  BY Zenon DEF Upstream
<1>2. PICK a : a = [status |-> status, telemetry |-> TRUE,
                    content |-> [asset |-> Asset(flow[c].req), version |-> version]]
  OBVIOUS
<1>3. flow' = [flow EXCEPT ![c] = FromOrigin(flow[c], a)]
  BY <1>1, <1>2, Zenon DEF FromOrigin
<1>4. a.status = status
  <2>1. PICK b : a = [status |-> status, telemetry |-> TRUE, content |-> b]
    BY <1>2
  <2> QED  BY <2>1
<1>5. a = [status |-> a.status, telemetry |-> TRUE,
           content |-> [asset |-> Asset(flow[c].req), version |-> version]]
  BY <1>2, <1>4
<1>6. FlowOk(flow[c], entries, version) /\ flow[c].pc = "sent" /\ version \in 1..MaxVersions
  BY DEF IInv, FlowsOk, CountersOk, Upstream
<1>7. FlowOk(FromOrigin(flow[c], a), entries, version)
  BY <1>4, <1>5, <1>6, UpstreamIsOk
<1> QED  BY <1>3, <1>7

LEMMA UpstreamOk ==
  ASSUME IInv, NEW c \in Conns, Upstream(c)
  PROVE  IInv'
<1>1. PICK a : /\ flow' = [flow EXCEPT ![c] = FromOrigin(flow[c], a)]
               /\ FlowOk(FromOrigin(flow[c], a), entries, version)
  BY UpstreamFlow
<1>2. flow[c].pc # "body" /\ UNCHANGED <<version, scopes, entries, writing, uv, asked, troubles>>
  BY DEF Upstream
<1>3. asked' \in 0..MaxRequests /\ troubles' \in 0..MaxTroubles
  BY <1>2, CountsOn DEF IInv
<1> QED  BY <1>1, <1>2, <1>3, OneFlow

LEMMA UnreachableOk ==
  ASSUME IInv, NEW c \in Conns, Unreachable(c)
  PROVE  IInv'
<1>1. flow' = [flow EXCEPT ![c] = Idle] /\ flow[c].pc # "body" /\ Trouble
      /\ UNCHANGED <<version, scopes, entries, writing, uv, asked>>
  BY DEF Unreachable
<1>2. asked' \in 0..MaxRequests /\ troubles' \in 0..MaxTroubles
  BY <1>1, CountsOn DEF IInv
<1>3. FlowOk(Idle, entries, version)
  BY IdleIsOk
<1> QED  BY <1>1, <1>2, <1>3, OneFlow

LEMMA HeadersOk ==
  ASSUME IInv, NEW c \in Conns, responseheaders(c)
  PROVE  IInv'
<1>1. flow' = [flow EXCEPT ![c] = Checked(flow[c])]
  BY Zenon DEF responseheaders, Checked
<1>2. writing' = NotWriting /\ flow[c].pc = "headers"
      /\ UNCHANGED <<version, scopes, entries, uv, asked, troubles>>
  BY DEF responseheaders, Hook
<1>3. asked' \in 0..MaxRequests /\ troubles' \in 0..MaxTroubles
  BY <1>2, CountsOn DEF IInv
<1>4. FlowOk(flow[c], entries, version)
  BY DEF IInv, FlowsOk
<1>5. FlowOk(Checked(flow[c]), entries, version)
  BY <1>2, <1>4, HeadersIsOk
<1> QED  BY <1>1, <1>2, <1>3, <1>5, OneFlow

\* The client is answered: what was worth freezing is frozen.
LEMMA AnsweredFlow ==
  ASSUME IInv, NEW c \in Conns, response(c) \/ Deliver(c)
  PROVE  /\ flow' = [flow EXCEPT ![c] = Done(flow[c], FALSE)]
         /\ FlowOk(Done(flow[c], FALSE), entries, version)
<1> DEFINE f == flow[c]
<1>1. FlowOk(f, entries, version) /\ f \in Flows /\ f.pc \in {"body", "stored"}
  BY DEF IInv, FlowsOk, FlowOk, response, Deliver, Hook
<1>2. f.failed = FALSE
  BY <1>1 DEF FlowOk
<1>3. flow' = [flow EXCEPT ![c] = Answered(f)]
  BY Zenon DEF response, Deliver
<1>4. Answered(f) = Done(f, FALSE)
  BY <1>1, <1>2 DEF Answered, Done, Flows
<1>5. ASSUME f.resp.status = "ok", f.key # NoKey
      PROVE  Whole(entries[f.key])
  <2>1. CASE f.pc = "stored"
    BY <1>1, <1>2, <1>5, <2>1 DEF FlowOk
  <2>2. CASE f.pc = "body"
    <3>1. ~Storable(f)
      BY <2>2 DEF response, Deliver, Hook
    <3>2. f.orig \in Requests /\ f.scope \in Scopes \cup {NoScope} /\ f.key = SnapshotKey(f.scope, f.orig)
      BY <1>1, <2>2 DEF FlowOk, Flows
    <3>3. f.scope \in Scopes /\ CacheUrl(f.orig, FALSE) # NoKey /\ f.scope # NoScope
      BY <1>5, <3>2, KeyIsKey, NetCacheAssumption
    <3>4. FrozenUrl(f) = CacheUrl(f.orig, FALSE)
      BY <1>5 DEF FrozenUrl, IdentityUrl, CacheUrl
    <3>5. f.key \in Keys /\ f.key = <<f.scope, FrozenUrl(f)>>
      BY <3>2, <3>3, <3>4, KeyIsKey
    <3>6. f.hit \/ entries[f.key] # Absent
      BY <1>5, <3>1, <3>3, <3>4, <3>5 DEF Storable
    <3>7. CASE f.hit
      BY <1>1, <3>7 DEF FlowOk
    <3>8. CASE entries[f.key] # Absent
      BY <3>5, <3>8, WholeIsWhole DEF IInv
    <3> QED  BY <3>6, <3>7, <3>8
  <2> QED  BY <1>1, <2>1, <2>2
<1>6. FlowOk(Done(f, FALSE), entries, version)
  BY <1>1, <1>5, AnsweredIsOk
<1> QED  BY <1>3, <1>4, <1>6, Zenon

LEMMA AnsweredOk ==
  ASSUME IInv, NEW c \in Conns, response(c) \/ Deliver(c)
  PROVE  IInv'
<1>1. /\ flow' = [flow EXCEPT ![c] = Done(flow[c], FALSE)]
      /\ FlowOk(Done(flow[c], FALSE), entries, version)
  BY AnsweredFlow
<1>2. writing' = NotWriting /\ UNCHANGED <<version, scopes, entries, uv, asked, troubles>>
  BY DEF response, Deliver, Hook
<1>3. asked' \in 0..MaxRequests /\ troubles' \in 0..MaxTroubles
  BY <1>2, CountsOn DEF IInv
<1> QED  BY <1>1, <1>2, <1>3, OneFlow

LEMMA StoreFilesOk ==
  ASSUME IInv, NEW c \in Conns, StoreFiles(c)
  PROVE  IInv'
<1>1. /\ flow[c].pc = "body" /\ Storable(flow[c])
      /\ writing' = [conn |-> c, key |-> <<flow[c].scope, FrozenUrl(flow[c])>>]
  BY DEF StoreFiles, Hook
<1>2. UNCHANGED <<version, scopes, flow, entries, uv, asked, troubles>>
  BY DEF StoreFiles
<1>3. Storable(flow[c])'
  BY <1>1, <1>2 DEF Storable
<1>4. WritingOk'
  BY <1>1, <1>2, <1>3 DEF WritingOk
<1>5. FlowsOk'
  BY <1>2 DEF IInv, FlowsOk
<1>6. CountersOk'
  BY <1>2 DEF IInv, CountersOk
<1>7. MirrorOk'
  BY <1>2, MirrorFrame DEF IInv
<1>8. EntriesOk(entries)'
  BY <1>2, EntriesFrame DEF IInv
<1> QED  BY <1>4, <1>5, <1>6, <1>7, <1>8 DEF IInv

\* The entry gets its name: nobody else's entry is touched.
LEMMA RenameFlow ==
  ASSUME IInv, NEW c \in Conns, Rename(c)
  PROVE  /\ flow' = [flow EXCEPT ![c] = Named(flow[c])]
         /\ flow[c].key \in Keys /\ entries[flow[c].key] = Absent
         /\ entries' = [entries EXCEPT ![flow[c].key] = EntryOf(flow[c])]
         /\ \A k \in Keys : Whole(entries[k]) => Whole(entries'[k])
         /\ EntriesOk(entries)'
         /\ FlowOk(Named(flow[c]), entries', version)
<1> DEFINE f == flow[c]
<1>1. f.pc = "body" /\ Storable(f) /\ FlowOk(f, entries, version) /\ writing.key = <<f.scope, FrozenUrl(f)>>
  BY WriterIsOk DEF Rename
<1>2. /\ f.key \in Keys /\ f.key = <<f.scope, FrozenUrl(f)>> /\ entries[f.key] = Absent
      /\ EntryOf(f) \in Dirs /\ EntryOk(f.key, EntryOf(f)) /\ Whole(EntryOf(f))
  BY <1>1, FrozenIsOk
<1>3. flow' = [flow EXCEPT ![c] = Named(flow[c])]
  BY Zenon DEF Rename, Named
<1>4. entries' = [entries EXCEPT ![f.key] = EntryOf(f)]
  BY <1>1, <1>2, Zenon DEF Rename
<1>5. entries \in [Keys -> Dirs] /\ EntriesOk(entries)
  BY DEF IInv, EntriesOk
<1>6. entries'[f.key] = EntryOf(f) /\ entries' \in [Keys -> Dirs]
  BY <1>2, <1>4, <1>5
<1>7. ASSUME NEW k \in Keys PROVE EntryOk(k, entries'[k]) /\ (Whole(entries[k]) => Whole(entries'[k]))
  <2>1. CASE k = f.key
    BY <1>2, <1>6, <2>1
  <2>2. CASE k # f.key
    <3>1. entries'[k] = entries[k]
      BY <1>4, <1>5, <2>2
    <3> QED  BY <1>5, <3>1 DEF EntriesOk
  <2> QED  BY <2>1, <2>2
<1>8. EntriesOk(entries)'
  BY <1>6, <1>7 DEF EntriesOk
<1>9. FlowOk(f, entries', version)
  <2>1. version \in Nat /\ version <= version
    BY NetCacheAssumption DEF IInv, CountersOk
  <2> QED  BY <1>1, <1>7, <2>1, FlowFrame
<1>10. Whole(entries'[f.key])
  BY <1>2, <1>6
<1>11. FlowOk(Named(f), entries', version)
  BY <1>1, <1>9, <1>10, StoredIsOk
<1> QED  BY <1>2, <1>3, <1>4, <1>7, <1>8, <1>11

LEMMA RenameOk ==
  ASSUME IInv, NEW c \in Conns, Rename(c)
  PROVE  IInv'
<1>1. /\ flow' = [flow EXCEPT ![c] = Named(flow[c])]
      /\ \A k \in Keys : Whole(entries[k]) => Whole(entries'[k])
      /\ EntriesOk(entries)'
      /\ FlowOk(Named(flow[c]), entries', version)
  BY RenameFlow
<1>2. writing' = NotWriting /\ UNCHANGED <<version, scopes, uv, asked, troubles>>
  BY DEF Rename
<1>3. WritingOk'
  BY <1>2, NoneWrites
<1>4. CountersOk'
  BY <1>2 DEF IInv, CountersOk
<1>5. MirrorOk'
  BY <1>2, MirrorFrame DEF IInv
<1>6. FlowsOk'
  <2>1. version' \in 1..MaxVersions /\ version <= version' /\ FlowOk(Named(flow[c]), entries', version')
    BY <1>1, <1>2, NetCacheAssumption DEF IInv, CountersOk
  <2>2. scopes' \in [Conns -> Scopes \cup {NoScope}]
    BY <1>2 DEF IInv, FlowsOk
  <2> QED  BY <1>1, <2>1, <2>2, FlowsStep DEF IInv
<1> QED  BY <1>1, <1>3, <1>4, <1>5, <1>6 DEF IInv

LEMMA StoreFailsFlow ==
  ASSUME IInv, NEW c \in Conns, StoreFails(c)
  PROVE  /\ flow' = [flow EXCEPT ![c] = Done(flow[c], TRUE)]
         /\ FlowOk(Done(flow[c], TRUE), entries, version)
<1>1. flow[c].pc = "body" /\ FlowOk(flow[c], entries, version)
  BY WriterIsOk DEF StoreFails
<1>2. flow' = [flow EXCEPT ![c] = Done(flow[c], TRUE)]
  BY Zenon DEF StoreFails, Done, Answered
<1>3. FlowOk(Done(flow[c], TRUE), entries, version)
  BY <1>1, AnsweredIsOk
<1> QED  BY <1>2, <1>3

LEMMA StoreFailsOk ==
  ASSUME IInv, NEW c \in Conns, StoreFails(c)
  PROVE  IInv'
<1>1. /\ flow' = [flow EXCEPT ![c] = Done(flow[c], TRUE)]
      /\ FlowOk(Done(flow[c], TRUE), entries, version)
  BY StoreFailsFlow
<1>2. writing' = NotWriting /\ Trouble /\ UNCHANGED <<version, scopes, entries, uv, asked>>
  BY DEF StoreFails
<1>3. asked' \in 0..MaxRequests /\ troubles' \in 0..MaxTroubles
  BY <1>2, CountsOn DEF IInv
<1> QED  BY <1>1, <1>2, <1>3, OneFlow

LEMMA RestartProxyOk ==
  ASSUME IInv, RestartProxy
  PROVE  IInv'
<1>1. /\ scopes' = [c \in Conns |-> NoScope] /\ flow' = [c \in Conns |-> Idle]
      /\ writing' = NotWriting /\ Trouble /\ UNCHANGED <<version, entries, uv, asked>>
  BY DEF RestartProxy
<1>2. CountersOk'
  BY <1>1, CountsOn DEF IInv, CountersOk
<1>3. FlowOk(Idle, entries', version') /\ Idle \in Flows
  BY IdleIsOk DEF FlowOk
<1>4. FlowsOk'
  BY <1>1, <1>3 DEF FlowsOk
<1>5. WritingOk'
  BY <1>1, NoneWrites
<1>6. MirrorOk' /\ EntriesOk(entries)'
  BY <1>1, MirrorFrame, EntriesFrame DEF IInv
<1> QED  BY <1>2, <1>4, <1>5, <1>6 DEF IInv

LEMMA PublishOk ==
  ASSUME IInv, Publish
  PROVE  IInv'
<1>1. version < MaxVersions /\ version' = version + 1 /\ UNCHANGED <<scopes, flow, entries, writing, uv, asked, troubles>>
  BY DEF Publish, proxy
<1>2. version' \in 1..MaxVersions /\ version <= version'
  BY <1>1, NetCacheAssumption DEF IInv, CountersOk
<1>3. CountersOk'
  BY <1>1, <1>2 DEF IInv, CountersOk
<1>4. FlowsOk'
  BY <1>1, <1>2, FlowsFrame DEF IInv
<1>5. WritingOk'
  BY <1>1, WritingFrame DEF IInv
<1>6. MirrorOk' /\ EntriesOk(entries)'
  BY <1>1, MirrorFrame, EntriesFrame DEF IInv
<1> QED  BY <1>3, <1>4, <1>5, <1>6 DEF IInv

-----------------------------------------------------------------------------
(* Every step of the mirror preserves the invariant. *)

\* the mirror's steps leave the addon alone
LEMMA MirrorOnly ==
  ASSUME IInv, MirrorOk', UNCHANGED <<version, proxy>>,
         asked' \in 0..MaxRequests, troubles' \in 0..MaxTroubles
  PROVE  IInv'
<1>1. UNCHANGED <<version, scopes, flow, entries, writing>>
  BY DEF proxy
<1>2. CountersOk'
  BY <1>1 DEF IInv, CountersOk
<1>3. FlowsOk'
  BY <1>1 DEF IInv, FlowsOk
<1>4. WritingOk' /\ EntriesOk(entries)'
  BY <1>1, WritingFrame, EntriesFrame DEF IInv
<1> QED  BY <1>2, <1>3, <1>4 DEF IInv

\* a thread that takes no lock
LEMMA ThreadStep ==
  ASSUME MirrorOk, NEW c \in Conns, NEW t \in Threads, thread' = [thread EXCEPT ![c] = t],
         mirror' = mirror, t.pc # "idle" => t.build \in Builds,
         t.pc \in {"fetching", "fetched"} => thread[c].pc \in {"fetching", "fetched"} /\ thread[c].build = t.build
  PROVE  MirrorOk'
<1>1. thread' \in [Conns -> Threads] /\ thread'[c] = t /\ \A d \in Conns : d # c => thread'[d] = thread[d]
  BY DEF MirrorOk
<1>2. ASSUME NEW d \in Conns, NEW b \in Builds, Fetches(d, b)' PROVE Fetches(d, b)
  BY <1>1, <1>2 DEF Fetches
<1>3. \A d \in Conns : thread'[d].pc # "idle" => thread'[d].build \in Builds
  BY <1>1 DEF MirrorOk
<1>4. \A d \in Conns, b \in Builds : Fetches(d, b)' => mirror'[b] = 0
  BY <1>2 DEF MirrorOk
<1>5. \A d, e \in Conns, b \in Builds : Fetches(d, b)' /\ Fetches(e, b)' => d = e
  BY <1>2 DEF MirrorOk
<1> QED  BY <1>1, <1>3, <1>4, <1>5 DEF MirrorOk

LEMMA QuietIsThread ==
  Quiet \in Threads /\ Quiet.pc = "idle"
<1>1. 0 \in 0..MaxVersions
  BY NetCacheAssumption
<1> QED  BY <1>1 DEF Quiet, Threads

LEMMA MirrorGetOk ==
  ASSUME IInv, NEW c \in Conns, MirrorGet(c)
  PROVE  IInv'
<1>1. PICK b \in Builds : thread' = [thread EXCEPT ![c] = [Quiet EXCEPT !.pc = "waiting", !.build = b]]
  BY DEF MirrorGet
<1>2. PICK t \in Threads : t = [Quiet EXCEPT !.pc = "waiting", !.build = b]
  BY QuietIsThread DEF Threads
<1>3. t.pc = "waiting" /\ t.build = b
  BY <1>2, QuietIsThread DEF Threads
<1>4. thread' = [thread EXCEPT ![c] = t]
  BY <1>1, <1>2, Zenon
<1>5. asked < MaxRequests /\ asked' = asked + 1 /\ UNCHANGED <<version, proxy, mirror, troubles>>
  BY DEF MirrorGet, Free
<1>6. MirrorOk'
  BY <1>3, <1>4, <1>5, ThreadStep DEF IInv
<1>7. asked' \in 0..MaxRequests /\ troubles' \in 0..MaxTroubles
  BY <1>5, CountsOn DEF IInv
<1> QED  BY <1>5, <1>6, <1>7, MirrorOnly

LEMMA MirrorLookOk ==
  ASSUME IInv, NEW c \in Conns, MirrorLook(c)
  PROVE  IInv'
<1> DEFINE b == thread[c].build
<1>0. MirrorOk /\ thread[c] \in Threads /\ thread[c].pc = "waiting" /\ Unlocked(b)
      /\ UNCHANGED <<version, proxy, mirror, asked, troubles>>
  BY DEF IInv, MirrorOk, MirrorLook, Thread
<1>1. b \in Builds
  BY <1>0 DEF MirrorOk
<1>2. PICK p \in {"sending", "fetching"} : p = IF mirror[b] # 0 THEN "sending" ELSE "fetching"
  OBVIOUS
<1>3. PICK t : t = [thread[c] EXCEPT !.pc = p]
  OBVIOUS
<1>4. t \in Threads /\ t.pc = p /\ t.build = b
  BY <1>0, <1>2, <1>3 DEF Threads
<1>5. thread' = [thread EXCEPT ![c] = t]
  BY <1>2, <1>3, Zenon DEF MirrorLook
<1>6. MirrorOk'
  <2>1. CASE mirror[b] # 0
    <3>1. t.pc = "sending"
      BY <1>2, <1>4, <2>1
    <3> QED  BY <1>0, <1>1, <1>4, <1>5, <3>1, ThreadStep
  <2>2. CASE mirror[b] = 0
    <3>1. thread' \in [Conns -> Threads] /\ thread'[c] = t /\ \A d \in Conns : d # c => thread'[d] = thread[d]
      BY <1>0, <1>4, <1>5 DEF MirrorOk
    <3>2. ASSUME NEW d \in Conns, NEW e \in Builds, Fetches(d, e)'
          PROVE  (d = c /\ e = b) \/ (d # c /\ e # b /\ Fetches(d, e))
      <4>1. CASE d = c
        BY <1>4, <3>1, <3>2, <4>1 DEF Fetches
      <4>2. CASE d # c
        <5>1. Fetches(d, e)
          BY <3>1, <3>2, <4>2 DEF Fetches
        <5> QED  BY <1>0, <4>2, <5>1 DEF Fetches, Unlocked
      <4> QED  BY <4>1, <4>2
    <3>3. \A d \in Conns : thread'[d].pc # "idle" => thread'[d].build \in Builds
      BY <1>0, <1>1, <1>4, <3>1 DEF MirrorOk
    <3>4. \A d \in Conns, e \in Builds : Fetches(d, e)' => mirror'[e] = 0
      BY <1>0, <2>2, <3>2 DEF MirrorOk
    <3>5. \A d1, d2 \in Conns, e \in Builds : Fetches(d1, e)' /\ Fetches(d2, e)' => d1 = d2
      BY <1>0, <3>2 DEF MirrorOk
    <3>6. mirror' \in [Builds -> 0..MaxVersions]
      BY <1>0 DEF MirrorOk
    <3> QED  BY <3>1, <3>3, <3>4, <3>5, <3>6 DEF MirrorOk
  <2> QED  BY <2>1, <2>2
<1>7. asked' \in 0..MaxRequests /\ troubles' \in 0..MaxTroubles
  BY <1>0, CountsOn DEF IInv
<1> QED  BY <1>0, <1>6, <1>7, MirrorOnly

LEMMA MirrorFetchOk ==
  ASSUME IInv, NEW c \in Conns, MirrorFetch(c)
  PROVE  IInv'
<1>0. MirrorOk /\ thread[c] \in Threads /\ thread[c].pc = "fetching"
      /\ UNCHANGED <<version, proxy, mirror, asked, troubles>>
  BY DEF IInv, MirrorOk, MirrorFetch, Thread
<1>1. version \in 0..MaxVersions
  BY NetCacheAssumption DEF IInv, CountersOk
<1>2. PICK t : t = [thread[c] EXCEPT !.pc = "fetched", !.fetched = version]
  OBVIOUS
<1>3. t \in Threads /\ t.pc = "fetched" /\ t.build = thread[c].build
  BY <1>0, <1>1, <1>2 DEF Threads
<1>4. thread' = [thread EXCEPT ![c] = t]
  BY <1>2, Zenon DEF MirrorFetch
<1>5. t.build \in Builds
  BY <1>0, <1>3 DEF MirrorOk
<1>6. MirrorOk'
  BY <1>0, <1>3, <1>4, <1>5, ThreadStep
<1>7. asked' \in 0..MaxRequests /\ troubles' \in 0..MaxTroubles
  BY <1>0, CountsOn DEF IInv
<1> QED  BY <1>0, <1>6, <1>7, MirrorOnly

\* The build that is published was missing, and nobody else fetches it.
LEMMA MirrorReplaceOk ==
  ASSUME IInv, NEW c \in Conns, MirrorReplace(c)
  PROVE  IInv' /\ \A b \in Builds : mirror[b] # 0 => mirror'[b] = mirror[b]
<1> DEFINE b == thread[c].build
<1>0. /\ MirrorOk /\ thread[c] \in Threads /\ thread[c].pc = "fetched"
      /\ mirror' = [mirror EXCEPT ![b] = thread[c].fetched]
      /\ UNCHANGED <<version, proxy, asked, troubles>>
  BY DEF IInv, MirrorOk, MirrorReplace, Thread
<1>1. b \in Builds /\ Fetches(c, b) /\ mirror[b] = 0
  BY <1>0 DEF MirrorOk, Fetches
<1>2. PICK t : t = [thread[c] EXCEPT !.pc = "sending", !.fetched = 0]
  OBVIOUS
<1>3. t \in Threads /\ t.pc = "sending" /\ t.build = b
  <2>1. 0 \in 0..MaxVersions
    BY NetCacheAssumption
  <2> QED  BY <1>0, <1>2, <2>1 DEF Threads
<1>4. thread' = [thread EXCEPT ![c] = t]
  BY <1>2, Zenon DEF MirrorReplace
<1>5. thread' \in [Conns -> Threads] /\ thread'[c] = t /\ \A d \in Conns : d # c => thread'[d] = thread[d]
  BY <1>0, <1>3, <1>4 DEF MirrorOk
<1>6. thread[c].fetched \in 0..MaxVersions
  BY <1>0 DEF Threads
<1>7. mirror' \in [Builds -> 0..MaxVersions] /\ \A e \in Builds : e # b => mirror'[e] = mirror[e]
  BY <1>0, <1>6 DEF MirrorOk
<1>8. ASSUME NEW d \in Conns, NEW e \in Builds, Fetches(d, e)'
      PROVE  Fetches(d, e) /\ e # b
  <2>1. d # c
    BY <1>3, <1>5, <1>8 DEF Fetches
  <2>2. Fetches(d, e)
    BY <1>5, <1>8, <2>1 DEF Fetches
  <2> QED  BY <1>0, <1>1, <2>1, <2>2 DEF MirrorOk
<1>9. \A d \in Conns : thread'[d].pc # "idle" => thread'[d].build \in Builds
  BY <1>0, <1>1, <1>3, <1>5 DEF MirrorOk
<1>10. \A d \in Conns, e \in Builds : Fetches(d, e)' => mirror'[e] = 0
  BY <1>0, <1>7, <1>8 DEF MirrorOk
<1>11. \A d1, d2 \in Conns, e \in Builds : Fetches(d1, e)' /\ Fetches(d2, e)' => d1 = d2
  BY <1>0, <1>8 DEF MirrorOk
<1>12. MirrorOk'
  BY <1>5, <1>7, <1>9, <1>10, <1>11 DEF MirrorOk
<1>13. asked' \in 0..MaxRequests /\ troubles' \in 0..MaxTroubles
  BY <1>0, CountsOn DEF IInv
<1>14. IInv'
  BY <1>0, <1>12, <1>13, MirrorOnly
<1>15. \A e \in Builds : mirror[e] # 0 => mirror'[e] = mirror[e]
  BY <1>1, <1>7
<1> QED  BY <1>14, <1>15

LEMMA MirrorQuietOk ==
  ASSUME IInv, NEW c \in Conns, MirrorFails(c) \/ MirrorSend(c)
  PROVE  IInv'
<1>1. /\ thread' = [thread EXCEPT ![c] = Quiet] /\ UNCHANGED <<version, proxy, mirror, asked>>
      /\ Trouble \/ troubles' = troubles
  BY DEF MirrorFails, MirrorSend
<1>2. MirrorOk'
  BY <1>1, QuietIsThread, ThreadStep DEF IInv
<1>3. asked' \in 0..MaxRequests /\ troubles' \in 0..MaxTroubles
  BY <1>1, CountsOn DEF IInv
<1> QED  BY <1>1, <1>2, <1>3, MirrorOnly

LEMMA RestartMirrorOk ==
  ASSUME IInv, RestartMirror
  PROVE  IInv'
<1>1. thread' = [c \in Conns |-> Quiet] /\ Trouble /\ UNCHANGED <<version, proxy, mirror, asked>>
  BY DEF RestartMirror
<1>2. \A d \in Conns, b \in Builds : ~Fetches(d, b)'
  BY <1>1, QuietIsThread DEF Fetches
<1>3. thread' \in [Conns -> Threads] /\ \A d \in Conns : thread'[d].pc = "idle"
  BY <1>1, QuietIsThread
<1>4. MirrorOk'
  BY <1>1, <1>2, <1>3 DEF IInv, MirrorOk
<1>5. asked' \in 0..MaxRequests /\ troubles' \in 0..MaxTroubles
  BY <1>1, CountsOn DEF IInv
<1> QED  BY <1>1, <1>4, <1>5, MirrorOnly

-----------------------------------------------------------------------------
LEMMA InitOk ==
  ASSUME Init
  PROVE  IInv
<1>1. CountersOk
  BY NetCacheAssumption DEF Init, CountersOk
<1>2. FlowOk(Idle, entries, version) /\ Idle \in Flows
  BY IdleIsOk DEF FlowOk
<1>3. FlowsOk
  BY <1>2 DEF Init, FlowsOk
<1>4. EntriesOk(entries)
  <2>1. Absent \in Dirs
    <3>1. PICK M : M = [status : {"ok"}, telemetry : {FALSE}] \cup {Nothing}
      OBVIOUS
    <3>2. Nothing \in M
      BY <3>1
    <3>3. Absent \in [body : Content \cup {Nothing}, meta : M]
      BY <3>2 DEF Absent
    <3> QED  BY <3>1, <3>3 DEF Dirs
  <2> QED  BY <2>1 DEF Init, EntriesOk, EntryOk
<1>5. WritingOk
  BY DEF Init, WritingOk
<1>6. MirrorOk
  <2>1. 0 \in 0..MaxVersions
    BY NetCacheAssumption
  <2> QED  BY <2>1, QuietIsThread DEF Init, MirrorOk, Fetches
<1> QED  BY <1>1, <1>3, <1>4, <1>5, <1>6 DEF IInv

LEMMA StutterOk ==
  ASSUME IInv, UNCHANGED vars
  PROVE  IInv'
<1>1. UNCHANGED <<version, proxy, uv, asked, troubles>>
  BY DEF vars
<1>2. MirrorOk'
  BY <1>1, MirrorFrame DEF IInv
<1>3. asked' \in 0..MaxRequests /\ troubles' \in 0..MaxTroubles
  BY <1>1, CountsOn DEF IInv
<1> QED  BY <1>1, <1>2, <1>3, MirrorOnly

LEMMA NextOk ==
  ASSUME IInv, Next
  PROVE  IInv'
<1>1. CASE Publish
  BY <1>1, PublishOk
<1>2. CASE RestartProxy
  BY <1>2, RestartProxyOk
<1>3. CASE RestartMirror
  BY <1>3, RestartMirrorOk
<1>4. ASSUME NEW c \in Conns, Proxy(c) PROVE IInv'
  <2>1. ASSUME NEW r \in Requests, NEW auth \in Scopes \cup {NoScope}, request(c, r, auth) \/ LoadFails(c, r, auth)
        PROVE  IInv'
    BY <2>1, RequestOk, LoadFailsOk
  <2>2. CASE http_connect(c)
    BY <2>2, ConnectOk
  <2>3. CASE Upstream(c) \/ Unreachable(c)
    BY <2>3, UpstreamOk, UnreachableOk
  <2>4. CASE responseheaders(c)
    BY <2>4, HeadersOk
  <2>5. CASE response(c) \/ Deliver(c)
    BY <2>5, AnsweredOk
  <2>6. CASE StoreFiles(c) \/ Rename(c) \/ StoreFails(c)
    BY <2>6, StoreFilesOk, RenameOk, StoreFailsOk
  <2> QED  BY <1>4, <2>1, <2>2, <2>3, <2>4, <2>5, <2>6 DEF Proxy
<1>5. ASSUME NEW c \in Conns, Mirror(c) PROVE IInv'
  <2>1. CASE MirrorGet(c) \/ MirrorLook(c) \/ MirrorFetch(c)
    BY <2>1, MirrorGetOk, MirrorLookOk, MirrorFetchOk
  <2>2. CASE MirrorReplace(c)
    BY <2>2, MirrorReplaceOk
  <2>3. CASE MirrorFails(c) \/ MirrorSend(c)
    BY <2>3, MirrorQuietOk
  <2> QED  BY <1>5, <2>1, <2>2, <2>3 DEF Mirror
<1> QED  BY <1>1, <1>2, <1>3, <1>4, <1>5 DEF Next

LEMMA Invariance ==
  Spec => []IInv
<1>1. IInv /\ [Next]_vars => IInv'
  BY NextOk, StutterOk
<1> QED  BY <1>1, InitOk, PTL DEF Spec

LEMMA IInvTypes ==
  ASSUME IInv
  PROVE  TypeOK
<1>1. \A c \in Conns : flow[c] \in Flows
  BY DEF IInv, FlowsOk
<1>2. \A k \in Keys : entries[k] \in Dirs
  BY DEF IInv, EntriesOk
<1>3. writing.conn \in Conns \cup {Nothing} /\ writing.key \in Keys \cup {NoKey}
  <2>1. CASE writing = NotWriting
    BY <2>1 DEF NotWriting
  <2>2. CASE writing # NotWriting
    <3>1. PICK c \in Conns : /\ flow[c].pc = "body"
                             /\ writing = [conn |-> c, key |-> <<flow[c].scope, FrozenUrl(flow[c])>>]
                             /\ Storable(flow[c])
      BY <2>2 DEF IInv, WritingOk
    <3> DEFINE k == <<flow[c].scope, FrozenUrl(flow[c])>>
    <3>2. FlowOk(flow[c], entries, version)
      BY DEF IInv, FlowsOk
    <3>3. k \in Keys
      BY <3>1, <3>2, FrozenIsOk
    <3>4. writing = [conn |-> c, key |-> k]
      BY <3>1
    <3> HIDE DEF k
    <3> QED  BY <3>3, <3>4
  <2> QED  BY <2>1, <2>2
<1>4. \A c \in Conns : thread[c] \in Threads
  BY DEF IInv, MirrorOk
<1> QED  BY <1>1, <1>2, <1>3, <1>4 DEF IInv, CountersOk, FlowsOk, MirrorOk, TypeOK, Threads

-----------------------------------------------------------------------------
(* Whoever was shown an answer worth freezing finds it again, and no restart of the proxy
   between the file operations of store_cacheable_response leaves half an entry: for every set
   of clients, scopes and requests, however many restarts, disk errors and new versions. *)
THEOREM EntriesSafe == Spec => []EntriesAreKept
<1>1. IInv => EntriesAreKept
  <2> SUFFICES ASSUME IInv PROVE EntriesAreKept
    OBVIOUS
  <2>1. TypeOK
    BY IInvTypes
  <2>2. FrozenBeforeAnswered
    <3> SUFFICES ASSUME NEW c \in Conns, flow[c].pc = "answered", flow[c].resp.status = "ok",
                        flow[c].key # NoKey, ~flow[c].failed
                 PROVE  Whole(entries[flow[c].key])
      BY Zenon DEF FrozenBeforeAnswered
    <3>1. FlowOk(flow[c], entries, version)
      BY DEF IInv, FlowsOk
    <3> QED  BY <3>1 DEF FlowOk
  <2>3. EntriesAreWhole
    BY WholeIsWhole DEF IInv, EntriesAreWhole
  <2> QED  BY <2>1, <2>2, <2>3 DEF EntriesAreKept
<1> QED  BY <1>1, Invariance, PTL

(* A client without credentials is answered by the live network, and nobody is answered with
   the entry of a request that denotes something else: two requests share a canonical URL only
   if they denote the same asset, whatever host it was fetched from. *)
THEOREM AnswersSafe == Spec => []AnswersAreRight
<1>1. IInv => AnswersAreRight
  <2> SUFFICES ASSUME IInv, NEW c \in Conns
               PROVE  /\ flow[c].pc = "answered" => flow[c].since <= flow[c].resp.content.version
                      /\ flow[c].resp # Nothing => flow[c].resp.content.asset = Asset(flow[c].orig)
    BY DEF AnswersAreRight, UnscopedIsLive, AnswersFitTheRequest
  <2>1. FlowOk(flow[c], entries, version)
    BY DEF IInv, FlowsOk
  <2>2. CASE flow[c].pc \notin {"idle", "sent"}
    BY <2>1, <2>2 DEF FlowOk, RespOk
  <2>3. CASE flow[c].pc = "idle"
    <3>1. flow[c] = Idle
      BY <2>1, <2>3 DEF FlowOk
    <3>2. Idle.resp = Nothing /\ Idle.pc = "idle"
      BY DEF Idle
    <3> QED  BY <3>1, <3>2
  <2>4. CASE flow[c].pc = "sent"
    BY <2>1, <2>4 DEF FlowOk
  <2> QED  BY <2>2, <2>3, <2>4
<1> QED  BY <1>1, Invariance, PTL

(* A published build is never replaced: whoever publishes one holds its lock, and it was
   missing when the lock was taken, however many threads ask and whatever upstream has. *)
THEOREM MirrorSafe == Spec => MirrorIsWriteOnce
<1>1. IInv /\ [Next]_vars => [\A b \in Builds : mirror[b] # 0 => mirror'[b] = mirror[b]]_vars
  <2> SUFFICES ASSUME IInv, Next PROVE \A b \in Builds : mirror[b] # 0 => mirror'[b] = mirror[b]
    BY DEF vars, uv
  <2>1. CASE \E c \in Conns : MirrorReplace(c)
    BY <2>1, MirrorReplaceOk
  <2>2. CASE ~\E c \in Conns : MirrorReplace(c)
    <3>1. mirror' = mirror
      <4>1. CASE Publish \/ RestartProxy \/ RestartMirror
        BY <4>1 DEF Publish, RestartProxy, RestartMirror, uv
      <4>2. ASSUME NEW c \in Conns, Proxy(c) PROVE mirror' = mirror
        <5>1. UNCHANGED uv
          BY <4>2 DEF Proxy, http_connect, request, LoadFails, Upstream, Unreachable, responseheaders, response,
             StoreFiles, Rename, StoreFails, Deliver
        <5> QED  BY <5>1 DEF uv
      <4>3. ASSUME NEW c \in Conns, Mirror(c) PROVE mirror' = mirror
        BY <2>2, <4>3 DEF Mirror, MirrorGet, MirrorLook, MirrorFetch, MirrorFails, MirrorSend
      <4> QED  BY <4>1, <4>2, <4>3 DEF Next
    <3> QED  BY <3>1
  <2> QED  BY <2>1, <2>2
<1> QED  BY <1>1, Invariance, PTL DEF Spec, MirrorIsWriteOnce

-----------------------------------------------------------------------------
(* The refinement.  The state of the abstract snapshot: *)

FrozenBar == [k \in Keys |-> IF Whole(entries[k]) THEN Shown(entries[k].meta, entries[k].body) ELSE Nothing]
WantBar == [c \in Conns |-> flow[c].key]
SightBar == [c \in Conns |-> IF flow[c].hit \/ flow[c].stored THEN flow[c].resp ELSE Nothing]
GivenBar == [c \in Conns |-> IF flow[c].pc = "answered" THEN flow[c].resp ELSE Nothing]

LEMMA AskMaps ==
  ASSUME NEW c \in Conns, FrozenBar' = FrozenBar,
         GivenBar' = [GivenBar EXCEPT ![c] = Nothing],
         WantBar'[c] \in Keys \cup {NoKey}, WantBar' = [WantBar EXCEPT ![c] = WantBar'[c]],
         SightBar'[c] = Nothing \/ (WantBar'[c] \in Keys /\ SightBar'[c] = FrozenBar[WantBar'[c]]),
         SightBar' = [SightBar EXCEPT ![c] = SightBar'[c]]
  PROVE  Snapshot!Ask(c)
<1>1. SightBar'[c] \in {IF WantBar'[c] \in Keys THEN FrozenBar[WantBar'[c]] ELSE Nothing, Nothing}
  OBVIOUS
<1> QED  BY <1>1, Zenon DEF Snapshot!Ask, Snapshot!Seen, FrozenBar, GivenBar, WantBar, SightBar

LEMMA FreezeMaps ==
  ASSUME NEW c \in Conns, WantBar[c] \in Keys, FrozenBar[WantBar[c]] = Nothing,
         SightBar[c] = Nothing, GivenBar[c] = Nothing, SightBar'[c] \in Response,
         SightBar' = [SightBar EXCEPT ![c] = SightBar'[c]],
         FrozenBar' = [FrozenBar EXCEPT ![WantBar[c]] = SightBar'[c]],
         WantBar' = WantBar, GivenBar' = GivenBar
  PROVE  Snapshot!Freeze(c)
  BY Zenon DEF Snapshot!Freeze, FrozenBar, GivenBar, WantBar, SightBar

LEMMA GiveMaps ==
  ASSUME NEW c \in Conns, GivenBar[c] = Nothing, GivenBar'[c] \in Response,
         SightBar[c] = Nothing \/ SightBar[c] = GivenBar'[c],
         GivenBar' = [GivenBar EXCEPT ![c] = GivenBar'[c]],
         FrozenBar' = FrozenBar, WantBar' = WantBar, SightBar' = SightBar
  PROVE  Snapshot!Give(c)
<1>1. SightBar[c] \in {Nothing, GivenBar'[c]}
  OBVIOUS
<1> QED  BY <1>1, Zenon DEF Snapshot!Give, FrozenBar, GivenBar, WantBar, SightBar

LEMMA BreakMaps ==
  ASSUME NEW C \in SUBSET Conns, FrozenBar' = FrozenBar,
         WantBar' = [c \in Conns |-> IF c \in C THEN NoKey ELSE WantBar[c]],
         SightBar' = [c \in Conns |-> IF c \in C THEN Nothing ELSE SightBar[c]],
         GivenBar' = [c \in Conns |-> IF c \in C THEN Nothing ELSE GivenBar[c]]
  PROVE  Snapshot!Break
  BY Zenon DEF Snapshot!Break, FrozenBar, GivenBar, WantBar, SightBar

LEMMA StutterMaps ==
  ASSUME FrozenBar' = FrozenBar, WantBar' = WantBar, SightBar' = SightBar, GivenBar' = GivenBar
  PROVE  UNCHANGED Snapshot!vars
  BY DEF Snapshot!vars, FrozenBar, GivenBar, WantBar, SightBar

SightOf(f) == IF f.hit \/ f.stored THEN f.resp ELSE Nothing
GivenOf(f) == IF f.pc = "answered" THEN f.resp ELSE Nothing

LEMMA BarsOf ==
  ASSUME NEW c \in Conns
  PROVE  WantBar[c] = flow[c].key /\ SightBar[c] = SightOf(flow[c]) /\ GivenBar[c] = GivenOf(flow[c])
  BY DEF WantBar, SightBar, GivenBar, SightOf, GivenOf

\* the clients' part of the abstract state when one flow takes a step
LEMMA OneBar ==
  ASSUME FlowsOk, NEW c \in Conns, NEW g, flow' = [flow EXCEPT ![c] = g]
  PROVE  /\ WantBar' = [WantBar EXCEPT ![c] = g.key] /\ WantBar'[c] = g.key
         /\ SightBar' = [SightBar EXCEPT ![c] = SightOf(g)] /\ SightBar'[c] = SightOf(g)
         /\ GivenBar' = [GivenBar EXCEPT ![c] = GivenOf(g)] /\ GivenBar'[c] = GivenOf(g)
         /\ g.key = flow[c].key => WantBar' = WantBar
         /\ SightOf(g) = SightOf(flow[c]) => SightBar' = SightBar
         /\ GivenOf(g) = GivenOf(flow[c]) => GivenBar' = GivenBar
<1>1. flow'[c] = g /\ \A d \in Conns : d # c => flow'[d] = flow[d]
  BY DEF FlowsOk
<1>2. /\ WantBar = [d \in Conns |-> flow[d].key] /\ WantBar' = [d \in Conns |-> flow'[d].key]
      /\ SightBar = [d \in Conns |-> SightOf(flow[d])] /\ SightBar' = [d \in Conns |-> SightOf(flow'[d])]
      /\ GivenBar = [d \in Conns |-> GivenOf(flow[d])] /\ GivenBar' = [d \in Conns |-> GivenOf(flow'[d])]
  BY Zenon DEF WantBar, SightBar, GivenBar, SightOf, GivenOf
<1>3. WantBar' = [WantBar EXCEPT ![c] = g.key] /\ WantBar'[c] = g.key
      /\ (g.key = flow[c].key => WantBar' = WantBar)
  BY <1>1, <1>2
<1>4. SightBar' = [SightBar EXCEPT ![c] = SightOf(g)] /\ SightBar'[c] = SightOf(g)
      /\ (SightOf(g) = SightOf(flow[c]) => SightBar' = SightBar)
  BY <1>1, <1>2
<1>5. GivenBar' = [GivenBar EXCEPT ![c] = GivenOf(g)] /\ GivenBar'[c] = GivenOf(g)
      /\ (GivenOf(g) = GivenOf(flow[c]) => GivenBar' = GivenBar)
  BY <1>1, <1>2
<1> QED  BY <1>3, <1>4, <1>5

LEMMA FrozenFrame ==
  ASSUME entries' = entries
  PROVE  FrozenBar' = FrozenBar
  BY DEF FrozenBar

LEMMA AllFrame ==
  ASSUME entries' = entries, flow' = flow
  PROVE  UNCHANGED Snapshot!vars
<1>1. FrozenBar' = FrozenBar /\ WantBar' = WantBar /\ SightBar' = SightBar /\ GivenBar' = GivenBar
  BY DEF FrozenBar, WantBar, SightBar, GivenBar
<1> QED  BY <1>1, StutterMaps

\* the addon asks on behalf of a client
LEMMA RequestMaps ==
  ASSUME IInv, NEW c \in Conns, NEW r \in Requests, NEW auth \in Scopes \cup {NoScope},
         request(c, r, auth) \/ LoadFails(c, r, auth)
  PROVE  Snapshot!Ask(c)
<1>1. PICK g : /\ flow' = [flow EXCEPT ![c] = g] /\ FlowOk(g, entries, version)
               /\ g.pc \in {"sent", "headers"} /\ g.stored = FALSE
               /\ g.key \in Keys \cup {NoKey}
               /\ g.hit => /\ g.key \in Keys /\ Whole(entries[g.key])
                           /\ g.resp = Shown(entries[g.key].meta, entries[g.key].body)
  <2>1. CASE request(c, r, auth)
    BY <2>1, RequestFlow
  <2>2. CASE LoadFails(c, r, auth)
    BY <2>2, LoadFailsFlow
  <2> QED  BY <2>1, <2>2
<1>2. entries' = entries
  BY DEF request, LoadFails
<1>3. FlowsOk
  BY DEF IInv
<1>4. GivenOf(g) = Nothing
  BY <1>1 DEF GivenOf
<1>5. SightOf(g) = Nothing \/ (g.key \in Keys /\ SightOf(g) = FrozenBar[g.key])
  <2>1. CASE g.hit
    BY <1>1, <2>1 DEF SightOf, FrozenBar
  <2>2. CASE ~g.hit
    BY <1>1, <2>2 DEF SightOf
  <2> QED  BY <2>1, <2>2
<1>6. /\ WantBar' = [WantBar EXCEPT ![c] = g.key] /\ WantBar'[c] = g.key
      /\ SightBar' = [SightBar EXCEPT ![c] = SightOf(g)] /\ SightBar'[c] = SightOf(g)
      /\ GivenBar' = [GivenBar EXCEPT ![c] = GivenOf(g)]
  BY <1>1, <1>3, OneBar
<1>7. FrozenBar' = FrozenBar
  BY <1>2, FrozenFrame
<1> QED  BY <1>1, <1>4, <1>5, <1>6, <1>7, AskMaps

\* what happens between a request and its answer is not seen
LEMMA HiddenMaps ==
  ASSUME IInv, NEW c \in Conns, Upstream(c) \/ responseheaders(c)
  PROVE  UNCHANGED Snapshot!vars
<1>0. FlowsOk /\ FlowOk(flow[c], entries, version) /\ flow[c] \in Flows
  BY DEF IInv, FlowsOk
<1>1. CASE Upstream(c)
  <2>1. PICK a : flow' = [flow EXCEPT ![c] = FromOrigin(flow[c], a)]
    BY <1>1, UpstreamFlow
  <2>2. flow[c].pc = "sent" /\ entries' = entries
    BY <1>1 DEF Upstream
  <2>3. PICK g : g = FromOrigin(flow[c], a)
    OBVIOUS
  <2>4. g.pc = "headers" /\ g.key = flow[c].key /\ g.hit = flow[c].hit /\ g.stored = flow[c].stored
    BY <1>0, <2>3, FromOriginFields
  <2>5. ~flow[c].hit /\ flow[c].stored = FALSE
    BY <1>0, <2>2 DEF FlowOk
  <2>6. SightOf(g) = SightOf(flow[c]) /\ GivenOf(g) = GivenOf(flow[c])
    BY <2>2, <2>4, <2>5 DEF SightOf, GivenOf
  <2>7. WantBar' = WantBar /\ SightBar' = SightBar /\ GivenBar' = GivenBar
    BY <1>0, <2>1, <2>3, <2>4, <2>6, OneBar
  <2> QED  BY <2>2, <2>7, FrozenFrame, StutterMaps
<1>2. CASE responseheaders(c)
  <2>1. flow' = [flow EXCEPT ![c] = Checked(flow[c])]
    BY <1>2, Zenon DEF responseheaders, Checked
  <2>2. flow[c].pc = "headers" /\ entries' = entries
    BY <1>2 DEF responseheaders, Hook
  <2>3. PICK g : g = Checked(flow[c])
    OBVIOUS
  <2>4. flow[c].resp \in Response /\ flow[c].stored = FALSE
    BY <1>0, <2>2 DEF FlowOk, RespOk
  <2>5. g.pc = "body" /\ g.key = flow[c].key /\ g.hit = flow[c].hit /\ g.stored = flow[c].stored
        /\ (flow[c].hit => g.resp = flow[c].resp)
    BY <1>0, <2>3, <2>4, CheckedFields
  <2>6. SightOf(g) = SightOf(flow[c]) /\ GivenOf(g) = GivenOf(flow[c])
    BY <2>2, <2>4, <2>5 DEF SightOf, GivenOf
  <2>7. WantBar' = WantBar /\ SightBar' = SightBar /\ GivenBar' = GivenBar
    BY <1>0, <2>1, <2>3, <2>5, <2>6, OneBar
  <2> QED  BY <2>2, <2>7, FrozenFrame, StutterMaps
<1> QED  BY <1>1, <1>2

\* a flow that ends is given its answer, the one it was bound to if there is one
LEMMA AnsweredMaps ==
  ASSUME IInv, NEW c \in Conns, response(c) \/ Deliver(c) \/ StoreFails(c)
  PROVE  Snapshot!Give(c)
<1>0. FlowsOk /\ FlowOk(flow[c], entries, version) /\ flow[c] \in Flows
  BY DEF IInv, FlowsOk
<1>1. PICK b \in BOOLEAN : flow' = [flow EXCEPT ![c] = Done(flow[c], b)]
  <2>1. CASE response(c) \/ Deliver(c)
    BY <2>1, AnsweredFlow
  <2>2. CASE StoreFails(c)
    BY <2>2, StoreFailsFlow
  <2> QED  BY <2>1, <2>2
<1>2. flow[c].pc \in {"body", "stored"} /\ entries' = entries
  <2>1. CASE response(c) \/ Deliver(c)
    BY <2>1 DEF response, Deliver, Hook
  <2>2. CASE StoreFails(c)
    BY <2>2, WriterIsOk DEF StoreFails
  <2> QED  BY <2>1, <2>2
<1>3. PICK g : g = Done(flow[c], b)
  OBVIOUS
<1>4. g.pc = "answered" /\ g.key = flow[c].key /\ g.hit = flow[c].hit /\ g.stored = flow[c].stored
      /\ g.resp = flow[c].resp
  BY <1>0, <1>3, DoneFields
<1>5. flow[c].resp \in Response
  BY <1>0, <1>2 DEF FlowOk, RespOk
<1>6. SightOf(g) = SightOf(flow[c]) /\ GivenOf(g) = flow[c].resp /\ GivenOf(flow[c]) = Nothing
  BY <1>2, <1>4 DEF SightOf, GivenOf
<1>7. /\ WantBar' = WantBar /\ SightBar' = SightBar
      /\ GivenBar' = [GivenBar EXCEPT ![c] = GivenOf(g)] /\ GivenBar'[c] = GivenOf(g)
  BY <1>0, <1>1, <1>3, <1>4, <1>6, OneBar
<1>8. SightBar[c] = SightOf(flow[c]) /\ GivenBar[c] = Nothing
  BY <1>6, BarsOf
<1>9. SightOf(flow[c]) = Nothing \/ SightOf(flow[c]) = flow[c].resp
  BY DEF SightOf
<1>10. FrozenBar' = FrozenBar
  BY <1>2, FrozenFrame
<1> QED  BY <1>5, <1>6, <1>7, <1>8, <1>9, <1>10, GiveMaps

\* os.rename freezes the key
LEMMA RenameMaps ==
  ASSUME IInv, NEW c \in Conns, Rename(c)
  PROVE  Snapshot!Freeze(c)
<1> DEFINE f == flow[c]
<1>0. FlowsOk /\ f \in Flows
  BY DEF IInv, FlowsOk
<1>1. f.pc = "body" /\ Storable(f) /\ FlowOk(f, entries, version)
  BY WriterIsOk DEF Rename
<1>2. /\ f.key \in Keys /\ entries[f.key] = Absent /\ f.hit = FALSE /\ f.stored = FALSE
      /\ f.resp \in Response /\ Shown(EntryOf(f).meta, EntryOf(f).body) = f.resp /\ Whole(EntryOf(f))
  BY <1>1, FrozenIsOk
<1>3. /\ flow' = [flow EXCEPT ![c] = Named(f)]
      /\ entries' = [entries EXCEPT ![f.key] = EntryOf(f)]
  BY RenameFlow
<1>4. PICK g : g = Named(f)
  OBVIOUS
<1>5. g.pc = "stored" /\ g.key = f.key /\ g.stored = TRUE /\ g.resp = f.resp
  BY <1>0, <1>4, NamedFields
<1>6. SightOf(g) = f.resp /\ SightOf(f) = Nothing /\ GivenOf(g) = Nothing /\ GivenOf(f) = Nothing
  BY <1>1, <1>2, <1>5 DEF SightOf, GivenOf
<1>7. /\ WantBar' = WantBar /\ GivenBar' = GivenBar
      /\ SightBar' = [SightBar EXCEPT ![c] = f.resp] /\ SightBar'[c] = f.resp
  <2>1. flow' = [flow EXCEPT ![c] = g]
    BY <1>3, <1>4, Zenon
  <2>2. /\ WantBar' = WantBar /\ GivenBar' = GivenBar
        /\ SightBar' = [SightBar EXCEPT ![c] = SightOf(g)] /\ SightBar'[c] = SightOf(g)
    <3>1. g.key = flow[c].key /\ GivenOf(g) = GivenOf(flow[c])
      BY <1>5, <1>6
    <3> QED  BY <1>0, <2>1, <3>1, OneBar
  <2> QED  BY <1>6, <2>2, Zenon
<1>8. WantBar[c] = f.key /\ SightBar[c] = Nothing /\ GivenBar[c] = Nothing
  BY <1>6, BarsOf
<1>9. FrozenBar[f.key] = Nothing
  BY <1>2 DEF FrozenBar, Whole, Absent
<1>10. FrozenBar' = [FrozenBar EXCEPT ![f.key] = f.resp]
  <2>1. entries'[f.key] = EntryOf(f) /\ \A k \in Keys : k # f.key => entries'[k] = entries[k]
    BY <1>2, <1>3 DEF IInv, EntriesOk
  <2> QED  BY <1>2, <2>1 DEF FrozenBar
<1> QED  BY <1>2, <1>7, <1>8, <1>9, <1>10, FreezeMaps

\* a connection breaks, or all of them
LEMMA BreaksMap ==
  ASSUME IInv, RestartProxy \/ \E c \in Conns : Unreachable(c)
  PROVE  Snapshot!Break
<1>1. PICK C \in SUBSET Conns : /\ flow' = [c \in Conns |-> IF c \in C THEN Idle ELSE flow[c]]
                                /\ entries' = entries
  <2>1. CASE RestartProxy
    <3>1. flow' = [c \in Conns |-> IF c \in Conns THEN Idle ELSE flow[c]] /\ entries' = entries
      BY <2>1 DEF RestartProxy
    <3> QED  BY <3>1
  <2>2. ASSUME NEW d \in Conns, Unreachable(d)
        PROVE  \E C \in SUBSET Conns : /\ flow' = [c \in Conns |-> IF c \in C THEN Idle ELSE flow[c]]
                                       /\ entries' = entries
    <3>1. flow' = [flow EXCEPT ![d] = Idle] /\ entries' = entries
      BY <2>2 DEF Unreachable
    <3>2. flow' = [c \in Conns |-> IF c \in {d} THEN Idle ELSE flow[c]]
      BY <3>1 DEF IInv, FlowsOk
    <3>3. {d} \in SUBSET Conns
      OBVIOUS
    <3> QED  BY <3>1, <3>2, <3>3
  <2> QED  BY <2>1, <2>2
<1>2. Idle.key = NoKey /\ SightOf(Idle) = Nothing /\ GivenOf(Idle) = Nothing
  BY DEF Idle, SightOf, GivenOf
<1>3. /\ WantBar = [d \in Conns |-> flow[d].key] /\ WantBar' = [d \in Conns |-> flow'[d].key]
      /\ SightBar = [d \in Conns |-> SightOf(flow[d])] /\ SightBar' = [d \in Conns |-> SightOf(flow'[d])]
      /\ GivenBar = [d \in Conns |-> GivenOf(flow[d])] /\ GivenBar' = [d \in Conns |-> GivenOf(flow'[d])]
  BY Zenon DEF WantBar, SightBar, GivenBar, SightOf, GivenOf
<1>4. WantBar' = [c \in Conns |-> IF c \in C THEN NoKey ELSE WantBar[c]]
  BY <1>1, <1>2, <1>3
<1>5. SightBar' = [c \in Conns |-> IF c \in C THEN Nothing ELSE SightBar[c]]
  BY <1>1, <1>2, <1>3
<1>6. GivenBar' = [c \in Conns |-> IF c \in C THEN Nothing ELSE GivenBar[c]]
  BY <1>1, <1>2, <1>3
<1>7. FrozenBar' = FrozenBar
  BY <1>1, FrozenFrame
<1> QED  BY <1>4, <1>5, <1>6, <1>7, BreakMaps

LEMMA StepMaps ==
  ASSUME IInv, Next
  PROVE  [Snapshot!Next]_(Snapshot!vars)
<1>1. CASE RestartProxy \/ \E c \in Conns : Unreachable(c)
  BY <1>1, BreaksMap DEF Snapshot!Next
<1>2. CASE Publish \/ RestartMirror
  <2>1. entries' = entries /\ flow' = flow
    BY <1>2 DEF Publish, RestartMirror, proxy
  <2> QED  BY <2>1, AllFrame
<1>3. ASSUME NEW c \in Conns, Mirror(c) PROVE UNCHANGED Snapshot!vars
  <2>1. UNCHANGED proxy
    BY <1>3 DEF Mirror, MirrorGet, MirrorLook, MirrorFetch, MirrorReplace, MirrorFails, MirrorSend
  <2>2. entries' = entries /\ flow' = flow
    BY <2>1 DEF proxy
  <2> QED  BY <2>2, AllFrame
<1>4. ASSUME NEW c \in Conns, http_connect(c) \/ StoreFiles(c) PROVE UNCHANGED Snapshot!vars
  <2>1. entries' = entries /\ flow' = flow
    BY <1>4 DEF http_connect, StoreFiles
  <2> QED  BY <2>1, AllFrame
<1>5. ASSUME NEW c \in Conns, Proxy(c), ~Unreachable(c) PROVE [Snapshot!Next]_(Snapshot!vars)
  <2>1. ASSUME NEW r \in Requests, NEW auth \in Scopes \cup {NoScope}, request(c, r, auth) \/ LoadFails(c, r, auth)
        PROVE  Snapshot!Next
    BY <2>1, RequestMaps DEF Snapshot!Next
  <2>2. CASE http_connect(c) \/ StoreFiles(c)
    BY <1>4, <2>2
  <2>3. CASE Upstream(c) \/ responseheaders(c)
    BY <2>3, HiddenMaps
  <2>4. CASE response(c) \/ Deliver(c) \/ StoreFails(c)
    BY <2>4, AnsweredMaps DEF Snapshot!Next
  <2>5. CASE Rename(c)
    BY <2>5, RenameMaps DEF Snapshot!Next
  <2> QED  BY <1>5, <2>1, <2>2, <2>3, <2>4, <2>5 DEF Proxy
<1> QED  BY <1>1, <1>2, <1>3, <1>5 DEF Next

LEMMA InitMaps ==
  ASSUME Init
  PROVE  Snapshot!Init
<1>1. ~Whole(Absent) /\ Idle.key = NoKey /\ SightOf(Idle) = Nothing /\ GivenOf(Idle) = Nothing
  BY DEF Whole, Absent, Idle, SightOf, GivenOf
<1>2. FrozenBar = [k \in Keys |-> Nothing]
  BY <1>1 DEF Init, FrozenBar
<1>3. WantBar = [c \in Conns |-> NoKey]
  BY <1>1 DEF Init, WantBar
<1>4. SightBar = [c \in Conns |-> SightOf(flow[c])] /\ GivenBar = [c \in Conns |-> GivenOf(flow[c])]
  BY Zenon DEF SightBar, GivenBar, SightOf, GivenOf
<1>5. SightBar = [c \in Conns |-> Nothing] /\ GivenBar = [c \in Conns |-> Nothing]
  BY <1>1, <1>4 DEF Init
<1> QED  BY <1>2, <1>3, <1>5, Zenon DEF Snapshot!Init, FrozenBar, WantBar, SightBar, GivenBar

(* The files, hooks, restarts and disk errors of the addon implement a snapshot whose keys take
   a value once, the one its first client was shown: every step of the detailed specification
   is a step of the abstract one or leaves its state alone. *)
THEOREM SnapshotSafe == Spec => FrozenSnapshot
<1>1. Init => Snapshot!Init
  BY InitMaps
<1>2. IInv /\ [Next]_vars => [Snapshot!Next]_(Snapshot!vars)
  <2> SUFFICES ASSUME IInv, [Next]_vars PROVE [Snapshot!Next]_(Snapshot!vars)
    OBVIOUS
  <2>1. CASE Next
    BY <2>1, StepMaps
  <2>2. CASE UNCHANGED vars
    <3>1. entries' = entries /\ flow' = flow
      BY <2>2 DEF vars, proxy
    <3> QED  BY <3>1, AllFrame
  <2> QED  BY <2>1, <2>2
<1> QED  BY <1>1, <1>2, Invariance, PTL DEF Spec, FrozenSnapshot, Snapshot!Spec
=============================================================================
