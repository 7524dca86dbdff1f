------------------------------ MODULE NetCache ------------------------------
(***************************************************************************)
(* The network caches of src/env/netcache: the mitmproxy addon that freezes *)
(* the first answer to a request per task namespace and epoch               *)
(* (mitm_https_cache.py), and the read-through mirror of Python builds      *)
(* (uv_python_mirror.py).  The addon's hooks are synchronous functions on   *)
(* the proxy's event loop: they interleave with each other between hooks,    *)
(* and a restart may fall between any two of their file operations.  The    *)
(* mirror serves every request in a thread of its own.                      *)
(***************************************************************************)
EXTENDS Integers

CONSTANTS
  Conns,        \* client connections; each carries one request at a time
  Scopes,       \* cache scopes: one per task namespace and epoch
  Requests,     \* the requests clients make
  Builds,       \* paths of the mirror
  NoScope, NoKey, Nothing,
  MaxRequests,  \* bound: requests made
  MaxVersions,  \* bound: what the network holds changes
  MaxTroubles   \* bound: restarts, disk errors and unreachable origins

Request == [method : {"GET", "POST", "HEAD"}, site : {"plain", "release", "pool", "mirror"},
            query : Nat, body : Nat, range : BOOLEAN]

ASSUME NetCacheAssumption ==
  /\ Requests \subseteq Request
  /\ {MaxRequests, MaxVersions, MaxTroubles} \subseteq Nat
  /\ MaxVersions > 0
  /\ NoScope \notin Scopes
  /\ Nothing \notin Conns

VARIABLES
  version,  \* of everything the network serves
  scopes,   \* _client_scopes: the scope of a connection's CONNECT
  flow,     \* the flow of each connection
  entries,  \* the cache directory
  writing,  \* the response hook that is writing a temporary directory, and the entry's key
  mirror,   \* the mirror's cache directory
  thread,   \* the mirror's request threads
  asked, troubles

proxy == <<scopes, flow, entries, writing>>
uv == <<mirror, thread>>
vars == <<version, proxy, uv, asked, troubles>>

-----------------------------------------------------------------------------
(* What is asked for and under which key it is frozen. *)

\* _pinned_upstream_url: an archive that may drift is fetched from a pinned mirror
Pinned(r) == IF r.site = "pool" THEN [r EXCEPT !.site = "mirror"] ELSE r

\* what a request denotes: an asset of the release host whatever its signature, a
\* pool file on either host, and for a POST also its body
Asset(r) ==
  [method |-> r.method, site |-> Pinned(r).site,
   query |-> IF r.site = "release" THEN 0 ELSE r.query,
   body |-> IF r.method = "POST" THEN r.body ELSE 0]

\* Slip: the canonical URL loses its host
PathKey(r, variant) ==
  IF r.range \/ variant \/ r.method \notin {"GET", "POST"} THEN NoKey
  ELSE [method |-> r.method, query |-> IF r.method = "GET" /\ r.site = "release" THEN 0 ELSE r.query,
        body |-> IF r.method = "POST" THEN r.body ELSE 0]

\* _cache_url: no range requests, no responses in variants; a signed query of a
\* release asset is dropped, a POST keeps a digest of its body
CacheUrl(r, variant) ==
  IF r.range \/ variant \/ r.method \notin {"GET", "POST"} THEN NoKey
  ELSE [method |-> r.method, site |-> r.site,
        query |-> IF r.method = "GET" /\ r.site = "release" THEN 0 ELSE r.query,
        body |-> IF r.method = "POST" THEN r.body ELSE 0]

Keys == Scopes \X ({CacheUrl(r, FALSE) : r \in Requests \cup {Pinned(r) : r \in Requests}} \ {NoKey})

\* version 0 is the empty body of a response that was streamed past the addon
Content == [asset : {Asset(r) : r \in Requests}, version : 1..MaxVersions]
\* status 200; a Vary or Content-Encoding that makes variants; any other status
Statuses == {"ok", "variant", "error"}
\* telemetry: headers such as Date or X-Request-Id that differ from fetch to fetch
Response == [status : Statuses, telemetry : BOOLEAN, content : Content]

\* the sentinels are none of the values they stand beside
ASSUME SentinelAssumption ==
  /\ NoKey \notin Keys
  /\ Nothing \notin Content
  /\ Nothing \notin [status : Statuses, telemetry : BOOLEAN]

Shown(h, b) == [status |-> h.status, telemetry |-> h.telemetry, content |-> b]

\* an entry is a directory of two files
Absent == [body |-> Nothing, meta |-> Nothing]
Whole(e) == e.body # Nothing /\ e.meta # Nothing
EntryOf(f) ==
  [body |-> IF f.stream THEN [f.resp.content EXCEPT !.version = 0] ELSE f.resp.content,
   meta |-> [status |-> f.resp.status, telemetry |-> FALSE]]

Idle == [pc |-> "idle", req |-> Nothing, orig |-> Nothing, scope |-> NoScope, key |-> NoKey, since |-> 0,
         hit |-> FALSE, resp |-> Nothing, stream |-> FALSE, stored |-> FALSE,
         failed |-> FALSE]
NotWriting == [conn |-> Nothing, key |-> NoKey]
Quiet == [pc |-> "idle", build |-> Nothing, fetched |-> 0]

Flows ==
  [pc : {"idle", "sent", "headers", "body", "stored", "answered"},
   req : Request \cup {Nothing}, orig : Requests \cup {Nothing}, scope : Scopes \cup {NoScope},
   key : Keys \cup {NoKey}, since : 0..MaxVersions, hit : BOOLEAN, resp : Response \cup {Nothing},
   stream : BOOLEAN, stored : BOOLEAN, failed : BOOLEAN]
Dirs == [body : Content \cup {Nothing}, meta : [status : {"ok"}, telemetry : {FALSE}] \cup {Nothing}]

TypeOK ==
  /\ version \in 1..MaxVersions
  /\ scopes \in [Conns -> Scopes \cup {NoScope}]
  /\ \A c \in Conns : flow[c] \in Flows
  /\ \A k \in Keys : entries[k] \in Dirs
  /\ writing.conn \in Conns \cup {Nothing} /\ writing.key \in Keys \cup {NoKey}
  /\ mirror \in [Builds -> 0..MaxVersions]
  /\ \A c \in Conns : thread[c] \in [pc : {"idle", "waiting", "fetching", "fetched", "sending"},
                                     build : Builds \cup {Nothing}, fetched : 0..MaxVersions]
  /\ asked \in 0..MaxRequests /\ troubles \in 0..MaxTroubles

Init ==
  /\ version = 1
  /\ scopes = [c \in Conns |-> NoScope]
  /\ flow = [c \in Conns |-> Idle]
  /\ entries = [k \in Keys |-> Absent]
  /\ writing = NotWriting
  /\ mirror = [b \in Builds |-> 0]
  /\ thread = [c \in Conns |-> Quiet]
  /\ asked = 0
  /\ troubles = 0

\* the network publishes something new
Publish ==
  /\ version < MaxVersions
  /\ version' = version + 1
  /\ UNCHANGED <<proxy, uv, asked, troubles>>

\* a client asks one thing at a time, on a connection it keeps
Free(c) == flow[c].pc \in {"idle", "answered"} /\ thread[c] = Quiet /\ asked < MaxRequests

Trouble == troubles < MaxTroubles /\ troubles' = troubles + 1

-----------------------------------------------------------------------------
(* The addon.  Its hooks run one at a time; `writing' is a hook under way. *)

Hook(c, pc) == writing = NotWriting /\ flow[c].pc = pc

\* http_connect: a tunnel's scope is remembered by connection
http_connect(c) ==
  /\ Hook(c, "idle") /\ Free(c) /\ scopes[c] = NoScope
  /\ \E s \in Scopes : scopes' = [scopes EXCEPT ![c] = s]
  /\ UNCHANGED <<version, flow, entries, writing, uv, asked, troubles>>

\* Slip: a client without a scope is given one
DefaultScope(c, auth) ==
  IF auth # NoScope THEN auth
  ELSE IF scopes[c] # NoScope THEN scopes[c] ELSE CHOOSE s \in Scopes : TRUE

\* _cache_scope: the request's own credentials, else those of its tunnel
CacheScope(c, auth) == IF auth # NoScope THEN auth ELSE scopes[c]

\* apt speaks plain HTTP and sends its credentials with every request, everything else
\* comes through a tunnel; without credentials there is no scope
Carries(c, r, auth) == IF r.site = "pool" THEN scopes[c] = NoScope ELSE auth = NoScope

SnapshotKey(s, r) ==
  IF s = NoScope \/ CacheUrl(r, FALSE) = NoKey THEN NoKey ELSE <<s, CacheUrl(r, FALSE)>>

\* load_cached_response; both files must be there
Load(s, r) ==
  LET key == SnapshotKey(s, r) IN
  IF key # NoKey /\ Whole(entries[key]) THEN entries[key] ELSE Absent

\* since: when a client without credentials asked
Flow(c, r, auth) ==
  LET s == CacheScope(c, auth) IN
  [Idle EXCEPT !.pc = "sent", !.req = r, !.orig = r, !.scope = s, !.key = SnapshotKey(s, r),
               !.since = IF auth = NoScope /\ scopes[c] = NoScope THEN version ELSE 0]

\* request: serve the entry, or send the request upstream, to the pinned host if it has one
request(c, r, auth) ==
  LET s == CacheScope(c, auth)
      e == Load(s, r)
  IN
  /\ writing = NotWriting /\ Free(c)
  /\ Carries(c, r, auth)
  /\ asked' = asked + 1
  /\ flow' = [flow EXCEPT ![c] =
       IF e # Absent
       THEN [Flow(c, r, auth) EXCEPT !.pc = "headers", !.hit = TRUE, !.resp = Shown(e.meta, e.body)]
       ELSE [Flow(c, r, auth) EXCEPT !.req = IF s = NoScope THEN r ELSE Pinned(r)]]
  /\ UNCHANGED <<version, scopes, entries, writing, uv, troubles>>

\* load_cached_response fails on an entry that is there: the request goes upstream
LoadFails(c, r, auth) ==
  LET s == CacheScope(c, auth) IN
  /\ writing = NotWriting /\ Free(c)
  /\ Carries(c, r, auth)
  /\ Load(s, r) # Absent
  /\ Trouble
  /\ asked' = asked + 1
  /\ flow' = [flow EXCEPT ![c] = [Flow(c, r, auth) EXCEPT !.req = Pinned(r)]]
  /\ UNCHANGED <<version, scopes, entries, writing, uv>>

\* the origin answers with what it holds now
Upstream(c) ==
  /\ flow[c].pc = "sent"
  /\ \E status \in Statuses :
       flow' = [flow EXCEPT ![c] =
         [@ EXCEPT !.pc = "headers",
                   !.resp = [status |-> status, telemetry |-> TRUE,
                             content |-> [asset |-> Asset(flow[c].req), version |-> version]]]]
  /\ UNCHANGED <<version, scopes, entries, writing, uv, asked, troubles>>

\* the origin cannot be reached: the proxy reports an error and no hook runs
Unreachable(c) ==
  /\ flow[c].pc = "sent"
  /\ Trouble
  /\ flow' = [flow EXCEPT ![c] = Idle]
  /\ UNCHANGED <<version, scopes, entries, writing, uv, asked>>

\* _cache_identity_url: the URL asked for, whatever host it was fetched from
IdentityUrl(f) == f.orig

FrozenUrl(f) == CacheUrl(IdentityUrl(f), f.resp.status = "variant")

\* Slip: telemetry is left to the entry's headers
Streamed(f) ==
  IF f.scope = NoScope THEN [f EXCEPT !.stream = TRUE]
  ELSE [f EXCEPT !.stream = FrozenUrl(f) = NoKey]

\* Slip: every body is streamed
StreamAll(f) == [f EXCEPT !.stream = TRUE, !.resp.telemetry = FALSE]

\* what responseheaders does to a flow: an unscoped body is streamed; telemetry is
\* removed before client or entry can see it; a body that will not be stored is streamed
Headers(f) ==
  IF f.scope = NoScope THEN [f EXCEPT !.stream = TRUE]
  ELSE [f EXCEPT !.resp.telemetry = f.resp.telemetry /\ f.hit,
                 !.stream = FrozenUrl(f) = NoKey]

responseheaders(c) ==
  /\ Hook(c, "headers")
  /\ flow' = [flow EXCEPT ![c] = [Headers(flow[c]) EXCEPT !.pc = "body"]]
  /\ UNCHANGED <<version, scopes, entries, writing, uv, asked, troubles>>

\* Slip: what a pinned host answered is not stored
StorableOwnHost(f) ==
  /\ ~f.hit /\ f.scope # NoScope /\ f.req = f.orig
  /\ f.resp.status # "error" /\ FrozenUrl(f) # NoKey
  /\ entries[<<f.scope, FrozenUrl(f)>>] = Absent

\* store_cacheable_response gets to writing an entry
Storable(f) ==
  /\ ~f.hit /\ f.scope # NoScope
  /\ f.resp.status # "error" /\ FrozenUrl(f) # NoKey
  /\ entries[<<f.scope, FrozenUrl(f)>>] = Absent

Answered(f) == [f EXCEPT !.pc = "answered"]

\* response: nothing to store
response(c) ==
  /\ Hook(c, "body") /\ ~Storable(flow[c])
  /\ flow' = [flow EXCEPT ![c] = Answered(flow[c])]
  /\ UNCHANGED <<version, scopes, entries, writing, uv, asked, troubles>>

\* Slip: the entry's own directory is written, not a temporary one
StoreInPlace(c) ==
  LET f == flow[c]
      key == <<f.scope, FrozenUrl(f)>>
      dir == [EntryOf(f) EXCEPT !.meta = Nothing]
  IN
  /\ Hook(c, "body") /\ Storable(f)
  /\ writing' = [conn |-> c, key |-> key]
  /\ entries' = [entries EXCEPT ![key] = dir]
  /\ UNCHANGED <<version, scopes, flow, uv, asked, troubles>>

\* response: a temporary directory gets the files one after the other
StoreFiles(c) ==
  LET f == flow[c] IN
  /\ Hook(c, "body") /\ Storable(f)
  /\ writing' = [conn |-> c, key |-> <<f.scope, FrozenUrl(f)>>]
  /\ UNCHANGED <<version, scopes, flow, entries, uv, asked, troubles>>

\* both files are there and os.rename gives the directory its name.  The name is still
\* free: hooks do not overlap, so the branch for EEXIST is for a second proxy on the volume.
Rename(c) ==
  /\ writing.conn = c
  /\ entries' = [entries EXCEPT ![writing.key] = EntryOf(flow[c])]
  /\ flow' = [flow EXCEPT ![c] = [@ EXCEPT !.pc = "stored", !.stored = TRUE]]
  /\ writing' = NotWriting
  /\ UNCHANGED <<version, scopes, uv, asked, troubles>>

\* the hook returns and the client gets its answer
Deliver(c) ==
  /\ Hook(c, "stored")
  /\ flow' = [flow EXCEPT ![c] = Answered(flow[c])]
  /\ UNCHANGED <<version, scopes, entries, writing, uv, asked, troubles>>

\* a file operation of the store fails: the temporary directory goes, the proxy logs
\* the addon's error and answers the client all the same
StoreFails(c) ==
  /\ writing.conn = c
  /\ Trouble
  /\ flow' = [flow EXCEPT ![c] = [Answered(flow[c]) EXCEPT !.failed = TRUE]]
  /\ writing' = NotWriting
  /\ UNCHANGED <<version, scopes, entries, uv, asked>>

\* the proxy restarts: connections and their scopes are gone, a temporary directory is
\* left behind under a name nobody looks up
RestartProxy ==
  /\ Trouble
  /\ scopes' = [c \in Conns |-> NoScope]
  /\ flow' = [c \in Conns |-> Idle]
  /\ writing' = NotWriting
  /\ UNCHANGED <<version, entries, uv, asked>>

-----------------------------------------------------------------------------
(* The mirror.  A build's lock is held from the look at the file to its
   publication; pc tells: "waiting" for it, "fetching" and "fetched" under it. *)

Thread(c, pc) == thread[c].pc = pc

MirrorGet(c) ==
  /\ Free(c) /\ flow[c] = Idle /\ scopes[c] = NoScope
  /\ asked' = asked + 1
  /\ \E b \in Builds : thread' = [thread EXCEPT ![c] = [Quiet EXCEPT !.pc = "waiting", !.build = b]]
  /\ UNCHANGED <<version, proxy, mirror, troubles>>

\* Slip: no lock
NoLock(b) == TRUE

Unlocked(b) == \A c \in Conns : thread[c].build = b => thread[c].pc \notin {"fetching", "fetched"}

\* do_GET under the lock: the file is there, or it is fetched
MirrorLook(c) ==
  LET b == thread[c].build IN
  /\ Thread(c, "waiting") /\ Unlocked(b)
  /\ thread' = [thread EXCEPT ![c].pc = IF mirror[b] # 0 THEN "sending" ELSE "fetching"]
  /\ UNCHANGED <<version, proxy, mirror, asked, troubles>>

\* _fetch_to_cache into a temporary file
MirrorFetch(c) ==
  /\ Thread(c, "fetching")
  /\ thread' = [thread EXCEPT ![c].pc = "fetched", ![c].fetched = version]
  /\ UNCHANGED <<version, proxy, mirror, asked, troubles>>

\* os.replace, and the lock is released
MirrorReplace(c) ==
  /\ Thread(c, "fetched")
  /\ mirror' = [mirror EXCEPT ![thread[c].build] = thread[c].fetched]
  /\ thread' = [thread EXCEPT ![c].pc = "sending", ![c].fetched = 0]
  /\ UNCHANGED <<version, proxy, asked, troubles>>

\* the fetch fails: the temporary file is removed, the lock released, the client told
MirrorFails(c) ==
  /\ Thread(c, "fetching") \/ Thread(c, "fetched")
  /\ Trouble
  /\ thread' = [thread EXCEPT ![c] = Quiet]
  /\ UNCHANGED <<version, proxy, mirror, asked>>

MirrorSend(c) ==
  /\ Thread(c, "sending")
  /\ thread' = [thread EXCEPT ![c] = Quiet]
  /\ UNCHANGED <<version, proxy, mirror, asked, troubles>>

RestartMirror ==
  /\ Trouble
  /\ \E c \in Conns : thread[c] # Quiet
  /\ thread' = [c \in Conns |-> Quiet]
  /\ UNCHANGED <<version, proxy, mirror, asked>>

-----------------------------------------------------------------------------
Proxy(c) ==
  \/ http_connect(c)
  \/ \E r \in Requests, auth \in Scopes \cup {NoScope} : request(c, r, auth) \/ LoadFails(c, r, auth)
  \/ Upstream(c) \/ Unreachable(c)
  \/ responseheaders(c)
  \/ response(c) \/ StoreFiles(c) \/ Rename(c) \/ StoreFails(c)
  \/ Deliver(c)

Mirror(c) ==
  MirrorGet(c) \/ MirrorLook(c) \/ MirrorFetch(c) \/ MirrorReplace(c) \/ MirrorFails(c) \/ MirrorSend(c)

Next == Publish \/ RestartProxy \/ RestartMirror \/ \E c \in Conns : Proxy(c) \/ Mirror(c)

Spec == Init /\ [][Next]_vars

-----------------------------------------------------------------------------
(* Properties *)

Snapshot == INSTANCE FrozenNetwork WITH
  Clients <- Conns,
  Values <- Response,
  frozen <- [k \in Keys |-> IF Whole(entries[k]) THEN Shown(entries[k].meta, entries[k].body) ELSE Nothing],
  want <- [c \in Conns |-> flow[c].key],
  sight <- [c \in Conns |-> IF flow[c].hit \/ flow[c].stored THEN flow[c].resp ELSE Nothing],
  given <- [c \in Conns |-> IF flow[c].pc = "answered" THEN flow[c].resp ELSE Nothing]

(* The files, hooks and restarts of the addon implement a snapshot whose keys are
   given a value once: a request that comes after an entry has its name is answered with
   exactly what the client that caused the entry was shown, headers included. *)
FrozenSnapshot == Snapshot!Spec

(* Whoever has been answered with a response worth freezing was answered after it was
   frozen, under the URL it asked for and not the pinned one: the repeat of a request
   finds the entry.  Only a failed write leaves the key open. *)
FrozenBeforeAnswered ==
  \A c \in Conns :
    LET f == flow[c] IN
    (f.pc = "answered" /\ f.resp.status = "ok" /\ f.key # NoKey /\ ~f.failed) => Whole(entries[f.key])

(* A restart of the proxy in the middle of store_cacheable_response leaves no entry
   without one of its files: such an entry would never be read nor written again. *)
EntriesAreWhole == \A k \in Keys : entries[k] = Absent \/ Whole(entries[k])

(* What a client was shown stays: it is frozen before the client is answered, and no restart
   leaves an entry that can neither be read nor written. *)
EntriesAreKept ==
  /\ TypeOK
  /\ FrozenBeforeAnswered
  /\ EntriesAreWhole

(* A client without a scope is not answered from any snapshot: it gets what the
   network held while it asked. *)
UnscopedIsLive ==
  \A c \in Conns : flow[c].pc = "answered" => flow[c].since <= flow[c].resp.content.version

(* Different requests share an entry only where they denote the same thing: signed
   queries of one release asset, but never two queries of another host or two POST bodies. *)
AnswersFitTheRequest ==
  \A c \in Conns : flow[c].resp # Nothing => flow[c].resp.content.asset = Asset(flow[c].orig)

(* A client gets what it asked for: the live network without a scope, and never the entry of
   a request that denotes something else. *)
AnswersAreRight ==
  /\ UnscopedIsLive
  /\ AnswersFitTheRequest

(* A build the mirror has published is never replaced, however many threads fetch it
   and whatever upstream has by then. *)
MirrorIsWriteOnce == [][\A b \in Builds : mirror[b] # 0 => mirror'[b] = mirror[b]]_vars
=============================================================================
