----------------------------- MODULE MCNetCache -----------------------------
EXTENDS NetCache, TLC

Get(site, query) == [method |-> "GET", site |-> site, query |-> query, body |-> 0, range |-> FALSE]
MCRequests ==
  {Get("release", 1), Get("release", 2), Get("pool", 0),
   [Get("pool", 0) EXCEPT !.range = TRUE],
   [Get("plain", 1) EXCEPT !.method = "POST", !.body = 1]}
Symmetry == Permutations(Conns) \cup Permutations(Scopes)
=============================================================================
