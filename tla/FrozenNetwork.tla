---------------------------- MODULE FrozenNetwork ----------------------------
(***************************************************************************)
(* What the HTTPS cache of src/env/netcache promises, without its files,    *)
(* hooks and restarts: every snapshot key takes at most one value, the      *)
(* value some client of that key was about to be given; a client that asks  *)
(* once the key has a value is given that value, its own fetch otherwise.   *)
(***************************************************************************)
CONSTANTS
  Clients,
  Keys,     \* snapshot keys: a scope and what is asked for
  Values,   \* what a client can be given
  NoKey,    \* the key of a request no snapshot covers
  Nothing   \* no value

VARIABLES
  frozen,   \* the value of each key
  want,     \* the key a client asks for
  sight,    \* the value a client is bound to be given
  given     \* what it was given

vars == <<frozen, want, sight, given>>

Init ==
  /\ frozen = [k \in Keys |-> Nothing]
  /\ want = [c \in Clients |-> NoKey]
  /\ sight = [c \in Clients |-> Nothing]
  /\ given = [c \in Clients |-> Nothing]

Seen(k) == IF k \in Keys THEN frozen[k] ELSE Nothing

Ask(c) ==
  /\ given' = [given EXCEPT ![c] = Nothing]
  /\ want'[c] \in Keys \cup {NoKey}
  /\ want' = [want EXCEPT ![c] = want'[c]]
  \* a snapshot that cannot be read when the client asks is as good as none
  /\ sight'[c] \in {Seen(want'[c]), Nothing}
  /\ sight' = [sight EXCEPT ![c] = sight'[c]]
  /\ UNCHANGED frozen

Freeze(c) ==
  /\ want[c] \in Keys /\ frozen[want[c]] = Nothing
  /\ sight[c] = Nothing /\ given[c] = Nothing
  /\ sight'[c] \in Values
  /\ sight' = [sight EXCEPT ![c] = sight'[c]]
  /\ frozen' = [frozen EXCEPT ![want[c]] = sight'[c]]
  /\ UNCHANGED <<want, given>>

Give(c) ==
  /\ given[c] = Nothing
  /\ given'[c] \in Values
  /\ sight[c] \in {Nothing, given'[c]}
  /\ given' = [given EXCEPT ![c] = given'[c]]
  /\ UNCHANGED <<frozen, want, sight>>

\* connections break: some clients are given nothing and start afresh
Break ==
  \E C \in SUBSET Clients :
    /\ want' = [c \in Clients |-> IF c \in C THEN NoKey ELSE want[c]]
    /\ sight' = [c \in Clients |-> IF c \in C THEN Nothing ELSE sight[c]]
    /\ given' = [c \in Clients |-> IF c \in C THEN Nothing ELSE given[c]]
    /\ UNCHANGED frozen

Next == (\E c \in Clients : Give(c) \/ Freeze(c) \/ Ask(c)) \/ Break

Spec == Init /\ [][Next]_vars
=============================================================================
