------------------------------- MODULE KeySets -------------------------------
(***************************************************************************)
(* The key sets Keycloak publishes under protocol/openid-connect/certs, and*)
(* what fetchPublicKeys makes of one.  A key stands for its id: no id is   *)
(* ever used for a second key.                                             *)
(***************************************************************************)
EXTENDS Naturals, Sequences, FiniteSets

CONSTANTS
  Kids,    \* key ids a token may name
  Good,    \* those of RSA signing keys whose modulus and exponent decode
  Broken,  \* those of RSA signing keys that do not decode
  JWKS,    \* the key sets Keycloak publishes, one after the other
  Calls,   \* concurrent calls of VerifyToken
  NoKid    \* the id of a call that is not under way

\* The server starts only if the first refresh succeeds.
ASSUME KeyAssumption ==
  /\ Good \subseteq Kids /\ Broken \subseteq Kids /\ Good \cap Broken = {}
  /\ JWKS \in Seq(Seq(Kids)) /\ Len(JWKS) > 0
  /\ \E i \in DOMAIN JWKS[1] : JWKS[1][i] \in Good
  /\ \A i \in DOMAIN JWKS[1] : JWKS[1][i] \notin Broken
  /\ IsFiniteSet(Calls) /\ NoKid \notin Kids

\* The good keys at the first n positions of a key set.
KeysUpTo(keys, n) == {keys[i] : i \in {h \in DOMAIN keys : h <= n /\ keys[h] \in Good}}

Intact(keys) == \A i \in DOMAIN keys : keys[i] \notin Broken

\* The keys a refresh stores: the good ones before the first broken one.
Loaded(keys) ==
  {keys[i] : i \in {h \in DOMAIN keys : keys[h] \in Good /\ \A g \in 1 .. h : keys[g] \notin Broken}}

\* The keys any refresh can have stored by the time of key set number n.
Published(n) == UNION {Loaded(JWKS[j]) : j \in 1 .. n}
==============================================================================
