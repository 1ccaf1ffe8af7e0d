------------------------------ MODULE KeyCache ------------------------------
(***************************************************************************)
(* What AuthService promises to the calls that verify a token.  While no   *)
(* refresh is under way, a call finds its key exactly if the cache has it, *)
(* and a refresh that no other refresh overlaps leaves exactly the set its *)
(* request was answered with, and nothing an earlier one had put there.    *)
(* While refreshes are under way a call may miss a key that is published,  *)
(* but it never finds one that is not; when refreshes overlap the cache    *)
(* ends as some set of published keys, until a refresh of its own repairs  *)
(* it.                                                                     *)
(***************************************************************************)
EXTENDS KeySets

VARIABLES
  era,    \* the number of the key set Keycloak publishes now
  cache,  \* the keys a call finds; none while a refresh is under way
  last,   \* the number of the key set that the refresh begun last was given,
          \* while no other refresh has overlapped it; 0 once one has
  asks    \* the calls: what each is at, the key its token names, and the number
          \* of the key set Keycloak answered it with, or 0

vars == <<era, cache, last, asks>>

Idle == [at |-> "idle", kid |-> NoKid, set |-> 0]

Refreshing == {c \in Calls : asks[c].at = "refreshing"}

Init ==
  /\ era = 1
  /\ cache = Loaded(JWKS[1])
  /\ last = 1
  /\ asks = [c \in Calls |-> Idle]

Goes(c, from, to) ==
  /\ asks[c].at \in from
  /\ asks' = [asks EXCEPT ![c].at = to]

Ask(c, k) ==
  /\ asks[c].at = "idle"
  /\ asks' = [asks EXCEPT ![c] = [at |-> "asked", kid |-> k, set |-> 0]]
  /\ UNCHANGED <<era, cache, last>>

Find(c) ==
  /\ Goes(c, {"asked", "refreshed"}, "found")
  /\ asks[c].kid \in cache \cup (IF Refreshing = {} THEN {} ELSE Published(era))
  /\ UNCHANGED <<era, cache, last>>

Miss(c) ==
  /\ \/ Goes(c, {"asked"}, "missed")
     \/ Goes(c, {"refreshed"}, "rejected")
  /\ asks[c].kid \notin cache
  /\ UNCHANGED <<era, cache, last>>

\* Keycloak gives no answer: the cache is left as it is.
Unanswered(c) ==
  /\ Goes(c, {"missed"}, "rejected")
  /\ UNCHANGED <<era, cache, last>>

\* Keycloak answers with the key set of that moment; the call may take any time
\* to go on.
Read(c) ==
  /\ asks[c].at = "missed"
  /\ asks' = [asks EXCEPT ![c] = [at |-> "read", kid |-> asks[c].kid, set |-> era]]
  /\ UNCHANGED <<era, cache, last>>

Begin(c) ==
  /\ Goes(c, {"read"}, "refreshing")
  /\ cache' = {}
  /\ last' = IF Refreshing = {} THEN asks[c].set ELSE 0
  /\ UNCHANGED era

\* A refresh on its own leaves the keys of the key set it was given, and its
\* call goes on only if that set is intact and has a key.
End(c) ==
  /\ Goes(c, {"refreshing"}, "refreshed") \/ Goes(c, {"refreshing"}, "rejected")
  /\ IF last # 0
       THEN /\ cache' = Loaded(JWKS[last])
            /\ asks'[c].at = "refreshed" <=> Intact(JWKS[last]) /\ cache' # {}
     ELSE IF Refreshing = {c}
       THEN cache' \in SUBSET Published(era)
     ELSE cache' = {}
  /\ UNCHANGED <<era, last>>

Return(c) ==
  /\ asks[c].at \in {"found", "rejected"}
  /\ asks' = [asks EXCEPT ![c] = Idle]
  /\ UNCHANGED <<era, cache, last>>

Rotate ==
  /\ era < Len(JWKS)
  /\ era' = era + 1
  /\ UNCHANGED <<cache, last, asks>>

Next ==
  \/ Rotate
  \/ \E c \in Calls :
       \/ \E k \in Kids : Ask(c, k)
       \/ Find(c) \/ Miss(c) \/ Unanswered(c) \/ Read(c) \/ Begin(c) \/ End(c) \/ Return(c)

Spec == Init /\ [][Next]_vars

------------------------------------------------------------------------------
\* Properties

\* No call ever finds a key that was not published by then.
FoundPublished ==
  /\ cache \subseteq Published(era)
  /\ \A c \in Calls : asks[c].at = "found" => asks[c].kid \in Published(era)

\* A refresh that no other overlaps leaves the set its request was answered with.
CacheWhole ==
  last # 0 => IF Refreshing = {} THEN cache = Loaded(JWKS[last])
                                 ELSE \E c \in Calls : Refreshing = {c}

\* With the types they need, they are inductive.
CacheTypes ==
  /\ era \in 1 .. Len(JWKS)
  /\ last \in 0 .. era
  /\ asks \in [Calls -> [at : {"idle", "asked", "missed", "read", "refreshing", "refreshed",
                             "found", "rejected"},
                       kid : Kids \cup {NoKid}, set : 0 .. Len(JWKS)]]
  /\ \A c \in Calls : asks[c].set <= era

Promise == CacheTypes /\ FoundPublished /\ CacheWhole
==============================================================================
