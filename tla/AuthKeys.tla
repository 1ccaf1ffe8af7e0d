------------------------------ MODULE AuthKeys ------------------------------
(***************************************************************************)
(* The public keys of AuthService.  The interceptors call VerifyToken on   *)
(* the goroutine of every request; it looks the key id of the token up in  *)
(* s.publicKeys and, on a miss, calls fetchPublicKeys, which replaces the  *)
(* map and fills the new one key by key.  There is no lock: refreshes and  *)
(* lookups interleave in every order, a refresh stores into whatever map   *)
(* s.publicKeys holds at that moment, and the Go runtime may end the       *)
(* program on an access that meets a store in the same map.                *)
(*                                                                         *)
(* A load of s.publicKeys and the access to the map it gives are one step: *)
(* a store that was meant for a map replaced meanwhile is the case that    *)
(* matters, and StoreBegin and StoreEnd keep it.  Tokens without a key id, *)
(* or of another signing method, are refused before the lookup; signature, *)
(* claims and audience are looked at after it.  Neither touches the keys.  *)
(***************************************************************************)
EXTENDS KeySets

VARIABLES
  era,      \* the number of the key set Keycloak publishes now
  map,      \* s.publicKeys: which map it is
  keys,     \* the ids in that map; one that was replaced is never read again
  call,     \* the calls of VerifyToken
  crashed,  \* the runtime ended the program
  last      \* history: the number of the key set that the refresh begun last was
            \* given, while no other refresh has overlapped it; 0 once one has

vars == <<era, map, keys, call, crashed, last>>

\* A call stores into one map at a time, so these suffice for a new one.
Maps == 1 .. Cardinality(Calls) + 1

\* set: the number of the key set the call was given; pos: its position in it;
\* into: the map it is storing into.  0 where they say nothing.
Idle == [at |-> "idle", kid |-> NoKid, set |-> 0, pos |-> 0, into |-> 0]

\* NewAuthService has filled the cache before the first request.
Init ==
  /\ era = 1
  /\ map = 1
  /\ keys = Loaded(JWKS[1])
  /\ call = [c \in Calls |-> Idle]
  /\ crashed = FALSE
  /\ last = 1

Refreshing == {c \in Calls : call[c].at \in {"filling", "storing"}}

KeySet(c) == JWKS[call[c].set]

\* The key at the call's position in its key set.
Key(c) == KeySet(c)[call[c].pos]

\* The calls in the middle of a store into map m.
Writers(m) == {c \in Calls : call[c].at = "storing" /\ call[c].into = m}

Crash == crashed' = TRUE /\ UNCHANGED <<era, map, keys, call, last>>

Goes(c, from, to) == call[c].at \in from /\ call' = [call EXCEPT ![c].at = to]

------------------------------------------------------------------------------
\* VerifyToken

Ask(c, k) ==
  /\ call[c].at = "idle"
  /\ call' = [call EXCEPT ![c] = [at |-> "asked", kid |-> k, set |-> 0, pos |-> 0, into |-> 0]]
  /\ UNCHANGED <<era, map, keys, crashed, last>>

\* A lookup that meets a store may see its key already.
Find(c) ==
  /\ Goes(c, {"asked", "refreshed"}, "found")
  /\ call[c].kid \in keys \cup {Key(d) : d \in Writers(map)}
  /\ UNCHANGED <<era, map, keys, crashed, last>>

\* Mutant: the lookup after the refresh asks for another one.
MissAgain(c) ==
  /\ Goes(c, {"asked", "refreshed"}, "missed")
  /\ call[c].kid \notin keys \/ Writers(map) # {}
  /\ UNCHANGED <<era, map, keys, crashed, last>>

\* The first miss asks for a refresh, the second refuses the token.  A lookup
\* that meets a store may miss what the map holds.
Miss(c) ==
  /\ \/ Goes(c, {"asked"}, "missed")
     \/ Goes(c, {"refreshed"}, "rejected")
  /\ call[c].kid \notin keys \/ Writers(map) # {}
  /\ UNCHANGED <<era, map, keys, crashed, last>>

\* Fatal error: concurrent map read and map write.
LookupCrash(c) ==
  /\ call[c].at \in {"asked", "refreshed"}
  /\ Writers(map) # {}
  /\ Crash

Return(c) ==
  /\ call[c].at \in {"found", "rejected"}
  /\ call' = [call EXCEPT ![c] = Idle]
  /\ UNCHANGED <<era, map, keys, crashed, last>>

------------------------------------------------------------------------------
\* fetchPublicKeys

\* Keycloak builds its answer; the call reads it at any later time.
Fetch(c) ==
  /\ call[c].at = "missed"
  /\ call' = [call EXCEPT ![c].at = "fetched", ![c].set = era]
  /\ UNCHANGED <<era, map, keys, crashed, last>>

\* No connection, another status, ten seconds without an answer, or a body
\* that does not decode.
FetchFails(c) ==
  /\ Goes(c, {"missed"}, "rejected")
  /\ UNCHANGED <<era, map, keys, crashed, last>>

\* Mutant: the map is not replaced, only added to.
ClearKeeps(c) ==
  /\ call[c].at = "fetched"
  /\ call' = [call EXCEPT ![c].at = "filling", ![c].pos = 1]
  /\ last' = IF Refreshing = {} THEN call[c].set ELSE 0
  /\ UNCHANGED <<era, map, keys, crashed>>

\* A new map, with the loop before its first key.
Clear(c) ==
  /\ call[c].at = "fetched"
  /\ \E m \in Maps :
       /\ m # map /\ Writers(m) = {}
       /\ map' = m
  /\ keys' = {}
  /\ call' = [call EXCEPT ![c].at = "filling", ![c].pos = 1]
  /\ last' = IF Refreshing = {} THEN call[c].set ELSE 0
  /\ UNCHANGED <<era, crashed>>

AtKey(c) == call[c].at = "filling" /\ call[c].pos \in DOMAIN KeySet(c)

\* A key of another use or kind.
StoreSkip(c) ==
  /\ AtKey(c)
  /\ Key(c) \notin Good \cup Broken
  /\ call' = [call EXCEPT ![c].pos = @ + 1]
  /\ UNCHANGED <<era, map, keys, crashed, last>>

\* Mutant: a key that does not decode is skipped, and the loop goes on.
StoreBrokenSkipped(c) ==
  /\ AtKey(c)
  /\ Key(c) \in Broken
  /\ call' = [call EXCEPT ![c].pos = @ + 1]
  /\ UNCHANGED <<era, map, keys, crashed, last>>

\* The refresh ends in an error; what it stored stays.
StoreBroken(c) ==
  /\ AtKey(c)
  /\ Key(c) \in Broken
  /\ call' = [call EXCEPT ![c].at = "rejected"]
  /\ UNCHANGED <<era, map, keys, crashed, last>>

\* Mutant: a key that does not decode is stored.
StoreBeginBroken(c) ==
  /\ AtKey(c)
  /\ Key(c) \in Good \cup Broken
  /\ call' = [call EXCEPT ![c].at = "storing", ![c].into = map]
  /\ UNCHANGED <<era, map, keys, crashed, last>>

StoreBegin(c) ==
  /\ AtKey(c)
  /\ Key(c) \in Good
  /\ call' = [call EXCEPT ![c].at = "storing", ![c].into = map]
  /\ UNCHANGED <<era, map, keys, crashed, last>>

\* One of two stores that meet may be lost.
StoreEnd(c) ==
  /\ call[c].at = "storing"
  /\ \/ call[c].into = map /\ keys' = keys \cup {Key(c)}
     \/ call[c].into # map /\ UNCHANGED keys
     \/ Writers(call[c].into) # {c} /\ UNCHANGED keys
  /\ call' = [call EXCEPT ![c].pos = @ + 1, ![c].at = "filling", ![c].into = 0]
  /\ UNCHANGED <<era, map, crashed, last>>

\* Fatal error: concurrent map writes.
StoreCrash(c) ==
  /\ call[c].at = "storing"
  /\ Writers(call[c].into) # {c}
  /\ Crash

\* The length is read from the map of that moment, a store to which may count
\* already.
FillEnd(c) ==
  /\ call[c].at = "filling"
  /\ call[c].pos \notin DOMAIN KeySet(c)
  /\ \/ keys = {} /\ Goes(c, {"filling"}, "rejected")
     \/ (keys # {} \/ Writers(map) # {}) /\ Goes(c, {"filling"}, "refreshed")
  /\ UNCHANGED <<era, map, keys, crashed, last>>

------------------------------------------------------------------------------
\* Keycloak

Rotate ==
  /\ era < Len(JWKS)
  /\ era' = era + 1
  /\ UNCHANGED <<map, keys, call, crashed, last>>

------------------------------------------------------------------------------
Steps(c) ==
  \/ Find(c) \/ Miss(c) \/ LookupCrash(c)
  \/ Fetch(c) \/ FetchFails(c) \/ Clear(c)
  \/ StoreSkip(c) \/ StoreBroken(c) \/ StoreBegin(c) \/ StoreEnd(c) \/ StoreCrash(c)
  \/ FillEnd(c)

Next ==
  /\ ~crashed
  /\ \/ Rotate
     \/ \E c \in Calls : (\E k \in Kids : Ask(c, k)) \/ Steps(c) \/ Return(c)

Spec == Init /\ [][Next]_vars

\* The scheduler runs every goroutine, and the HTTP client gives up after ten
\* seconds.
FairSpec == Spec /\ \A c \in Calls : WF_vars(~crashed /\ Steps(c))

------------------------------------------------------------------------------
\* Properties

\* Type correctness.  Only ids of keys that decode are ever in the map, and a
\* call in the loop of fetchPublicKeys is at a position of the key set it was
\* given, or right after the last.
CallTypes ==
  [at : {"idle", "asked", "missed", "fetched", "filling", "storing", "refreshed", "found", "rejected"},
   kid : Kids \cup {NoKid}, set : 0 .. Len(JWKS), pos : Nat, into : Maps \cup {0}]

TypeOK ==
  /\ era \in DOMAIN JWKS
  /\ map \in Maps
  /\ keys \subseteq Good
  /\ call \in [Calls -> CallTypes]
  /\ crashed \in BOOLEAN
  /\ last \in 0 .. era
  /\ \A c \in Calls :
       /\ call[c].set \in 0 .. era
       /\ call[c].at \in {"fetched", "filling", "storing"} => call[c].set # 0
       /\ c \in Refreshing => call[c].pos \in 1 .. Len(KeySet(c)) + 1
       /\ call[c].at = "storing" => call[c].pos \in DOMAIN KeySet(c) /\ Key(c) \in Good

\* What KeyCache sees of where a call is.
Seen(at) ==
  IF at = "fetched" THEN "read"
  ELSE IF at \in {"filling", "storing"} THEN "refreshing"
  ELSE at

Asks == [c \in Calls |-> [at |-> Seen(call[c].at), kid |-> call[c].kid,
                          set |-> call[c].set]]

\* The cache as KeyCache sees it.
Cache == IF Refreshing = {} THEN keys ELSE {}

KC == INSTANCE KeyCache WITH cache <- Cache, asks <- Asks

\* A refresh no other refresh overlaps puts exactly the keys of the set its
\* request was answered with into the cache, however lookups fall into it and
\* however long the answer lay; no lookup, even amid overlapping refreshes,
\* finds a key that no refresh could have read; and a lookup goes wrong only
\* while a refresh is under way.
\* (VerifyToken and fetchPublicKeys.)
ImplementsKeyCache == KC!Spec

\* No token is looked into with a key Keycloak never published, or one behind a
\* key at which its refresh broke off: not amid overlapping refreshes either.
FoundPublished == \A c \in Calls : call[c].at = "found" => call[c].kid \in Published(era)

\* A refresh that no other overlaps, from the moment it replaces the map, leaves
\* the keys of the very set Keycloak answered its request with, whatever
\* refreshes overlapped, broke off, failed or crossed a rotation before it.  So a
\* key that was withdrawn before the request is gone; one withdrawn between the
\* answer and the replacement of the map comes back, and stays until the next
\* refresh.
CacheWhole == last # 0 /\ Refreshing = {} => keys = Loaded(JWKS[last])

\* Every call of VerifyToken gets its answer or the program ends: it refreshes
\* once, not until the key turns up.
CallsEnd ==
  \A c \in Calls : call[c].at = "asked" ~> crashed \/ call[c].at \in {"found", "rejected"}

\* "Refresh keys and try again": a call whose refresh was given its key, in an
\* intact key set, is not refused.
RefreshFinds ==
  \A c \in Calls :
    call[c].at = "rejected" /\ call[c].set # 0 /\ Intact(KeySet(c)) =>
      call[c].kid \notin Loaded(KeySet(c))
==============================================================================
