--------------------------- MODULE AuthKeys_proof ---------------------------
(***************************************************************************)
(* AuthKeys implements KeyCache, for any number of calls and any sequence  *)
(* of key sets.  The steps of a refresh are steps of KeyCache only because *)
(* of what CacheInv says of its loop: what is in the map of a refresh that *)
(* no other overlaps are exactly the keys it has passed.  What KeyCache    *)
(* promises is proved of KeyCache, and so holds of AuthKeys.               *)
(***************************************************************************)
EXTENDS AuthKeys, TLAPS, FiniteSetTheorems

\* What is in the map, some refresh by now could have read.
OnlyPublished == keys \subseteq Published(era)

\* A call in the loop has met no broken key.
NoneBroken ==
  \A c \in Refreshing : \A i \in 1 .. call[c].pos - 1 : KeySet(c)[i] \notin Broken

\* A refresh on its own has stored the good keys it has passed, into this map.
AloneExact ==
  last # 0 => \A c \in Refreshing :
    /\ Refreshing = {c} /\ call[c].set = last
    /\ keys = KeysUpTo(KeySet(c), call[c].pos - 1)
    /\ call[c].at = "storing" => call[c].into = map

\* Together they are inductive, and every step from such a state is a step of
\* KeyCache.
CacheInv == TypeOK /\ OnlyPublished /\ NoneBroken /\ AloneExact

------------------------------------------------------------------------------
\* Key sets

LEMMA JWKSTyped ==
  /\ JWKS \in Seq(Seq(Kids))
  /\ 1 \in DOMAIN JWKS /\ DOMAIN JWKS = 1 .. Len(JWKS) /\ Len(JWKS) \in Nat
  /\ \A j \in DOMAIN JWKS : JWKS[j] \in Seq(Kids)
BY KeyAssumption

LEMMA LoadedGood ==
  ASSUME NEW keyset \in Seq(Kids)
  PROVE  Loaded(keyset) \subseteq Good /\ KeysUpTo(keyset, 0) = {}
BY DEF Loaded, KeysUpTo

\* One more key.
LEMMA KeysUpToNext ==
  ASSUME NEW keyset \in Seq(Kids), NEW n \in DOMAIN keyset
  PROVE  KeysUpTo(keyset, n) =
           KeysUpTo(keyset, n - 1) \cup (IF keyset[n] \in Good THEN {keyset[n]} ELSE {})
<1>1. n \in Nat /\ \A h \in DOMAIN keyset : h \in Nat /\ (h <= n <=> h <= n - 1 \/ h = n)
  OBVIOUS
<1> QED
  BY <1>1 DEF KeysUpTo

\* A loop that met no broken key has stored what Loaded says, at the end of the
\* set and at its first broken key.
LEMMA LoopEnds ==
  ASSUME NEW keyset \in Seq(Kids), NEW n \in 1 .. Len(keyset) + 1,
         \A i \in 1 .. n - 1 : keyset[i] \notin Broken
  PROVE  /\ n \notin DOMAIN keyset => Intact(keyset) /\ KeysUpTo(keyset, n - 1) = Loaded(keyset)
         /\ n \in DOMAIN keyset /\ keyset[n] \in Broken =>
              ~Intact(keyset) /\ KeysUpTo(keyset, n - 1) = Loaded(keyset)
         /\ n \in DOMAIN keyset /\ keyset[n] \in Good => keyset[n] \in Loaded(keyset)
<1>1. DOMAIN keyset = 1 .. Len(keyset) /\ Len(keyset) \in Nat
  OBVIOUS
<1>2. ASSUME n \notin DOMAIN keyset
      PROVE  Intact(keyset) /\ KeysUpTo(keyset, n - 1) = Loaded(keyset)
  BY <1>1, <1>2 DEF Intact, KeysUpTo, Loaded
<1>3. ASSUME n \in DOMAIN keyset, keyset[n] \in Broken
      PROVE  ~Intact(keyset) /\ KeysUpTo(keyset, n - 1) = Loaded(keyset)
  <2>1. \A h \in DOMAIN keyset : h <= n - 1 <=> \A g \in 1 .. h : keyset[g] \notin Broken
    BY <1>1, <1>3
  <2> QED
    BY <1>1, <1>3, <2>1 DEF Intact, KeysUpTo, Loaded
<1>4. ASSUME n \in DOMAIN keyset, keyset[n] \in Good
      PROVE  keyset[n] \in Loaded(keyset)
  BY <1>1, <1>4, KeyAssumption DEF Loaded
<1> QED
  BY <1>2, <1>3, <1>4

LEMMA PublishedGrows ==
  ASSUME NEW n \in DOMAIN JWKS
  PROVE  /\ \A j \in 1 .. n : Loaded(JWKS[j]) \subseteq Published(n)
         /\ Published(n) \subseteq Published(n + 1)
BY JWKSTyped DEF Published

------------------------------------------------------------------------------
\* Types

LEMMA CallFields ==
  ASSUME TypeOK, NEW c \in Calls
  PROVE  /\ call[c] \in CallTypes
         /\ call[c].set \in 0 .. era /\ era \in 1 .. Len(JWKS) /\ call[c].pos \in Nat
         /\ call[c].set # 0 => KeySet(c) \in Seq(Kids)
         /\ call[c].set # 0 => DOMAIN KeySet(c) = 1 .. Len(KeySet(c)) /\ Len(KeySet(c)) \in Nat
<1>1. call[c] \in CallTypes
  BY DEF TypeOK
<1>2. call[c].set \in 0 .. era /\ era \in 1 .. Len(JWKS) /\ call[c].pos \in Nat
  BY <1>1, JWKSTyped DEF TypeOK, CallTypes
<1>3. ASSUME call[c].set # 0 PROVE KeySet(c) \in Seq(Kids)
  BY <1>2, <1>3, JWKSTyped DEF KeySet
<1>4. ASSUME call[c].set # 0
      PROVE  DOMAIN KeySet(c) = 1 .. Len(KeySet(c)) /\ Len(KeySet(c)) \in Nat
  BY <1>3, <1>4
<1> QED
  BY <1>1, <1>2, <1>3, <1>4

LEMMA InitTyped == Init => TypeOK
<1> SUFFICES ASSUME Init PROVE TypeOK
  OBVIOUS
<1>1. Cardinality(Calls) \in Nat
  BY KeyAssumption, FS_CardinalityType
<1>2. 1 \in Maps
  BY <1>1 DEF Maps
<1>3. keys \subseteq Good
  BY JWKSTyped, LoadedGood DEF Init
<1>4. call \in [Calls -> CallTypes]
  BY JWKSTyped DEF Init, Idle, CallTypes
<1>5. \A c \in Calls : call[c].at = "idle" /\ call[c].set = 0
  BY DEF Init, Idle
<1>6. crashed \in BOOLEAN /\ last = 1 /\ era = 1 /\ map = 1
  BY DEF Init
<1>7. \A c \in Calls :
       /\ call[c].set \in 0 .. era
       /\ ~(call[c].at \in {"fetched", "filling", "storing"})
       /\ c \notin Refreshing
  BY <1>5, <1>6 DEF Refreshing
<1>8. last \in 0 .. era
  BY <1>6
<1> QED
  BY <1>2, <1>3, <1>4, <1>6, <1>7, <1>8, JWKSTyped DEF TypeOK

\* A step of one call that gives it the record r.
LEMMA CallTyped ==
  ASSUME TypeOK, NEW c \in Calls, NEW r \in CallTypes, call' = [call EXCEPT ![c] = r],
         UNCHANGED era,
         r.set \in 0 .. era,
         r.at \in {"fetched", "filling", "storing"} => r.set # 0,
         r.at \in {"filling", "storing"} => r.pos \in 1 .. Len(JWKS[r.set]) + 1,
         r.at = "storing" => r.pos \in DOMAIN JWKS[r.set] /\ JWKS[r.set][r.pos] \in Good,
         map' \in Maps, keys' \subseteq Good, crashed' \in BOOLEAN, last' \in 0 .. era
  PROVE  TypeOK'
<1>1. call' \in [Calls -> CallTypes]
  BY DEF TypeOK
<1>2. \A d \in Calls : call'[d] = IF d = c THEN r ELSE call[d]
  BY DEF TypeOK
<1>3. \A d \in Calls :
       /\ call'[d].set \in 0 .. era
       /\ call'[d].at \in {"fetched", "filling", "storing"} => call'[d].set # 0
       /\ call'[d].at \in {"filling", "storing"} => call'[d].pos \in 1 .. Len(JWKS[call'[d].set]) + 1
       /\ call'[d].at = "storing" =>
            /\ call'[d].pos \in DOMAIN JWKS[call'[d].set]
            /\ JWKS[call'[d].set][call'[d].pos] \in Good
  BY <1>2 DEF TypeOK, Refreshing, KeySet, Key
<1> QED
  BY <1>1, <1>3 DEF TypeOK, Refreshing, KeySet, Key

\* A step that moves a call on and changes nothing else of it.
LEMMA GoesTyped ==
  ASSUME TypeOK, NEW c \in Calls, NEW from, NEW to, Goes(c, from, to),
         to \in {"missed", "refreshed", "found", "rejected"},
         UNCHANGED <<era, map, keys, crashed, last>>
  PROVE  TypeOK'
<1>1. call' = [call EXCEPT ![c] = [call[c] EXCEPT !.at = to]]
  BY DEF Goes
<1>2. [call[c] EXCEPT !.at = to] \in CallTypes
  BY DEF TypeOK, CallTypes
<1> QED
  BY <1>1, <1>2, CallTyped DEF TypeOK, CallTypes

LEMMA StepTyped == TypeOK /\ [Next]_vars => TypeOK'
<1> SUFFICES ASSUME TypeOK, [Next]_vars PROVE TypeOK'
  OBVIOUS
<1>1. CASE Rotate
  BY <1>1, JWKSTyped DEF Rotate, TypeOK, Refreshing, KeySet, Key
<1>2. ASSUME NEW c \in Calls, NEW k \in Kids, Ask(c, k) PROVE TypeOK'
  <2> DEFINE r == [at |-> "asked", kid |-> k, set |-> 0, pos |-> 0, into |-> 0]
  <2>1. r \in CallTypes /\ r.at = "asked" /\ r.set = 0
    BY DEF CallTypes
  <2>2. call' = [call EXCEPT ![c] = r] /\ UNCHANGED <<era, map, keys, crashed, last>>
    BY <1>2 DEF Ask
  <2> HIDE DEF r
  <2>3. 0 \in 0 .. era
    BY JWKSTyped DEF TypeOK
  <2> QED
    BY <2>1, <2>2, <2>3, CallTyped DEF TypeOK
<1>3. ASSUME NEW c \in Calls, Steps(c) \/ Return(c) PROVE TypeOK'
  <2>a. /\ call[c] \in CallTypes
        /\ call[c].set \in 0 .. era /\ era \in 1 .. Len(JWKS) /\ call[c].pos \in Nat
        /\ map \in Maps
    BY CallFields DEF TypeOK
  <2>b. call[c].at \in {"fetched", "filling", "storing"} =>
          call[c].set # 0 /\ DOMAIN KeySet(c) = 1 .. Len(KeySet(c)) /\ Len(KeySet(c)) \in Nat
    BY CallFields DEF TypeOK
  <2>1. CASE Find(c)
    BY <2>1, GoesTyped DEF Find
  <2>2. CASE Miss(c)
    BY <2>2, GoesTyped DEF Miss
  <2>3. CASE LookupCrash(c) \/ StoreCrash(c)
    BY <2>3 DEF LookupCrash, StoreCrash, Crash, TypeOK, Refreshing, KeySet, Key
  <2>4. CASE Return(c)
    <3>1. Idle \in CallTypes /\ Idle.at = "idle" /\ Idle.set = 0 /\ 0 \in 0 .. era
      BY JWKSTyped DEF Idle, CallTypes, TypeOK
    <3> QED
      BY <2>4, <3>1, CallTyped DEF Return, TypeOK
  <2>5. CASE Fetch(c)
    <3> DEFINE r == [call[c] EXCEPT !.at = "fetched", !.set = era]
    <3>0. era \in 0 .. Len(JWKS)
      BY <2>a, JWKSTyped
    <3>1. r \in CallTypes /\ r.at = "fetched" /\ r.set = era
      BY <2>a, <3>0 DEF CallTypes
    <3>2. call' = [call EXCEPT ![c] = r]
      BY <2>5 DEF Fetch
    <3> HIDE DEF r
    <3>5. /\ UNCHANGED era /\ map' \in Maps /\ keys' \subseteq Good
          /\ crashed' \in BOOLEAN /\ last' \in 0 .. era
      BY <2>5 DEF Fetch, TypeOK
    <3>3. r.set \in 0 .. era /\ r.set # 0
      BY <2>a, <3>1, JWKSTyped
    <3> QED
      BY <3>1, <3>2, <3>3, <3>5, CallTyped
  <2>6. CASE FetchFails(c)
    BY <2>6, GoesTyped DEF FetchFails
  <2>7. CASE Clear(c)
    <3> DEFINE r == [call[c] EXCEPT !.at = "filling", !.pos = 1]
    <3>1. r \in CallTypes /\ r.at = "filling" /\ r.set = call[c].set /\ r.pos = 1
      BY <2>a DEF CallTypes
    <3>2. call' = [call EXCEPT ![c] = r]
      BY <2>7 DEF Clear
    <3> HIDE DEF r
    <3>3. r.set \in 0 .. era /\ r.set # 0 /\ r.pos \in 1 .. Len(JWKS[r.set]) + 1
      BY <2>7, <2>a, <2>b, <3>1 DEF Clear, KeySet
    <3>4. last' \in 0 .. era
      BY <2>7, <2>a DEF Clear
    <3>5. /\ UNCHANGED era /\ map' \in Maps /\ keys' \subseteq Good
          /\ crashed' \in BOOLEAN /\ last' \in 0 .. era
      BY <2>7, <3>4 DEF Clear, TypeOK
    <3> QED
      BY <3>1, <3>2, <3>3, <3>5, CallTyped
  <2>8. CASE StoreSkip(c)
    <3> DEFINE r == [call[c] EXCEPT !.pos = @ + 1]
    <3>1. r \in CallTypes /\ r.at = "filling" /\ r.set = call[c].set /\ r.pos = call[c].pos + 1
      BY <2>8, <2>a DEF StoreSkip, AtKey, CallTypes
    <3>2. call' = [call EXCEPT ![c] = r]
      BY <2>8 DEF StoreSkip
    <3> HIDE DEF r
    <3>3. r.set \in 0 .. era /\ r.set # 0 /\ r.pos \in 1 .. Len(JWKS[r.set]) + 1
      BY <2>8, <2>a, <2>b, <3>1, SMTT(20) DEF StoreSkip, AtKey, KeySet
    <3>5. /\ UNCHANGED era /\ map' \in Maps /\ keys' \subseteq Good
          /\ crashed' \in BOOLEAN /\ last' \in 0 .. era
      BY <2>8 DEF StoreSkip, TypeOK
    <3> QED
      BY <3>1, <3>2, <3>3, <3>5, CallTyped
  <2>9. CASE StoreBroken(c)
    <3>1. Goes(c, {"filling"}, "rejected")
      BY <2>9 DEF StoreBroken, AtKey, Goes
    <3> QED
      BY <2>9, <3>1, GoesTyped DEF StoreBroken
  <2>10. CASE StoreBegin(c)
    <3> DEFINE r == [call[c] EXCEPT !.at = "storing", !.into = map]
    <3>1. /\ r \in CallTypes
          /\ r.at = "storing" /\ r.set = call[c].set /\ r.pos = call[c].pos
      BY <2>10, <2>a DEF StoreBegin, CallTypes
    <3>2. call' = [call EXCEPT ![c] = r]
      BY <2>10 DEF StoreBegin
    <3> HIDE DEF r
    <3>3. /\ r.set \in 0 .. era /\ r.set # 0 /\ r.pos \in 1 .. Len(JWKS[r.set]) + 1
          /\ r.pos \in DOMAIN JWKS[r.set] /\ JWKS[r.set][r.pos] \in Good
      BY <2>10, <2>a, <2>b, <3>1 DEF StoreBegin, AtKey, KeySet, Key
    <3>5. /\ UNCHANGED era /\ map' \in Maps /\ keys' \subseteq Good
          /\ crashed' \in BOOLEAN /\ last' \in 0 .. era
      BY <2>10 DEF StoreBegin, TypeOK
    <3> QED
      BY <3>1, <3>2, <3>3, <3>5, CallTyped
  <2>11. CASE StoreEnd(c)
    <3> DEFINE q == [call[c] EXCEPT !.pos = @ + 1]
               r == [q EXCEPT !.at = "filling", !.into = 0]
    <3>0. q \in CallTypes /\ q.set = call[c].set /\ q.pos = call[c].pos + 1
      BY <2>a DEF CallTypes
    <3>1. r \in CallTypes /\ r.at = "filling" /\ r.set = q.set /\ r.pos = q.pos
      <4> HIDE DEF q
      <4> QED
        BY <3>0 DEF CallTypes
    <3>2. call' = [call EXCEPT ![c] = r]
      BY <2>11 DEF StoreEnd
    <3> HIDE DEF q, r
    <3>3. r.set \in 0 .. era /\ r.set # 0 /\ r.pos \in 1 .. Len(JWKS[r.set]) + 1
      BY <2>11, <2>a, <2>b, <3>0, <3>1, SMTT(20) DEF StoreEnd, TypeOK, KeySet
    <3>4. keys' \subseteq Good
      BY <2>11 DEF StoreEnd, TypeOK
    <3>5. /\ UNCHANGED era /\ map' \in Maps /\ keys' \subseteq Good
          /\ crashed' \in BOOLEAN /\ last' \in 0 .. era
      BY <2>11, <3>4 DEF StoreEnd, TypeOK
    <3> QED
      BY <3>0, <3>1, <3>2, <3>3, <3>5, CallTyped
  <2>12. CASE FillEnd(c)
    BY <2>12, GoesTyped DEF FillEnd
  <2> QED
    BY <1>3, <2>1, <2>2, <2>3, <2>4, <2>5, <2>6, <2>7, <2>8, <2>9, <2>10, <2>11, <2>12
    DEF Steps
<1>4. CASE UNCHANGED vars
  BY <1>4 DEF vars, TypeOK, Refreshing, KeySet, Key
<1> QED
  BY <1>1, <1>2, <1>3, <1>4 DEF Next

\* Type correctness (see TypeOK), for any number of calls and any key sets.
THEOREM TypeCorrect == Spec => []TypeOK
<1> QED
  BY InitTyped, StepTyped, PTL DEF Spec

------------------------------------------------------------------------------
\* The steps of a call

\* The call c moves to a and keeps its key id; the others stand still.
Moves(c, a) ==
  /\ call'[c].at = a
  /\ call'[c].kid = call[c].kid
  /\ \A d \in Calls \ {c} : call'[d] = call[d]

\* The call keeps its place in the key set.
Stays(c) == call'[c].set = call[c].set /\ call'[c].pos = call[c].pos

LEMMA StepMoves ==
  ASSUME TypeOK, NEW c \in Calls
  PROVE  /\ Find(c) => Moves(c, "found") /\ Stays(c)
         /\ Miss(c) => Moves(c, IF call[c].at = "asked" THEN "missed" ELSE "rejected") /\ Stays(c)
         /\ Fetch(c) => Moves(c, "fetched") /\ call'[c].set = era
         /\ FetchFails(c) => Moves(c, "rejected") /\ Stays(c)
         /\ Clear(c) => Moves(c, "filling") /\ call'[c].set = call[c].set /\ call'[c].pos = 1
         /\ StoreSkip(c) =>
              Moves(c, "filling") /\ call'[c].set = call[c].set /\ call'[c].pos = call[c].pos + 1
         /\ StoreBroken(c) => Moves(c, "rejected") /\ Stays(c)
         /\ StoreBegin(c) => Moves(c, "storing") /\ Stays(c) /\ call'[c].into = map
         /\ StoreEnd(c) =>
              Moves(c, "filling") /\ call'[c].set = call[c].set /\ call'[c].pos = call[c].pos + 1
         /\ FillEnd(c) => Stays(c) /\ (Moves(c, "rejected") \/ Moves(c, "refreshed"))
<1>0. call \in [Calls -> CallTypes]
  BY DEF TypeOK
<1>1. Find(c) => Moves(c, "found") /\ Stays(c)
  BY <1>0 DEF Find, Goes, Moves, Stays, CallTypes
<1>2. Miss(c) => Moves(c, IF call[c].at = "asked" THEN "missed" ELSE "rejected") /\ Stays(c)
  BY <1>0 DEF Miss, Goes, Moves, Stays, CallTypes
<1>3. Fetch(c) => Moves(c, "fetched") /\ call'[c].set = era
  BY <1>0 DEF Fetch, Moves, CallTypes
<1>4. FetchFails(c) => Moves(c, "rejected") /\ Stays(c)
  BY <1>0 DEF FetchFails, Goes, Moves, Stays, CallTypes
<1>5. Clear(c) => Moves(c, "filling") /\ call'[c].set = call[c].set /\ call'[c].pos = 1
  BY <1>0 DEF Clear, Moves, CallTypes
<1>6. StoreSkip(c) =>
        Moves(c, "filling") /\ call'[c].set = call[c].set /\ call'[c].pos = call[c].pos + 1
  BY <1>0 DEF StoreSkip, AtKey, Moves, CallTypes
<1>7. StoreBroken(c) => Moves(c, "rejected") /\ Stays(c)
  BY <1>0 DEF StoreBroken, Moves, Stays, CallTypes
<1>8. StoreBegin(c) => Moves(c, "storing") /\ Stays(c) /\ call'[c].into = map
  BY <1>0 DEF StoreBegin, Moves, Stays, CallTypes
<1>9. StoreEnd(c) =>
        Moves(c, "filling") /\ call'[c].set = call[c].set /\ call'[c].pos = call[c].pos + 1
  BY <1>0 DEF StoreEnd, Moves, CallTypes
<1>10. FillEnd(c) => Stays(c) /\ (Moves(c, "rejected") \/ Moves(c, "refreshed"))
  BY <1>0 DEF FillEnd, Goes, Moves, Stays, CallTypes
<1> QED
  BY <1>1, <1>2, <1>3, <1>4, <1>5, <1>6, <1>7, <1>8, <1>9, <1>10

\* A move changes the call in KeyCache too, and the set of refreshing calls.
LEMMA MovesSeen ==
  ASSUME TypeOK, TypeOK', NEW c \in Calls, NEW a, Moves(c, a)
  PROVE  /\ call'[c].set = call[c].set => Asks' = [Asks EXCEPT ![c].at = Seen(a)]
         /\ Refreshing' = IF a \in {"filling", "storing"} THEN Refreshing \cup {c}
                                                         ELSE Refreshing \ {c}
<1>1. ASSUME call'[c].set = call[c].set PROVE Asks' = [Asks EXCEPT ![c].at = Seen(a)]
  BY <1>1 DEF Moves, Asks, Seen
<1>2. \A d \in Calls : d \in Refreshing' <=> call'[d].at \in {"filling", "storing"}
  BY DEF Refreshing
<1>3. \A d \in Calls : d \in Refreshing <=> call[d].at \in {"filling", "storing"}
  BY DEF Refreshing
<1>4. Refreshing' \subseteq Calls /\ Refreshing \subseteq Calls
  BY DEF Refreshing
<1>5. \A d \in Calls : d \in Refreshing' <=> IF d = c THEN a \in {"filling", "storing"} ELSE d \in Refreshing
  BY <1>2, <1>3 DEF Moves
<1> QED
  BY <1>1, <1>4, <1>5

\* KeyCache sees the same calls refresh.
LEMMA SameRefreshing == TypeOK => KC!Refreshing = Refreshing
<1> SUFFICES ASSUME TypeOK PROVE KC!Refreshing = Refreshing
  OBVIOUS
<1>1. \A c \in Calls : Asks[c].at = Seen(call[c].at)
  BY DEF Asks
<1>2. \A c \in Calls : Seen(call[c].at) = "refreshing" <=> call[c].at \in {"filling", "storing"}
  BY DEF Seen, TypeOK, CallTypes
<1> QED
  BY <1>1, <1>2 DEF KC!Refreshing, Refreshing

------------------------------------------------------------------------------
\* The invariant

LEMMA InitInv == Init => CacheInv
<1> SUFFICES ASSUME Init PROVE CacheInv
  OBVIOUS
<1>1. TypeOK
  BY InitTyped
<1>2. Refreshing = {}
  BY DEF Init, Idle, Refreshing
<1>3. OnlyPublished
  BY JWKSTyped, PublishedGrows DEF Init, OnlyPublished
<1> QED
  BY <1>1, <1>2, <1>3 DEF CacheInv, NoneBroken, AloneExact

\* A step after which no call refreshes that did not before, at the same place.
LEMMA QuietStep ==
  ASSUME CacheInv, Refreshing' \subseteq Refreshing,
         \A d \in Refreshing' : call'[d] = call[d],
         UNCHANGED <<map, keys, last>>, era' = era \/ era' = era + 1
  PROVE  OnlyPublished' /\ NoneBroken' /\ AloneExact'
<1>1. OnlyPublished'
  BY PublishedGrows DEF CacheInv, TypeOK, OnlyPublished, Published
<1>2. NoneBroken'
  BY DEF CacheInv, NoneBroken, KeySet
<1>3. AloneExact'
  BY DEF CacheInv, AloneExact, KeySet
<1> QED
  BY <1>1, <1>2, <1>3

\* The key a call stores is published.
LEMMA KeyPublished ==
  ASSUME CacheInv, NEW c \in Calls, call[c].at = "storing"
  PROVE  Key(c) \in Published(era)
<1>1. /\ KeySet(c) \in Seq(Kids) /\ call[c].set \in 1 .. era /\ era \in DOMAIN JWKS
      /\ c \in Refreshing
  BY CallFields DEF CacheInv, TypeOK, Refreshing
<1>2. /\ call[c].pos \in 1 .. Len(KeySet(c)) + 1 /\ call[c].pos \in DOMAIN KeySet(c)
      /\ Key(c) \in Good
  BY <1>1 DEF CacheInv, TypeOK
<1>3. \A i \in 1 .. call[c].pos - 1 : KeySet(c)[i] \notin Broken
  BY <1>1 DEF CacheInv, NoneBroken
<1>4. Key(c) \in Loaded(KeySet(c))
  BY <1>1, <1>2, <1>3, LoopEnds DEF Key
<1> QED
  BY <1>1, <1>4, PublishedGrows DEF KeySet

\* A step of the call c in the loop: what NoneBroken and AloneExact need.
LEMMA LoopStep ==
  ASSUME CacheInv, NEW c \in Calls,
         \/ Moves(c, "filling")
         \/ Moves(c, "storing") /\ call'[c].into = map',
         c \in Refreshing, Refreshing' = Refreshing,
         call'[c].set = call[c].set, UNCHANGED <<map, last>>,
         \A i \in 1 .. call'[c].pos - 1 : KeySet(c)[i] \notin Broken,
         last # 0 => keys' = KeysUpTo(KeySet(c), call'[c].pos - 1)
  PROVE  NoneBroken' /\ AloneExact'
<1>1. NoneBroken'
  BY DEF CacheInv, NoneBroken, KeySet, Moves, Refreshing
<1>2. ASSUME last' # 0 PROVE \A d \in Refreshing' :
        /\ Refreshing' = {d} /\ call'[d].set = last'
        /\ keys' = KeysUpTo(KeySet(d)', call'[d].pos - 1)
        /\ call'[d].at = "storing" => call'[d].into = map'
  <2>1. last # 0 /\ Refreshing' = {c} /\ call'[c].set = last'
    BY <1>2 DEF CacheInv, AloneExact
  <2>2. KeySet(c)' = KeySet(c)
    BY DEF KeySet
  <2>3. call'[c].at = "storing" => call'[c].into = map'
    BY DEF Moves
  <2> QED
    BY <2>1, <2>2, <2>3
<1> QED
  BY <1>1, <1>2 DEF AloneExact

LEMMA StepInv == CacheInv /\ [Next]_vars => CacheInv'
<1> SUFFICES ASSUME CacheInv, [Next]_vars PROVE CacheInv'
  OBVIOUS
<1>0. TypeOK /\ TypeOK'
  BY StepTyped DEF CacheInv
<1> SUFFICES OnlyPublished' /\ NoneBroken' /\ AloneExact'
  BY <1>0 DEF CacheInv
<1>1. CASE Rotate \/ UNCHANGED vars
  BY <1>1, QuietStep DEF Rotate, vars, Refreshing
<1>2. ASSUME NEW c \in Calls, NEW k \in Kids, Ask(c, k)
      PROVE  OnlyPublished' /\ NoneBroken' /\ AloneExact'
  <2>1. /\ call'[c].at = "asked"
        /\ \A d \in Calls \ {c} : call'[d] = call[d]
    BY <1>0, <1>2 DEF Ask, TypeOK
  <2> QED
    BY <1>2, <2>1, QuietStep DEF Ask, Refreshing
<1>3. ASSUME NEW c \in Calls, Steps(c) \/ Return(c)
      PROVE  OnlyPublished' /\ NoneBroken' /\ AloneExact'
  \* Most steps leave the loop, or never were in it.
  <2>1. ASSUME NEW a, a \notin {"filling", "storing"}, Moves(c, a), UNCHANGED <<era, map, keys, last>>
        PROVE  OnlyPublished' /\ NoneBroken' /\ AloneExact'
    <3>1. Refreshing' = Refreshing \ {c} /\ Refreshing' \subseteq Calls
      BY <1>0, <2>1, MovesSeen DEF Refreshing
    <3> QED
      BY <2>1, <3>1, QuietStep DEF Moves
  <2>2. CASE Find(c)
    BY <1>0, <2>1, <2>2, StepMoves DEF Find
  <2>3. CASE Miss(c)
    BY <1>0, <2>1, <2>3, StepMoves DEF Miss
  <2>4. CASE LookupCrash(c) \/ StoreCrash(c)
    BY <2>4, QuietStep DEF LookupCrash, StoreCrash, Crash, Refreshing
  <2>5. CASE Return(c)
    <3>1. /\ call'[c].at = "idle"
          /\ \A d \in Calls \ {c} : call'[d] = call[d]
      BY <1>0, <2>5 DEF Return, Idle, TypeOK
    <3> QED
      BY <2>5, <3>1, QuietStep DEF Return, Refreshing
  <2>6. CASE Fetch(c)
    BY <1>0, <2>1, <2>6, StepMoves DEF Fetch
  <2>7. CASE FetchFails(c)
    BY <1>0, <2>1, <2>7, StepMoves DEF FetchFails
  <2>8. CASE StoreBroken(c)
    BY <1>0, <2>1, <2>8, StepMoves DEF StoreBroken
  <2>9. CASE FillEnd(c)
    BY <1>0, <2>1, <2>9, StepMoves DEF FillEnd
  <2>10. CASE Clear(c)
    <3>1. /\ keys' = {} /\ UNCHANGED era
          /\ last' = IF Refreshing = {} THEN call[c].set ELSE 0
          /\ Moves(c, "filling") /\ call'[c].set = call[c].set /\ call'[c].pos = 1
          /\ call[c].at = "fetched"
      BY <1>0, <2>10, StepMoves DEF Clear
    <3>2. Refreshing' = Refreshing \cup {c} /\ Refreshing \subseteq Calls
      BY <1>0, <3>1, MovesSeen DEF Refreshing
    <3>3. KeySet(c)' = KeySet(c) /\ KeySet(c) \in Seq(Kids)
      BY <1>0, <3>1, CallFields DEF KeySet, TypeOK
    <3>4. OnlyPublished'
      BY <3>1 DEF OnlyPublished
    <3>5. NoneBroken'
      <4>1. c \notin Refreshing
        BY <3>1 DEF Refreshing
      <4>2. \A i \in 1 .. call'[c].pos - 1 : KeySet(c)'[i] \notin Broken
        BY <3>1
      <4> QED
        BY <3>1, <3>2, <4>1, <4>2 DEF CacheInv, NoneBroken, Moves, KeySet
    <3>6. AloneExact'
      <4>1. KeysUpTo(KeySet(c)', call'[c].pos - 1) = {}
        BY <3>1, <3>3, LoadedGood
      <4>2. call'[c].at # "storing"
        BY <3>1 DEF Moves
      <4> QED
        BY <3>1, <3>2, <4>1, <4>2 DEF AloneExact
    <3> QED
      BY <3>4, <3>5, <3>6
  <2>11. CASE StoreSkip(c) \/ StoreBegin(c) \/ StoreEnd(c)
    <3>1. /\ c \in Refreshing
          /\ KeySet(c) \in Seq(Kids) /\ call[c].pos \in Nat
          /\ call[c].pos \in DOMAIN KeySet(c)
      BY <1>0, <2>11, CallFields
      DEF StoreSkip, StoreBegin, StoreEnd, AtKey, TypeOK, Refreshing
    <3>2. \A i \in 1 .. call[c].pos - 1 : KeySet(c)[i] \notin Broken
      BY <3>1 DEF CacheInv, NoneBroken
    <3>3. last # 0 => /\ Refreshing = {c}
                      /\ keys = KeysUpTo(KeySet(c), call[c].pos - 1)
                      /\ call[c].at = "storing" => call[c].into = map
      BY <3>1 DEF CacheInv, AloneExact
    <3>4. KeysUpTo(KeySet(c), call[c].pos) =
            KeysUpTo(KeySet(c), call[c].pos - 1) \cup (IF Key(c) \in Good THEN {Key(c)} ELSE {})
      BY <3>1, KeysUpToNext DEF Key
    <3>5. CASE StoreSkip(c)
      <4>1. /\ UNCHANGED <<era, map, keys, last>> /\ Key(c) \notin Good \cup Broken
            /\ Moves(c, "filling") /\ call'[c].set = call[c].set /\ call'[c].pos = call[c].pos + 1
        BY <1>0, <3>5, StepMoves DEF StoreSkip
      <4>2. \A i \in 1 .. call'[c].pos - 1 : KeySet(c)[i] \notin Broken
        BY <3>1, <3>2, <4>1 DEF Key
      <4>3. ASSUME last # 0 PROVE keys' = KeysUpTo(KeySet(c), call'[c].pos - 1)
        <5>1. call'[c].pos - 1 = call[c].pos
          BY <3>1, <4>1
        <5> QED
          BY <3>3, <3>4, <4>1, <4>3, <5>1
      <4>4. Refreshing' = Refreshing
        <5>1. Refreshing' = Refreshing \cup {c}
          BY <1>0, <4>1, MovesSeen
        <5> QED
          BY <3>1, <5>1
      <4>5. OnlyPublished'
        BY <4>1 DEF CacheInv, OnlyPublished
      <4> QED
        BY <3>1, <4>1, <4>2, <4>3, <4>4, <4>5, LoopStep
    <3>6. CASE StoreBegin(c)
      <4>1. /\ UNCHANGED <<era, map, keys, last>>
            /\ Moves(c, "storing") /\ Stays(c) /\ call'[c].into = map'
        BY <1>0, <3>6, StepMoves DEF StoreBegin
      <4>2. Refreshing' = Refreshing
        <5>1. Refreshing' = Refreshing \cup {c}
          BY <1>0, <4>1, MovesSeen
        <5> QED
          BY <3>1, <5>1
      <4>3. OnlyPublished'
        BY <4>1 DEF CacheInv, OnlyPublished
      <4> QED
        BY <3>1, <3>2, <3>3, <4>1, <4>2, <4>3, LoopStep DEF Stays
    <3>7. CASE StoreEnd(c)
      <4>1. /\ UNCHANGED <<era, map, last>> /\ call[c].at = "storing"
            /\ Moves(c, "filling") /\ call'[c].set = call[c].set /\ call'[c].pos = call[c].pos + 1
        BY <1>0, <3>7, StepMoves DEF StoreEnd
      <4>2. Key(c) \in Good /\ Key(c) \in Published(era)
        BY <1>0, <4>1, KeyPublished DEF TypeOK
      <4>3. \A i \in 1 .. call'[c].pos - 1 : KeySet(c)[i] \notin Broken
        BY <3>1, <3>2, <4>1, <4>2, KeyAssumption DEF Key
      <4>4. ASSUME last # 0 PROVE keys' = KeysUpTo(KeySet(c), call'[c].pos - 1)
        <5>1. Writers(call[c].into) = {c}
          BY <3>3, <4>1, <4>4 DEF Writers, Refreshing
        <5>2. keys' = keys \cup {Key(c)}
          BY <3>3, <3>7, <4>1, <4>4, <5>1 DEF StoreEnd
        <5>3. call'[c].pos - 1 = call[c].pos
          BY <3>1, <4>1
        <5> QED
          BY <3>3, <3>4, <4>2, <4>4, <5>2, <5>3
      <4>5. Refreshing' = Refreshing
        <5>1. Refreshing' = Refreshing \cup {c}
          BY <1>0, <4>1, MovesSeen
        <5> QED
          BY <3>1, <5>1
      <4>6. OnlyPublished'
        BY <3>7, <4>1, <4>2 DEF StoreEnd, CacheInv, OnlyPublished
      <4> QED
        BY <3>1, <4>1, <4>3, <4>4, <4>5, <4>6, LoopStep
    <3> QED
      BY <2>11, <3>5, <3>6, <3>7
  <2> QED
    BY <1>3, <2>2, <2>3, <2>4, <2>5, <2>6, <2>7, <2>8, <2>9, <2>10, <2>11 DEF Steps
<1> QED
  BY <1>1, <1>2, <1>3 DEF Next

\* The inductive invariant (see CacheInv) holds in every execution.
THEOREM CacheInvariant == Spec => []CacheInv
<1> QED
  BY InitInv, StepInv, PTL DEF Spec

------------------------------------------------------------------------------
\* Refinement

\* KeyCache has the same key sets.
LEMMA SameKeySets ==
  /\ \A j : KC!Loaded(JWKS[j]) = Loaded(JWKS[j])
  /\ \A j : KC!Intact(JWKS[j]) <=> Intact(JWKS[j])
  /\ \A n : KC!Published(n) = Published(n)
BY DEF KC!Loaded, Loaded, KC!Intact, Intact, KC!Published, Published

LEMMA InitImplements == Init => KC!Init
<1> SUFFICES ASSUME Init PROVE KC!Init
  OBVIOUS
<1>1. Refreshing = {}
  BY DEF Init, Idle, Refreshing
<1>2. Asks = [c \in Calls |-> KC!Idle]
  BY DEF Init, Idle, Asks, Seen, KC!Idle
<1> QED
  BY <1>1, <1>2, SameKeySets DEF Init, Cache, KC!Init

\* A move of a call as KeyCache describes it.
LEMMA GoesSeen ==
  ASSUME TypeOK, TypeOK', NEW c \in Calls, NEW a, Moves(c, a), call'[c].set = call[c].set,
         NEW from, Seen(call[c].at) \in from
  PROVE  KC!Goes(c, from, Seen(a))
BY MovesSeen DEF KC!Goes, Asks

\* What a lookup finds is published, and with no refresh under way it is what
\* the map holds.
LEMMA Lookups ==
  ASSUME CacheInv, NEW c \in Calls
  PROVE  /\ Find(c) => call[c].kid \in Cache \cup (IF Refreshing = {} THEN {} ELSE Published(era))
         /\ Miss(c) => call[c].kid \notin Cache
<1>1. Writers(map) \subseteq Refreshing
  BY DEF Writers, Refreshing
<1>2. \A d \in Writers(map) : Key(d) \in Published(era)
  BY KeyPublished DEF Writers
<1>3. keys \subseteq Published(era)
  BY DEF CacheInv, OnlyPublished
<1>4. CASE Refreshing = {}
  BY <1>1, <1>4 DEF Find, Miss, Cache
<1>5. CASE Refreshing # {}
  BY <1>2, <1>3, <1>5 DEF Find, Miss, Cache
<1> QED
  BY <1>4, <1>5

\* A refresh ends, after its last key or at a broken one.
LEMMA EndImplements ==
  ASSUME CacheInv, TypeOK', NEW c \in Calls, StoreBroken(c) \/ FillEnd(c)
  PROVE  KC!End(c)
<1>0. TypeOK
  BY DEF CacheInv
<1>1. /\ call[c].at = "filling" /\ c \in Refreshing
      /\ UNCHANGED <<era, map, keys, last>>
  BY DEF StoreBroken, AtKey, FillEnd, Refreshing
<1>2. /\ KeySet(c) \in Seq(Kids) /\ call[c].set \in 1 .. era
      /\ call[c].pos \in 1 .. Len(KeySet(c)) + 1
      /\ \A i \in 1 .. call[c].pos - 1 : KeySet(c)[i] \notin Broken
  BY <1>0, <1>1, CallFields DEF TypeOK, CacheInv, NoneBroken
<1>3. PICK a \in {"rejected", "refreshed"} :
        /\ Moves(c, a) /\ Stays(c)
        /\ StoreBroken(c) => a = "rejected"
        /\ FillEnd(c) /\ Writers(map) = {} => (a = "refreshed" <=> keys # {})
  <2>1. CASE StoreBroken(c)
    <3>1. Moves(c, "rejected") /\ Stays(c) /\ ~FillEnd(c)
      BY <1>0, <2>1, StepMoves DEF StoreBroken, AtKey, FillEnd
    <3> QED
      BY <3>1
  <2>2. CASE FillEnd(c)
    <3>1. Stays(c) /\ ~StoreBroken(c)
      BY <1>0, <2>2, StepMoves DEF StoreBroken, AtKey, FillEnd
    <3>2. CASE Moves(c, "rejected")
      <4>1. Writers(map) = {} => keys = {}
        BY <1>0, <2>2, <3>2 DEF FillEnd, Goes, Moves, TypeOK, CallTypes
      <4> QED
        BY <3>1, <3>2, <4>1
    <3>3. CASE Moves(c, "refreshed")
      <4>1. Writers(map) = {} => keys # {}
        BY <1>0, <2>2, <3>3 DEF FillEnd, Goes, Moves, TypeOK, CallTypes
      <4> QED
        BY <3>1, <3>3, <4>1
    <3> QED
      BY <1>0, <2>2, <3>2, <3>3, StepMoves
  <2> QED
    BY <2>1, <2>2
<1>4. Seen("filling") = "refreshing" /\ Seen(a) = a
  BY <1>3 DEF Seen
<1>5. KC!Goes(c, {"refreshing"}, a)
  BY <1>0, <1>1, <1>3, <1>4, GoesSeen DEF Stays
<1>6. Asks'[c].at = a
  BY <1>3, <1>4 DEF Asks, Moves
<1>7. Refreshing' = Refreshing \ {c}
  BY <1>0, <1>3, MovesSeen
<1>8. KC!Refreshing = Refreshing
  BY <1>0, SameRefreshing
<1>9. CASE last # 0
  <2>1. Refreshing = {c} /\ call[c].set = last /\ keys = KeysUpTo(KeySet(c), call[c].pos - 1)
    BY <1>1, <1>9 DEF CacheInv, AloneExact
  <2>2. Cache' = keys
    BY <1>1, <1>7, <2>1 DEF Cache
  <2>3. Writers(map) = {}
    BY <1>1, <2>1 DEF Writers, Refreshing
  <2>4. CASE StoreBroken(c)
    <3>1. call[c].pos \in DOMAIN KeySet(c) /\ KeySet(c)[call[c].pos] \in Broken
      BY <2>4 DEF StoreBroken, AtKey, Key
    <3>2. ~Intact(KeySet(c)) /\ keys = Loaded(KeySet(c))
      BY <1>2, <2>1, <3>1, LoopEnds
    <3>3. Cache' = Loaded(JWKS[last]) /\ (a = "refreshed" <=> Intact(JWKS[last]) /\ Cache' # {})
      BY <1>3, <2>1, <2>2, <2>4, <3>2 DEF KeySet
    <3> QED
      BY <1>1, <1>2, <1>3, <1>5, <1>6, <1>9, <3>3, SameKeySets DEF KC!End
  <2>5. CASE FillEnd(c)
    <3>1. call[c].pos \notin DOMAIN KeySet(c)
      BY <2>5 DEF FillEnd
    <3>2. Intact(KeySet(c)) /\ keys = Loaded(KeySet(c))
      BY <1>2, <2>1, <3>1, LoopEnds
    <3>3. Cache' = Loaded(JWKS[last]) /\ (a = "refreshed" <=> Intact(JWKS[last]) /\ Cache' # {})
      BY <1>3, <2>1, <2>2, <2>3, <2>5, <3>2 DEF KeySet
    <3> QED
      BY <1>1, <1>2, <1>3, <1>5, <1>6, <1>9, <3>3, SameKeySets DEF KC!End
  <2> QED
    BY <2>4, <2>5
<1>10. CASE last = 0 /\ Refreshing = {c}
  <2>1. Cache' = keys /\ keys \subseteq Published(era)
    BY <1>1, <1>7, <1>10 DEF Cache, CacheInv, OnlyPublished
  <2> QED
    BY <1>1, <1>3, <1>5, <1>8, <1>10, <2>1, SameKeySets DEF KC!End
<1>11. CASE last = 0 /\ Refreshing # {c}
  <2>1. Cache' = {}
    BY <1>1, <1>7, <1>11 DEF Cache
  <2> QED
    BY <1>1, <1>3, <1>5, <1>8, <1>11, <2>1 DEF KC!End
<1> QED
  BY <1>9, <1>10, <1>11

\* Every step is a step of KeyCache or leaves it unchanged.
LEMMA StepImplements == CacheInv /\ CacheInv' /\ [Next]_vars => [KC!Next]_(KC!vars)
<1> SUFFICES ASSUME CacheInv, CacheInv', [Next]_vars
             PROVE  KC!Next \/ UNCHANGED <<era, Cache, last, Asks>>
  BY DEF KC!vars
<1>0. TypeOK /\ TypeOK' /\ KC!Refreshing = Refreshing
  BY SameRefreshing DEF CacheInv
<1>1. CASE Rotate
  <2>1. UNCHANGED <<Cache, last, Asks>>
    BY <1>1 DEF Rotate, Cache, Refreshing, Asks
  <2> QED
    BY <1>1, <2>1 DEF Rotate, KC!Rotate, KC!Next
<1>2. ASSUME NEW c \in Calls, NEW k \in Kids, Ask(c, k)
      PROVE  KC!Ask(c, k)
  <2>1. Asks[c].at = "idle"
    BY <1>2 DEF Ask, Asks, Seen
  <2>2. Asks' = [Asks EXCEPT ![c] = [at |-> "asked", kid |-> k, set |-> 0]]
    BY <1>0, <1>2 DEF Ask, Asks, Seen, TypeOK
  <2>3. UNCHANGED Cache
    <3>1. Refreshing' = Refreshing
      BY <1>0, <1>2 DEF Ask, Refreshing, TypeOK
    <3> QED
      BY <1>2, <3>1 DEF Ask, Cache
  <2> QED
    BY <1>2, <2>1, <2>2, <2>3 DEF Ask, KC!Ask
<1>3. ASSUME NEW c \in Calls, Steps(c) \/ Return(c)
      PROVE  \/ KC!Find(c) \/ KC!Miss(c) \/ KC!Unanswered(c)
             \/ KC!Read(c) \/ KC!Begin(c) \/ KC!End(c) \/ KC!Return(c)
             \/ UNCHANGED <<era, Cache, last, Asks>>
  \* Outside the loop the set of refreshing calls stays, and so does the cache.
  <2>1. ASSUME NEW a, a \notin {"filling", "storing"}, Moves(c, a), c \notin Refreshing, UNCHANGED keys
        PROVE  UNCHANGED Cache
    BY <1>0, <2>1, MovesSeen DEF Cache
  <2>2. CASE Find(c)
    <3>1. Moves(c, "found") /\ Stays(c) /\ c \notin Refreshing /\ UNCHANGED <<era, keys, last>>
      BY <1>0, <2>2, StepMoves DEF Find, Goes, Refreshing
    <3>2. KC!Goes(c, {"asked", "refreshed"}, "found")
      <4>1. Seen(call[c].at) \in {"asked", "refreshed"} /\ Seen("found") = "found"
        BY <2>2 DEF Find, Goes, Seen
      <4>2. KC!Goes(c, {"asked", "refreshed"}, Seen("found"))
        BY <1>0, <3>1, <4>1, GoesSeen DEF Stays
      <4> QED
        BY <4>1, <4>2
    <3>3. Asks[c].kid \in Cache \cup (IF Refreshing = {} THEN {} ELSE Published(era))
      BY <2>2, Lookups DEF Asks
    <3> QED
      BY <1>0, <2>1, <3>1, <3>2, <3>3, SameKeySets DEF KC!Find
  <2>3. CASE Miss(c)
    <3>1. /\ c \notin Refreshing /\ Stays(c) /\ UNCHANGED <<era, keys, last>>
          /\ \/ call[c].at = "asked" /\ Moves(c, "missed")
             \/ call[c].at = "refreshed" /\ Moves(c, "rejected")
      BY <1>0, <2>3, StepMoves DEF Miss, Goes, Refreshing
    <3>2. KC!Goes(c, {"asked"}, "missed") \/ KC!Goes(c, {"refreshed"}, "rejected")
      <4>1. /\ Seen("asked") = "asked" /\ Seen("missed") = "missed"
            /\ Seen("refreshed") = "refreshed" /\ Seen("rejected") = "rejected"
        BY DEF Seen
      <4>2. CASE call[c].at = "asked" /\ Moves(c, "missed")
        <5>1. KC!Goes(c, {"asked"}, Seen("missed"))
          BY <1>0, <3>1, <4>1, <4>2, GoesSeen DEF Stays
        <5> QED
          BY <4>1, <5>1
      <4>3. CASE call[c].at = "refreshed" /\ Moves(c, "rejected")
        <5>1. KC!Goes(c, {"refreshed"}, Seen("rejected"))
          BY <1>0, <3>1, <4>1, <4>3, GoesSeen DEF Stays
        <5> QED
          BY <4>1, <5>1
      <4> QED
        BY <3>1, <4>2, <4>3
    <3>3. Asks[c].kid \notin Cache
      BY <2>3, Lookups DEF Asks
    <3>4. UNCHANGED Cache
      BY <2>1, <3>1
    <3> QED
      BY <3>1, <3>2, <3>3, <3>4 DEF KC!Miss
  <2>4. CASE LookupCrash(c) \/ StoreCrash(c)
    BY <2>4 DEF LookupCrash, StoreCrash, Crash, Cache, Refreshing, Asks
  <2>5. CASE Return(c)
    <3>1. Asks[c].at \in {"found", "rejected"}
      BY <2>5 DEF Return, Asks, Seen
    <3>2. Asks' = [Asks EXCEPT ![c] = KC!Idle]
      BY <1>0, <2>5 DEF Return, Idle, Asks, Seen, KC!Idle, TypeOK
    <3>3. UNCHANGED Cache
      <4>1. Refreshing' = Refreshing
        BY <1>0, <2>5 DEF Return, Idle, Refreshing, TypeOK
      <4> QED
        BY <2>5, <4>1 DEF Return, Cache
    <3> QED
      BY <2>5, <3>1, <3>2, <3>3 DEF Return, KC!Return
  <2>6. CASE Fetch(c)
    <3>1. /\ Moves(c, "fetched") /\ call'[c].set = era /\ call[c].at = "missed"
          /\ c \notin Refreshing /\ UNCHANGED <<era, keys, last>>
      BY <1>0, <2>6, StepMoves DEF Fetch, Refreshing
    <3>2. Asks[c].at = "missed" /\ Asks' = [Asks EXCEPT ![c] = [at |-> "read", kid |-> Asks[c].kid, set |-> era]]
      <4>1. \A d \in Calls : Asks'[d] =
              IF d = c THEN [at |-> "read", kid |-> call[c].kid, set |-> era] ELSE Asks[d]
        BY <3>1 DEF Moves, Asks, Seen
      <4> QED
        BY <3>1, <4>1 DEF Asks, Seen
    <3> QED
      BY <2>1, <3>1, <3>2 DEF KC!Read
  <2>7. CASE FetchFails(c)
    <3>1. /\ Moves(c, "rejected") /\ Stays(c) /\ call[c].at = "missed"
          /\ c \notin Refreshing /\ UNCHANGED <<era, keys, last>>
      BY <1>0, <2>7, StepMoves DEF FetchFails, Goes, Refreshing
    <3>2. KC!Goes(c, {"missed"}, "rejected")
      <4>1. Seen("missed") = "missed" /\ Seen("rejected") = "rejected"
        BY DEF Seen
      <4>2. KC!Goes(c, {"missed"}, Seen("rejected"))
        BY <1>0, <3>1, <4>1, GoesSeen DEF Stays
      <4> QED
        BY <4>1, <4>2
    <3> QED
      BY <2>1, <3>1, <3>2 DEF KC!Unanswered
  <2>8. CASE Clear(c)
    <3>1. /\ Moves(c, "filling") /\ call'[c].set = call[c].set /\ call[c].at = "fetched"
          /\ last' = (IF Refreshing = {} THEN call[c].set ELSE 0) /\ UNCHANGED era
      BY <1>0, <2>8, StepMoves DEF Clear
    <3>2. KC!Goes(c, {"read"}, "refreshing")
      <4>1. Seen("fetched") = "read" /\ Seen("filling") = "refreshing"
        BY DEF Seen
      <4>2. KC!Goes(c, {"read"}, Seen("filling"))
        BY <1>0, <3>1, <4>1, GoesSeen DEF Stays
      <4> QED
        BY <4>1, <4>2
    <3>3. Cache' = {}
      BY <1>0, <3>1, MovesSeen DEF Cache
    <3> QED
      BY <1>0, <3>1, <3>2, <3>3 DEF KC!Begin, Asks
  <2>9. CASE StoreSkip(c) \/ StoreBegin(c) \/ StoreEnd(c)
    <3>1. /\ Moves(c, "filling") \/ Moves(c, "storing")
          /\ call'[c].set = call[c].set /\ c \in Refreshing /\ UNCHANGED <<era, last>>
      BY <1>0, <2>9, StepMoves DEF StoreSkip, StoreBegin, StoreEnd, AtKey, Refreshing, Stays
    <3>2. c \in Refreshing'
      BY <1>0, <3>1, MovesSeen
    <3>3. Cache = {} /\ Cache' = {}
      BY <3>1, <3>2 DEF Cache
    <3>4. UNCHANGED Asks
      BY <3>1 DEF Moves, Asks, Seen, Refreshing
    <3> QED
      BY <3>1, <3>3, <3>4
  <2>10. CASE StoreBroken(c) \/ FillEnd(c)
    BY <1>0, <2>10, EndImplements
  <2> QED
    BY <1>3, <2>2, <2>3, <2>4, <2>5, <2>6, <2>7, <2>8, <2>9, <2>10 DEF Steps
<1>4. CASE UNCHANGED vars
  BY <1>4 DEF vars, Cache, Refreshing, Asks
<1> QED
  BY <1>1, <1>2, <1>3, <1>4 DEF Next, KC!Next

\* AuthService keeps the promise of KeyCache (see ImplementsKeyCache).
THEOREM Refinement == Spec => ImplementsKeyCache
<1> QED
  BY InitInv, StepInv, InitImplements, StepImplements, PTL
  DEF Spec, ImplementsKeyCache, KC!Spec

------------------------------------------------------------------------------
\* What KeyCache promises

LEMMA PublishedMore ==
  ASSUME NEW n \in Nat
  PROVE  /\ KC!Published(n) \subseteq KC!Published(n + 1)
         /\ \A j \in 1 .. n : KC!Loaded(JWKS[j]) \subseteq KC!Published(n)
BY DEF KC!Published

LEMMA PromiseInit == KC!Init => KC!Promise
<1> SUFFICES ASSUME KC!Init PROVE KC!Promise
  OBVIOUS
<1>1. era = 1 /\ last = 1 /\ 1 \in 1 .. Len(JWKS) /\ Cache = KC!Loaded(JWKS[1])
  BY JWKSTyped DEF KC!Init
<1>2. \A c \in Calls : Asks[c].at = "idle"
  BY DEF KC!Init, KC!Idle
<1>3. KC!CacheTypes
  BY <1>1 DEF KC!Init, KC!Idle, KC!CacheTypes
<1>4. KC!FoundPublished
  BY <1>1, <1>2, PublishedMore DEF KC!FoundPublished
<1>5. KC!CacheWhole
  BY <1>1, <1>2 DEF KC!CacheWhole, KC!Refreshing
<1> QED
  BY <1>3, <1>4, <1>5 DEF KC!Promise

\* A move of a call of KeyCache, within the types.
LEMMA GoesWithin ==
  ASSUME KC!CacheTypes, NEW c \in Calls, NEW from, NEW to, KC!Goes(c, from, to),
         UNCHANGED last \/ last' \in 0 .. era,
         to \in {"missed", "refreshing", "refreshed", "found", "rejected"}, UNCHANGED era
  PROVE  /\ KC!CacheTypes'
         /\ \A d \in Calls : Asks'[d].at = (IF d = c THEN to ELSE Asks[d].at)
         /\ \A d \in Calls : Asks'[d].kid = Asks[d].kid
         /\ KC!Refreshing' = IF to = "refreshing" THEN KC!Refreshing \cup {c}
                                                 ELSE KC!Refreshing \ {c}
<1>1. /\ \A d \in Calls : Asks'[d].at = (IF d = c THEN to ELSE Asks[d].at)
      /\ \A d \in Calls : Asks'[d].kid = Asks[d].kid
  BY DEF KC!Goes, KC!CacheTypes
<1>2. KC!CacheTypes'
  BY DEF KC!Goes, KC!CacheTypes
<1>3. \A d \in Calls : d \in KC!Refreshing' <=>
                        IF d = c THEN to = "refreshing" ELSE d \in KC!Refreshing
  BY <1>1 DEF KC!Refreshing
<1>4. KC!Refreshing' \subseteq Calls /\ KC!Refreshing \subseteq Calls
  BY DEF KC!Refreshing
<1> QED
  BY <1>1, <1>2, <1>3, <1>4

LEMMA PromiseStep == KC!Promise /\ [KC!Next]_(KC!vars) => KC!Promise'
<1> SUFFICES ASSUME KC!Promise, [KC!Next]_(KC!vars) PROVE KC!Promise'
  OBVIOUS
<1>0. KC!CacheTypes /\ KC!FoundPublished /\ KC!CacheWhole /\ era \in Nat
  BY DEF KC!Promise, KC!CacheTypes
<1>1. CASE KC!Rotate
  <2>1. UNCHANGED <<Cache, last, Asks>> /\ era' = era + 1 /\ era < Len(JWKS)
    BY <1>1 DEF KC!Rotate
  <2>2. KC!CacheTypes'
    BY <1>0, <2>1, JWKSTyped DEF KC!CacheTypes
  <2>3. KC!FoundPublished'
    BY <1>0, <2>1, PublishedMore DEF KC!FoundPublished
  <2>4. KC!CacheWhole'
    BY <1>0, <2>1 DEF KC!CacheWhole, KC!Refreshing
  <2> QED
    BY <2>2, <2>3, <2>4 DEF KC!Promise
<1>2. ASSUME NEW c \in Calls, NEW k \in Kids, KC!Ask(c, k) PROVE KC!Promise'
  <2>1. UNCHANGED <<era, Cache, last>> /\ Asks[c].at = "idle"
    BY <1>2 DEF KC!Ask
  <2>2. \A d \in Calls : Asks'[d] = IF d = c THEN [at |-> "asked", kid |-> k, set |-> 0] ELSE Asks[d]
    BY <1>0, <1>2 DEF KC!Ask, KC!CacheTypes
  <2>3. KC!CacheTypes'
    BY <1>0, <1>2 DEF KC!Ask, KC!CacheTypes
  <2>4. KC!Refreshing' = KC!Refreshing
    BY <2>1, <2>2 DEF KC!Refreshing
  <2> QED
    BY <1>0, <2>1, <2>2, <2>3, <2>4 DEF KC!Promise, KC!FoundPublished, KC!CacheWhole
<1>3. ASSUME NEW c \in Calls, KC!Find(c) PROVE KC!Promise'
  <2>1. /\ UNCHANGED <<era, Cache, last>> /\ c \notin KC!Refreshing
        /\ KC!Goes(c, {"asked", "refreshed"}, "found")
    BY <1>3 DEF KC!Find, KC!Goes, KC!Refreshing
  <2>2. Asks[c].kid \in KC!Published(era)
    BY <1>0, <1>3 DEF KC!Find, KC!FoundPublished
  <2>3. /\ KC!CacheTypes' /\ KC!Refreshing' = KC!Refreshing \ {c}
        /\ \A d \in Calls : Asks'[d].kid = Asks[d].kid
        /\ \A d \in Calls : Asks'[d].at = (IF d = c THEN "found" ELSE Asks[d].at)
    BY <1>0, <2>1, GoesWithin
  <2>4. KC!Refreshing' = KC!Refreshing
    BY <2>1, <2>3
  <2> QED
    BY <1>0, <2>1, <2>2, <2>3, <2>4 DEF KC!Promise, KC!FoundPublished, KC!CacheWhole
\* A move outside of the refreshes that finds nothing.
<1>4. ASSUME NEW c \in Calls, NEW from, NEW to, KC!Goes(c, from, to), c \notin KC!Refreshing,
             to \in {"missed", "rejected"}, UNCHANGED <<era, Cache, last>>
      PROVE  KC!Promise'
  <2>1. /\ KC!CacheTypes'
        /\ KC!Refreshing' = IF to = "refreshing" THEN KC!Refreshing \cup {c}
                                                ELSE KC!Refreshing \ {c}
        /\ \A d \in Calls : Asks'[d].kid = Asks[d].kid
        /\ \A d \in Calls : Asks'[d].at = (IF d = c THEN to ELSE Asks[d].at)
    BY <1>0, <1>4, GoesWithin
  <2>2. KC!Refreshing' = KC!Refreshing
    BY <1>4, <2>1
  <2>3. \A d \in Calls : Asks'[d].at = "found" => Asks[d].at = "found"
    BY <1>4, <2>1
  <2> QED
    BY <1>0, <1>4, <2>1, <2>2, <2>3 DEF KC!Promise, KC!FoundPublished, KC!CacheWhole
<1>5. ASSUME NEW c \in Calls, KC!Miss(c) \/ KC!Unanswered(c) PROVE KC!Promise'
  <2>1. UNCHANGED <<era, Cache, last>> /\ c \notin KC!Refreshing
    BY <1>5 DEF KC!Miss, KC!Unanswered, KC!Goes, KC!Refreshing
  <2>2. \/ KC!Goes(c, {"asked"}, "missed") \/ KC!Goes(c, {"refreshed"}, "rejected")
        \/ KC!Goes(c, {"missed"}, "rejected")
    BY <1>5 DEF KC!Miss, KC!Unanswered
  <2> QED
    BY <1>4, <2>1, <2>2
<1>6. ASSUME NEW c \in Calls, KC!Begin(c) PROVE KC!Promise'
  <2>1. /\ KC!Goes(c, {"read"}, "refreshing") /\ UNCHANGED era
        /\ Cache' = {} /\ last' = IF KC!Refreshing = {} THEN Asks[c].set ELSE 0
    BY <1>6 DEF KC!Begin
  <2>a. last' \in 0 .. era
    <3>1. Asks[c].set \in Nat /\ Asks[c].set <= era
      BY <1>0, JWKSTyped DEF KC!CacheTypes
    <3> QED
      BY <1>0, <2>1, <3>1
  <2>2. /\ KC!CacheTypes' /\ KC!Refreshing' = KC!Refreshing \cup {c}
        /\ \A d \in Calls : Asks'[d].kid = Asks[d].kid
        /\ \A d \in Calls : Asks'[d].at = (IF d = c THEN "refreshing" ELSE Asks[d].at)
    BY <1>0, <2>1, <2>a, GoesWithin
  <2>3. KC!CacheWhole'
    <3>1. last' # 0 => KC!Refreshing' = {c}
      BY <2>1, <2>2
    <3> QED
      BY <2>2, <3>1 DEF KC!CacheWhole
  <2> QED
    BY <1>0, <2>1, <2>2, <2>3 DEF KC!Promise, KC!FoundPublished
<1>7. ASSUME NEW c \in Calls, KC!End(c) PROVE KC!Promise'
  <2>1. PICK to \in {"refreshed", "rejected"} : KC!Goes(c, {"refreshing"}, to)
    BY <1>7 DEF KC!End
  <2>2. UNCHANGED <<era, last>> /\ c \in KC!Refreshing
    BY <1>7, <2>1 DEF KC!End, KC!Goes, KC!Refreshing
  <2>3. /\ KC!CacheTypes' /\ KC!Refreshing' = KC!Refreshing \ {c}
        /\ \A d \in Calls : Asks'[d].kid = Asks[d].kid
        /\ \A d \in Calls : Asks'[d].at = (IF d = c THEN to ELSE Asks[d].at)
    BY <1>0, <2>1, <2>2, GoesWithin
  <2>4. /\ last # 0 => Cache' = KC!Loaded(JWKS[last])
        /\ Cache' \subseteq KC!Published(era)
    BY <1>0, <1>7, PublishedMore DEF KC!End, KC!CacheTypes
  <2>5. last # 0 => KC!Refreshing' = {}
    BY <1>0, <2>2, <2>3 DEF KC!CacheWhole
  <2> QED
    BY <1>0, <2>2, <2>3, <2>4, <2>5 DEF KC!Promise, KC!FoundPublished, KC!CacheWhole
<1>8. ASSUME NEW c \in Calls, KC!Read(c) PROVE KC!Promise'
  <2>1. UNCHANGED <<era, Cache, last>> /\ Asks[c].at = "missed"
    BY <1>8 DEF KC!Read
  <2>2. /\ Asks'[c] = [at |-> "read", kid |-> Asks[c].kid, set |-> era]
        /\ \A d \in Calls \ {c} : Asks'[d] = Asks[d]
    BY <1>0, <1>8 DEF KC!Read, KC!CacheTypes
  <2>3. /\ \A d \in Calls : Asks'[d].kid = Asks[d].kid
        /\ \A d \in Calls : Asks'[d].at = IF d = c THEN "read" ELSE Asks[d].at
        /\ \A d \in Calls : Asks'[d].set = IF d = c THEN era ELSE Asks[d].set
    BY <2>2
  <2>4. KC!CacheTypes'
    <3>1. era \in 0 .. Len(JWKS) /\ era <= era
      BY <1>0, JWKSTyped DEF KC!CacheTypes
    <3>2. \A d \in Calls : Asks'[d].set <= era
      BY <1>0, <2>3, <3>1 DEF KC!CacheTypes
    <3>3. [at |-> "read", kid |-> Asks[c].kid, set |-> era] \in
            [at : {"idle", "asked", "missed", "read", "refreshing", "refreshed", "found",
                   "rejected"}, kid : Kids \cup {NoKid}, set : 0 .. Len(JWKS)]
      BY <1>0, <3>1 DEF KC!CacheTypes
    <3> QED
      BY <1>0, <1>8, <2>1, <3>2, <3>3 DEF KC!Read, KC!CacheTypes
  <2>5. KC!Refreshing' = KC!Refreshing
    BY <2>1, <2>3 DEF KC!Refreshing
  <2> QED
    BY <1>0, <2>1, <2>3, <2>4, <2>5 DEF KC!Promise, KC!FoundPublished, KC!CacheWhole
<1>9. ASSUME NEW c \in Calls, KC!Return(c) PROVE KC!Promise'
  <2>1. /\ UNCHANGED <<era, Cache, last>> /\ Asks[c].at # "refreshing"
    BY <1>9 DEF KC!Return
  <2>2. \A d \in Calls : Asks'[d] = IF d = c THEN KC!Idle ELSE Asks[d]
    BY <1>0, <1>9 DEF KC!Return, KC!CacheTypes
  <2>3. KC!CacheTypes'
    BY <1>0, <1>9 DEF KC!Return, KC!Idle, KC!CacheTypes
  <2>4. KC!Refreshing' = KC!Refreshing
    BY <2>1, <2>2 DEF KC!Refreshing, KC!Idle
  <2> QED
    BY <1>0, <2>1, <2>2, <2>3, <2>4
       DEF KC!Promise, KC!FoundPublished, KC!CacheWhole, KC!Idle
<1>10. CASE UNCHANGED KC!vars
  BY <1>0, <1>10 DEF KC!vars, KC!Promise, KC!CacheTypes, KC!FoundPublished, KC!CacheWhole,
                    KC!Refreshing
<1> QED
  BY <1>1, <1>2, <1>3, <1>5, <1>6, <1>7, <1>8, <1>9, <1>10 DEF KC!Next

\* Every cache that keeps KeyCache finds published keys only, and a refresh of
\* its own leaves the key set its request was answered with.
THEOREM CachePromise == KC!Spec => []KC!Promise
BY PromiseInit, PromiseStep, PTL DEF KC!Spec

\* VerifyToken never finds a key that fetchPublicKeys could not have read.
THEOREM FindsPublished == Spec => []FoundPublished
<1>1. KC!Promise => FoundPublished
  BY SameKeySets DEF KC!Promise, KC!FoundPublished, FoundPublished, Asks, Seen
<1> QED
  BY <1>1, Refinement, CachePromise, PTL DEF ImplementsKeyCache

\* A refresh that nothing overlapped leaves in s.publicKeys exactly the key set
\* its request was answered with (see CacheWhole).
THEOREM CacheBecomesWhole == Spec => []CacheWhole
<1>1. CacheInv /\ KC!Promise => CacheWhole
  BY SameKeySets, SameRefreshing DEF CacheInv, KC!Promise, KC!CacheWhole, CacheWhole, Cache
<1> QED
  BY <1>1, CacheInvariant, Refinement, CachePromise, PTL DEF ImplementsKeyCache
==============================================================================
