# Verification of based_backend

TLA+ models, TLC runs and TLAPS proofs for the Go backend in `src/`: a gRPC
server for users, events and event chats, on PostgreSQL, with Keycloak tokens.

`PROJECT.json` lists the components, the runs, the source lines each definition
models (`map`), for each property of a passing run a mutant of the code that
breaks it (`mutants`), the disagreements between the code and what it says of
itself (`findings`), the hazards and the theorems.

## 1. The system

| part | source | state | operations | interacts with |
|---|---|---|---|---|
| Chat hub | `internal/services/chat_service.go` | `subscribers` (`sync.Map` from raw event id to a slice of `*subscriber`), `mu` (`RWMutex`), two channels per subscriber | `addSubscriber`, `removeSubscriber`, `broadcastMessage`, the `StreamMessages` loop, the background `cleanupInactiveSubscribers` | every `CreateMessage` broadcasts; every `StreamMessages` registers and reads the history from the store |
| Store | `sql/migrations`, `sql/queries`, `internal/gen/sqlc`, `internal/repositories` | tables users, events, event_attendees, chat_messages, message_likes | one SQL statement per repository method, no transactions | called by all the services |
| Read-only queries | `sql/queries`, `internal/gen/sqlc`, the answers in `internal/services` | none | lists, counts, searches, the history | read the tables of the store |
| Conversion | `convertUUID` and the enum switches of `internal/services` | none | ids and enum values, both ways | between requests, rows and answers |
| Service handlers | `internal/services/{user,event,chat}_service.go` | none besides the calls in flight | user, event and chat RPCs; `CreateEvent` and `UpdateUser` run two statements each | call the store with the authenticated user's id |
| Token keys | `internal/services/auth_service.go` | `publicKeys`, an unsynchronised map | `VerifyToken`, `fetchPublicKeys` | called by the interceptors, outside of the recovery |
| Dispatch | `internal/gen/proto/*_grpc.pb.go`, `internal/interceptors`, `internal/db` | the calls of the server, the connections of the pool | generated handlers, interceptors, recovery; acquire and release of a connection | in front of every RPC |
| Startup | `cmd/server/main.go`, `internal/config`, `internal/db` | process configuration, schema version | `LoadConfig`, `RunMigrations`, `NewDB`, `NewAuthService` | once, before the server listens |
| Protocol messages | `internal/gen/proto/*.pb.go` | none | marshalling | |
| Cron service | `internal/services/cron_service.go` | none | none, an empty package | |

What is hard:

* **Chat hub.** The cleanup goroutine takes no lock, although everything else
  does. Registry entries are slices over arrays that several headers share and
  that `append` and the removal write in place. Channels can be closed three
  ways, a second close panics, and whether a panic is recovered depends on the
  goroutine. Buffers overflow, clients are slow, and a stream must not have a
  gap between the history and its live messages.
* **Store and handlers.** There are no transactions: `CreateEvent` inserts and
  then joins, `UpdateUser` reads and then writes back what it read. Deletes
  cascade through some foreign keys and are refused by another. Several calls
  answer OK although their statement found no row.
* **Queries.** One statement joins two tables of an event with each other and
  counts both; the others count by sub-selects or groups. They must agree.
* **Token keys.** The key map is replaced and refilled while other calls read
  it; a failed refresh leaves it empty or half filled.
* **Dispatch.** A statement may have taken effect although its call fails; a
  stream stays open for hours while others wait for connections; the process
  can end between any two steps.
* **Startup.** The migration is committed in three steps; a process that dies
  between two of them leaves a version no later process accepts.

What makes each part correct:

* **Chat hub.** Slices never lead to a cell without a subscriber; the registry
  is exactly the set of open streams; no acknowledged message is missed by a
  stream that stays open; only committed messages of the right event are sent,
  live ones once and in the order of their calls; no panic; every stream that
  is closed or ten minutes old ends unless its client keeps it in a `Send`, and
  every call is answered.
* **Store.** No row refers to a row that is gone; nobody loses rows through
  somebody else's deletion; what is copied between tables or read before it is
  written is still right when it is used; what an answer told a client is so.
* **Queries and conversion.** The answers agree on what they count and list;
  what goes to a client and comes back means the same row.
* **Token keys.** A call finds its key exactly if the cache has it, an
  undisturbed refresh leaves exactly the key set its request was answered with,
  and a call never finds a key that was never published.
* **Dispatch and startup.** A status code tells what was done; nothing is done
  without a valid token; connections come back; every call is answered; a
  process that serves has the whole schema.

## 2. Modules

| module | what it is | extends |
|---|---|---|
| `ChatFeed` | abstract: what the chat promises to writers and readers | |
| `ChatHub` | the live half of the chat service | instance of `ChatFeed` |
| `MCChatHub` | its instances: one or two events, up to three streams | `ChatHub` |
| `ChatHub_proof` | slices stay sound, type correctness, enough arrays | `ChatHub` |
| `ChatHubKeys_proof` | nothing crosses from one event to another | `ChatHub_proof` |
| `ChatHubGap_proof` | no gap between the history and the live messages | `ChatHubKeys_proof` |
| `ChatHubSerial_proof` | the serial executions: an exact registry, no panic, no silent loss, nobody young removed | `ChatHubGap_proof` |
| `ChatHubFeed_proof` | the refinement of `ChatFeed`, and what `ChatFeed` promises | `ChatHubSerial_proof` |
| `Store` | the tables and the calls that change them | |
| `Queries` | the statements that only read, and their answers | `Store` |
| `Sessions` | the calls of `Store` with their answers, and what a client concludes | `Queries` |
| `Convert` | ids and enum values | `Store` |
| `MCStore` | instances of the four | `Sessions`, `Convert` |
| `Store_proof` | references, deletions, the calls of patient clients, the queries, the answers; ids and enum values come back | `Sessions`, `Convert` |
| `KeySets` | Keycloak's key sets and what a refresh makes of one | |
| `KeyCache` | abstract: what a key cache promises to the calls that use it | `KeySets` |
| `AuthKeys` | detailed: lookups and refreshes of the unlocked map | `KeySets`, instance of `KeyCache` |
| `MCAuthKeys` | four key sets | `AuthKeys` |
| `AuthKeys_proof` | the refinement, what `KeyCache` promises, type correctness | `AuthKeys` |
| `Startup` | main up to `Serve`, the migration, the pool | |
| `Rpc` | the calls of a serving process | `Startup` |
| `MCRpc` | two calls | `Rpc` |
| `Rpc_proof` | honest answers, prepared processes, types | `Rpc` |

The parts meet at these seams, each modelled on both sides. `Insert` and
`Replay` in `ChatHub` are `CreateMessage` and the history query of the store;
whether the author and the event exist is a branch of `Insert` there and a
guard in `Store`. The history a stream replays is `EventMessages` of `Queries`.
`Rpc` takes a call to its statements and counts those that took effect; what
the effect is, is in `Store`. Its `Authenticate` and `Refuse` are the end of a
call of `AuthKeys`. `Canon` in `ChatHub` is `ConvertUUID` of `Convert`, and
`CanonJustified` proves that it has the properties `ChatHub` assumes.

### ChatHub

| state | in the code |
|---|---|
| `reg`, `heap` | `s.subscribers`; a value is a slice header (array, length), the arrays are cells of `heap` that headers share |
| `writer`, `Readers` | `s.mu`, and where the holder of the write lock stands |
| `pc`, `sent`, `live` | the `StreamMessages` handlers, what they passed to `stream.Send`, and in which order the messages from the buffer among it |
| `queue`, `closed` | the buffer of `sub.messages`; whether both channels are closed |
| `evict` | goroutines `go s.removeSubscriber` that have not started |
| `mpc`, `todo`, `stored` | the `CreateMessage` handlers, the rest of their broadcast, the committed messages |
| `cleaner`, `expired` | the cleanup goroutine and whom its clock makes ten minutes old |
| `crashed` | a panic in a goroutine nobody recovers |

| actions | in the code |
|---|---|
| `AddLock`, `AppendInPlace`, `AppendGrow` | `addSubscriber` |
| `RemoveLock`, `RemoveClose`, `RemovePanic`, `RemoveShift`, `RemoveStore`, `RemoveMissing` | `removeSubscriber`, deferred by the handler or spawned by a broadcast |
| `Insert`, `BroadcastLock`, `BroadcastSend`, `BroadcastPanic`, `BroadcastUnlock` | `CreateMessage`, `broadcastMessage` |
| `Replay`, `Forward`, `ForwardNil`, `SendReturns`, `ServerCancel`, `ClientCancel` | `StreamMessages` |
| `Tick`, `Visit`, `ScanKeep`, `ScanClose`, `ScanPanic`, `ScanDelete`, `ScanStore`, `EndPass` | `cleanupInactiveSubscribers` |

* A removal shifts the cells of its array one at a time and in any order, since
  nothing orders the writes for a goroutine without the lock. `append` writes
  in place while the array has capacity, and doubles it otherwise.
* Arrays no header refers to are collected when memory is allocated, so
  `MaxArrays > |Keys| + 2` (one per key, the writer's, the cleanup's) is enough:
  `ArraysSuffice` proves that no allocation ever waits for an array.
* "sending" is a state of its own because `stream.Send` blocks on a slow client
  while nobody reads `sub.done`.
* `expired` is chosen by each tick: any set of started streams may be ten
  minutes old, and an old one stays old.
* An insert is committed and read ("stored"), committed and not read because
  the connection or the context ended ("unsent"), or it failed.
* A message that falls between subscription and query is sent twice by design,
  in the history and live; the order of the history is not kept.
* The history query may never return (`Replay` is not taken), and so may a
  `Send` (`SendReturns` is not taken): the code sets no deadline for either.
* `stored` never shrinks. In the code the deletion of an event or of an author
  cascades to messages (`0001_initial_table.up.sql:84-94`), so that a history read
  afterwards lacks them; the hub is modelled for messages that stay. `Store` has
  the cascades, and `NoGap` is about messages that are not deleted.
* `SerialSpec` is `Spec` without the steps that make a visit of the cleanup
  overlap a call that holds `s.mu` for the same key: the service as it would
  be if the cleanup took the lock. It separates what the missing lock breaks
  from what works.

`ChatFeed` is the promise those executions keep: a client joins, reads the
history and then a live feed, to which a message is appended while the call that
creates it is pending, and once; a call is acknowledged when each client that
reads has its message; who is too slow is cut off. `client` is read off `pc`,
`closed` and the evictions under way, `feed` is what was forwarded and what is
still in the buffer. Two messages whose broadcasts overlap may reach two
clients in different orders: the feed only orders calls that did not overlap.

### Store

One variable per table; a row is a function value or `NoRow`. A call is an
action, and the calls of two statements leave a record in `calls` between them.

* Users are the 16 bytes `convertUUID` makes of the token's `sub`.
* A statement is one step, except the `INSERT ... SELECT` of `JoinEvent`: at the
  server's isolation level (READ COMMITTED) its `SELECT` sees a snapshot that
  can be older than the one its keys are checked against.
* A statement that is refused or fails changes nothing; where it is the only
  one of its call it is a stuttering step, where it is the second it is
  `StatementFails`.
* `PatientSpec` are the executions in which each client waits for an answer
  before it calls again. A statement of a cancelled call is taken to have ended
  by the time the client calls again.
* Handlers no RPC reaches are left out of the tables' calls: the chat handler is
  called `DeleteMesssage` and the RPC `DeleteMessage`, so the generated stub
  answers Unimplemented; `UpdateEvent` and `GetEventAttendeeStats` have no
  handler. (`Rpc` has them as `Stubs`.)
* Not checked because nothing in the repository promises it: any user may post
  to and like in any event, and a join looks neither at `max_attendees` nor at
  the age and gender limits.

### Queries, Sessions, Convert

`Queries` evaluates each read-only statement the way its text says: joins, then
groups and counts. An outer join without a match yields `NoRow`, which a count
of a column leaves out. `ORDER BY` and `LIMIT` leave a choice among rows that
are level, so a limited query is the set of its possible answers. The rows are
those of the answers: the converters of the search and of a user's list drop
the number of comments their statements count (`event_service.go:250-269`,
`:318-337`), so only the page of an event answers one. The columns
no call changes after `CreateEvent` (admitted genders, time, place) are
constants. Dates and distances are numbers.

`Sessions` adds to each call of `PatientSpec` the answer its handler gives. `told`
collects the facts the answers tell: an account, a join, a leave, a message, a
like. A call makes its client unsure of what it may change until it is answered
OK, and the answer may be lost. `LeaveEvent`, `UnlikeMessage` and `DeleteEvent`
answer OK whatever they find; `JoinEvent` answers OK although its `SELECT` finds
no row, so it tells only a client that was told of its account.

`Convert` has ids as sequences of bytes, cut or padded to `IdLen`, and the
tables of the ten enum switches.

### Startup, Rpc

`Startup` is `main`: `Start`, `LoadConfig`, the steps of golang-migrate
(`MigrateNothing`, `MigrateMark`, `MigrateApply`, `MigrateClean`: the mark, the
file and the end of the mark are committed one after the other), `NewDB`,
`NewAuthService`, `Serve`, and `Die` at any of them. `version` and `tables`
outlive a process. Of the settings `MAX_POOL_CONNS` is kept, because it is cut to
an `int32`; the others are names and places whose wrong value makes a step fail.

`Rpc` has one action per decision on the way of a call: no such method
(`Unknown`), a request that does not decode (`Garbled`, before the interceptors
for a unary call and after them for a stream), the token (`Authenticate`,
`Refuse`), a stub, a missing field (`Invalid`), a connection (`Acquire`,
`AcquireFails`), a statement (`Run`, `RunFails`), a panic of the broadcast
(`Recovered`), the answer, the stream (`GoLive`, `EndStream`). Which statements
a method runs and whether it validates its request are tables. `Drop` is what
becomes of the calls when the process ends: there is no graceful shutdown, and
the statements under way take effect or not.

### KeySets, KeyCache, AuthKeys

`AuthKeys` has one action per step of `VerifyToken` (`Ask`, `Find`, `Miss`,
`Return`) and of `fetchPublicKeys` (`Fetch`, `FetchFails`, `Clear`, `StoreSkip`,
`StoreBroken`, `StoreBegin`, `StoreEnd`, `FillEnd`).

* A store is a begin and an end, and it evaluates `s.publicKeys` anew for each
  key: overlapping refreshes store into each other's maps, or into one that was
  replaced. A lookup that meets a store hits, misses, or ends the program
  (`LookupCrash`, `StoreCrash`: fatal errors, which no `recover` stops). Of two
  stores that meet, one may be lost.
* A load of `s.publicKeys` and the access to its map are one step.
* A key stands for its id: Keycloak does not use an id for a second key. `Good`
  keys decode, `Broken` ones end the refresh, the others are skipped.
* Tokens without a key id or of another signing method are refused before the
  lookup, signature and claims are checked after it, without state. (The
  comparison of the issuer has no effect: its error is commented out,
  `auth_service.go:110`.)

`KeyCache` is the promise: a call finds its key exactly if the cache has it,
while no refresh is under way; a refresh that nothing overlaps leaves exactly
the key set Keycloak answered its request with; a call never finds a key no
refresh could have read. `AuthKeys` implements it with `cache` as the keys of
the map while no refresh is under way and `{}` otherwise, and with the steps
inside of a refresh hidden. `last` is a history variable: the number of the key
set that the refresh begun last was given, or 0 once another has overlapped it.
Refreshes overlap while both are between the replacement of the map and the end
of the loop. A request is not part of that: its answer may wait while others
refresh, and then replaces what they stored (`auth_service.go:128-146`). So a
key that was withdrawn before the request is gone when the refresh ends; one
that was withdrawn while the answer waited comes back until the next refresh.

## 3. Runs

| run | instance | shows |
|---|---|---|
| `hub_slices` | 3 streams, no messages, `Spec` | `SlicesSound`, against appends, shifts and the cleanup on one array |
| `hub_serial` | 2 streams, 2 messages, `SerialSpec` | without the overlap: `RegistryExact`, `NoPanic`, `NoSilentLoss`, `LiveOnce`, `YoungRegistered`, and the refinement `ImplementsFeed` |
| `hub_live` | 1 stream, 2 messages, `FairSpec` | `TypeOK`, `NoGap`, `OnlyStored`, and `LeavingEnds`, `ClosedEnds`, `CreateAnswers` |
| `hub_aging` | 1 stream, 2 messages of 2 events, `FairSerialSpec` | `StreamsEnd`, and `OnlyStored` with a second event |
| `hub_crash` | 1 stream, 1 message, `Spec` | violates `NoCrash` |
| `hub_lost` | 2 streams, `Spec` | violates `YoungRegistered` |
| `store_rows` | 2 users, 2 events, 2 messages, 1 call between statements, `Spec` | `TypeOK`, `References`, `MessagesKept`; in each state `CountsAgree`, `HistoryComplete`, `IdsReturn`, `EnumsReturn` |
| `store_sessions` | 2 users, 2 events, 1 message, 2 calls between statements, `SessionSpec` | `GenderTracked`, `CreatorJoins`, `AnswersHold` |
| `store_delete` | 2 users, 1 event, `Spec` | violates `AccountsDeletable` |
| `server_calls` | 2 calls, 5 settings, `RpcFairSpec` | `TypeOK`, `AnswerHonest`, `Prepared`, `CallsAnswered` |
| `auth_keys` | 2 calls, 5 keys, 4 key sets, `FairSpec` | `TypeOK`, `FoundPublished`, `CacheWhole`, `ImplementsKeyCache`, `CallsEnd` |
| `auth_refresh` | the same, `Spec` | violates `RefreshFinds` |

Why the bounds are enough:

* `QueueCap = 1`: the first message fills the buffer and the second overflows it
  and starts an eviction; two messages also make two broadcasts overlap.
* Three streams let an array grow from 1 to 2 to 4 cells, so that an append in
  place, a removal with cells to move and a scan meet on one array. Each of two
  streams can be the one removed while the other is added.
* `MaxArrays = 5` is more than can be alive with two keys.
* In `store_rows` the cascades have two levels (event, message, like) and two
  users who can each be author, creator or bystander. Two messages and two
  attendees are the least for which the product of a join counts wrong. Ids are
  never used twice; all events are at one time and place, so that every order
  of a limited answer is possible. Ids have two bytes, each 0 or 1: requests of
  0 to 3 bytes are cut, padded or kept.
* In `store_sessions` each of two users can have a call between its statements,
  and an event each, while the other deletes or leaves what it built on.
* In `server_calls` one call is for any method, the other holds a stream open or
  runs two statements. `Wrap = 8` stands for 2^32: of the settings 6 and -6
  change their sign, 9 becomes 1, 0 is refused by the pool; without a setting
  the pool has two connections. Every process may die at any step, any number
  of times.
* Two calls are the least that overlap in a refresh; the four key sets are one
  that starts the server, one that adds a key behind a key of another use, one
  that withdraws the first key and has a new one behind a broken one, where no
  refresh gets to it, and one without any signing key. Each makes
  a different cache, so that an older set is not taken for the one that was
  asked for.

The runs that use `VIEW` leave out the contents of arrays no header refers to.
Symmetry is used in safety runs only. Deadlock is checked in `server_calls`,
where a dead process can always start again; elsewhere the calls of an instance
are finite, each runs once, and a process may crash.

### Fairness

* Weak fairness of the steps inside a lock, of the broadcasts and of the
  lookups and refreshes: a goroutine that can run is scheduled; `Fetch` or
  `FetchFails` happens because the HTTP client gives up after ten seconds.
* Strong fairness of taking `s.mu`: Go's `RWMutex` starves neither readers
  nor writers.
* Strong fairness of `ServerCancel`: a `select` chooses at random among the
  ready cases, so a ready `sub.done` is taken in the end, although the closed
  messages channel is always ready as well.
* In `FairSerialSpec` also: the ticker ticks and each stream reaches its ten
  minutes, and the cleanup finishes its visits.
* None of `SendReturns` and `Replay`: a client that stays connected and does not
  read keeps its handler in `stream.Send` for ever (`chat_service.go:240`), where
  nobody looks at `sub.done`, and nothing bounds the history query either. So
  `ClosedEnds` and `StreamsEnd` say that a closed stream ends unless it is, from
  some moment on, in one such call that never returns: nothing else keeps it.
* In `RpcFairSpec`: the steps of a call are weakly fair, since handlers run and
  the network answers or breaks; `Acquire` is strongly fair, since the pool
  lets its callers in one after the other. Nobody has to start the process,
  call it, or end a stream.

Nothing is assumed of clients: they may never cancel, and the liveness
properties of the hub allow for the crash of the process (`\/ crashed`).

## 4. What the runs found

The first two have one cause, the lock that the cleanup does not take.

* `NoCrash`: the cleanup and a removal both close the channels of one
  subscriber; where nothing recovers, the process ends.
* `YoungRegistered`: a subscriber added during a scan is overwritten by the
  cleanup's store and never hears of a message. In the serial executions it
  holds (`hub_serial`, `YoungStayRegistered`): the overlap is the only cause.
* `AccountsDeletable`: the comment of `DeleteUser` says that the deletion takes
  the user's events along, but `events.creator_id` does not cascade
  (`0001_initial_table.up.sql:47`): the delete fails while the user has an
  event.
* `RefreshFinds`: "Refresh keys and try again" looks into whatever map is there
  by then, and can refuse a token whose key its own refresh was given.

`GenderTracked` and `CreatorJoins` hold for patient clients only. A client that
overlaps its own calls can delete and recreate its account between the two
statements of `UpdateUser`, or delete the event between those of `CreateEvent`.

## 5. Proofs

All proofs are for any number of streams, messages, keys, users, calls and key
sets, under the assumptions stated in the modules: `HubAssumption` (canonical
ids are fixed points of the conversion, stored messages carry canonical ids, a
positive capacity, enough arrays), `StoreAssumption` (`NoRow` is no row),
`QueriesAssumption` (the columns that never change have values; there are
finitely many users, events and messages, as ids have 16 bytes, and `NoRow` is
no message), `ConvertAssumption` (ids have bytes, 0 is a byte), `KeyAssumption` (the first
key set starts the server; finitely many calls), `StartupAssumption` and
`RpcAssumption` (settings are integers, finitely many calls).

| theorem | says |
|---|---|
| `ChatHub_proof!SlicesStaySound` | no header in use reaches a cell without a subscriber |
| `ChatHub_proof!TypeCorrect` | types; no buffer exceeds its capacity |
| `ChatHubKeys_proof!OnlyStoredDelivered` | a stream gets committed messages of its own event only |
| `ChatHubKeys_proof!RegistryNeverMixes` | a subscriber is registered under its own id only |
| `ChatHubGap_proof!NoGapEver` | an open registered stream misses no acknowledged message |
| `ChatHubSerial_proof!RegistryStaysExact`, `NeverPanics`, `NoLossUnnoticed` | in serial executions, the registry is exact, no channel is closed twice or sent on once closed, who misses a message was closed |
| `ChatHubSerial_proof!YoungStayRegistered` | in serial executions the cleanup drops nobody it does not close |
| `ChatHubFeed_proof!FeedImplemented` | the serial executions implement `ChatFeed` for clients with 16-byte ids |
| `ChatHubFeed_proof!LiveMessagesOnce` | in serial executions no live message comes twice, whatever the form of the id |
| `ChatHubFeed_proof!FeedPromise` | `ChatFeed` means what it says: stored messages only, live ones once, acknowledged ones to all who read |
| `Store_proof!ReferencesHold`, `MessagesStay`, `TypeCorrect` | every row refers to rows; which deletions may take a message along |
| `Store_proof!GendersStayTracked`, `CreatorsJoin` | the two-statement calls of patient clients |
| `Store_proof!HistoriesComplete`, `CountsAlwaysAgree` | the history has each message once with its likes; all answers have one number of attendees, and the page counts the messages of the history |
| `Store_proof!SessionsArePatient`, `ToldInvariant`, `AnswersStayTrue` | what an answer told a client stays true and is what the queries show |
| `Store_proof!IdsComeBack`, `EnumsComeBack`, `CanonJustified` | ids of answers find their rows; labels survive both conversions; what `ChatHub` assumes of `Canon` |
| `AuthKeys_proof!Refinement` | `AuthKeys` implements `KeyCache` |
| `AuthKeys_proof!CachePromise`, `FindsPublished`, `CacheBecomesWhole` | `KeyCache`, and so `AuthKeys`, finds published keys only, and has the key set its request was answered with after a refresh of its own |
| `AuthKeys_proof!TypeCorrect`, `CacheInvariant` | only decoded keys are in the map; what a lone refresh has stored |
| `Rpc_proof!AnswersHonest`, `ServingPrepared`, `CallsTyped` | codes tell the truth; who serves is prepared; the pool is never exceeded |

* **Slices.** `SlicesSound` is not inductive: in the middle of an operation the
  writer and the cleanup know things the registry does not show. `SliceInv`
  adds them: a writer that shifts holds a non-empty slice, the elements it read,
  and moves below its end; the cleanup's new slice fits the capacity reserved.
  The shift is harmless because it writes subscribers over subscribers and never
  clears the last cell. (The mutant that clears it breaks `SlicesSound`.)
* **Keys.** Arrays carry no key, so the invariant `KeyInv` says that some
  function from arrays to keys fits every header and every cell, up to the
  capacity of the array. Only an allocation changes that function, at an array
  nobody refers to. From it, the targets of a broadcast are of its event, and
  `DeliveryInv` adds that what is broadcast is committed.
* **Gap.** The registry may lose an open subscriber, since the cleanup stores
  what it collected without the lock. What saves `NoGap` is that nobody comes
  back. `SetInv` says so of the sets of subscribers: the call that holds `s.mu`
  will store every open subscriber the registry has (`RegKept`), the cleanup has
  collected, and can still read, only subscribers that are or will be registered
  (`HandKept`), and during a shift the cells of the array are those that were
  read, moved or not (`Shifting`). `MissInv` then says that an open stream that
  misses a message, and is not about to be evicted, is not registered nor will
  be, unless the broadcast is still to reach it.
* **Serial executions.** `SerialSpec` keeps apart what the code does not: the
  cleanup's visit of a key from the calls that hold `s.mu` for it. Then the
  subscribers of a key are, at any time, known in one place: the slice of the key
  at rest (`RestExact`), the copy the removal read while it shifts
  (`ShiftExact`), what the cleanup has collected and has yet to read
  (`ScanExact`). `SerialInv` says that this place holds the open subscribers of
  the key, each once; `Places` and `Broadcasts` say where handlers stand and that
  a broadcast has open subscribers only left to reach. So nobody closes a channel
  a second time or sends on a closed one, and with `MissInv` of the previous
  argument a stream that misses a message cannot be open. The cleanup then drops
  from a slice only what it closes (`OpenRegistered`, `YoungStayRegistered`).
* **Store.** `References` is inductive with the types. For patient clients,
  `PatientInv` adds that a user has one call in flight (`OneCall`) and that what
  it has read is still so (`Snapshots`): whatever could change it is a call of
  the same user.
* **Queries.** `CountsAgree` and `HistoryComplete` relate statements that join and
  count in different ways, for tables of any size. They rest on counting lemmas:
  an outer join counts, of a column, its matches (`CountLeftJoin`); over the
  product of two outer joins a distinct count of a column is the count of that
  column alone, since the other never is empty (`ProductColumns`,
  `CountDistinctProduct`), which is why `GetEventByID` needs its `DISTINCT` and
  its mutant without it fails; and the rows of the history are a bijective image
  of the messages, as each carries its id (`HistoryRows`, `HistoryCounted`). A
  count of finite sets only: this is where the finiteness of the ids is used.
* **Sessions.** An execution with answers is one of patient clients
  (`SessionsArePatient`), so `References` and `PatientInv` hold. `ToldInv` says of
  each fact what the tables hold of it: the account; the attendance, and the
  message, while the event exists; the like while the message does. Only a call
  of the same client, a cascade from its account or one from the event can change
  them, and the first two make the client unsure (`Answers`). The cascade from an
  event leaves what was told, since the facts are about rows that are gone, and as
  an id is issued once (`issued`) no later row is taken for them. That the queries show the
  facts follows from `References`: `UserEvents` asked with a limit of the number
  of events leaves none out, which is a fact about cardinalities again.
* **Dispatch.** `StartInv` follows the migration: tables exist once the file is
  applied, and a clean version implies them. `CallInv` ties the number of
  statements that took effect to where the call stands, and to the checks it has
  passed; connections are held only by calls between two statements.
* **Refinement of `ChatFeed`.** `FeedInv` relates broadcasts and feeds: nothing is
  sent to a client before the history, a broadcast has each subscriber to reach
  once and after its registration, and what is in a feed came from a call that has
  begun to broadcast and has that subscriber behind it. So a send is a `Publish`
  of a message that the feed does not have. That an acknowledged message has
  reached every reader is `MissInv` and `SerialInv` together. A removal is a
  stutter: whom it closes was cut off when the goroutine was spawned, or has left
  its loop. The theorem assumes `StreamsCanonical`; a stream under another form of
  its id is registered where no broadcast looks, and gets the history only.
  What the promise amounts to for a reader is `Promise` of `ChatFeed`, inductive
  as it stands: a reader has stored messages of its event only (`Honest`), none
  twice from the feed (`Once`), and every acknowledged one (`Reached`). That no
  live message comes twice needs no assumption on the ids (`LiveMessagesOnce`): of
  the steps of `ChatFeed` only `Publish` adds to a feed. Where the cleanup overlaps
  it is false, as a subscriber may then be in a slice twice.
* **Refinement of `KeyCache`.** `CacheInv` says that a refresh on its own has
  stored, in the current map, the good keys up to its position in the set it was
  answered with (which is `last`), that none before it was broken, and that the map never has keys beyond those published. Each step then maps
  to a step of `KeyCache` or to a stutter. What `KeyCache` promises is an
  invariant of `KeyCache` (`Promise`, inductive as it stands), and so holds of
  `AuthKeys`: `FoundPublished` and `CacheWhole`.

Only model-checked: liveness (`LeavingEnds`, `ClosedEnds`, `CreateAnswers`,
`StreamsEnd`, `CallsEnd`, `CallsAnswered`), which is out of reach of the prover.
Every invariant and every action property of a passing run is a theorem.

## 6. Not modelled

* Marshalling, and the structs and accessors of the protocol messages and of the
  rows (generated): no state. That a request does not decode is an outcome in
  `Rpc`; the numbers of the enums are those of `Convert`.
* Token signatures and claims, and the extraction of the token from the metadata:
  checks without state that end in `Authenticate` or `Refuse`.
* Columns no property tells apart (texts, dates, geometry), and the settings that
  are names and places.
* The repository and service code of `UpdateEvent` and `DeleteChatMessage`: no
  RPC reaches it.
* In the hub, the removal of committed messages by the cascades of `Store`.
* Limits nobody promises: any user may post to and like in any event, and a join
  looks neither at `max_attendees` nor at the age and gender limits. They are
  listed as hazards without a property.
* `cron_service.go` is an empty package.

## 7. What is left

* A run of `Rpc` with the tables of `Store` in place of the counter of
  statements.
* A theorem that relates the feeds of two clients: calls that do not overlap
  arrive in their order (`ChatFeed` only says that they do not arrive late).
