------------------------------- MODULE ChatHub -------------------------------
(***************************************************************************)
(* The live half of the chat service (internal/services/chat_service.go):  *)
(* the registry of stream subscribers, the broadcast that every            *)
(* CreateMessage call makes to it, the StreamMessages handler that         *)
(* registers, replays the history and forwards live messages, and the      *)
(* background goroutine that removes subscribers older than ten minutes.   *)
(*                                                                         *)
(* Concurrency is modelled at the grain the code really has:               *)
(*  - addSubscriber and removeSubscriber run under s.mu.Lock, a broadcast  *)
(*    under s.mu.RLock, the cleanup goroutine under no lock at all;        *)
(*  - a registry entry is a Go slice, a header (array, length) over a      *)
(*    backing array that other headers may share: append writes in place   *)
(*    while capacity is left, and removing an element shifts the cells of  *)
(*    the shared array;                                                    *)
(*  - a second close of a channel, and a send on a closed one, panic.  A   *)
(*    panic in an RPC handler is recovered by the interceptor of main.go,  *)
(*    a panic in any other goroutine ends the process.                     *)
(*                                                                         *)
(* close(sub.done) and close(sub.messages) are one step: they are always   *)
(* executed back to back, in this order, and the stream and the broadcast  *)
(* can only observe the pair as "closed" or as "not closed yet".           *)
(***************************************************************************)
EXTENDS Naturals, Sequences, SequencesExt

CONSTANTS
  Streams,      \* calls of StreamMessages, each with its *subscriber
  Messages,     \* calls of CreateMessage, each with the message it creates
  Keys,         \* event ids as byte strings: the keys of s.subscribers
  Canon,        \* convertUUID as a function on Keys: pad or cut to 16 bytes
  StreamKey,    \* req.EventId of each stream, as the client sent it
  MessageKey,   \* EventId of each stored message, 16 bytes from the database
  QueueCap,     \* capacity of sub.messages (100 in the code)
  MaxArrays,    \* backing arrays: more than can be alive at one time
  NoStream,     \* the nil *subscriber of an unused array cell
  NoMessage     \* the nil *pb.Message a closed channel yields

ASSUME HubAssumption ==
  /\ Keys # {} /\ IsFiniteSet(Keys)
  /\ Canon \in [Keys -> Keys]
  /\ \A k \in Keys : Canon[Canon[k]] = Canon[k]
  /\ StreamKey \in [Streams -> Keys]
  /\ MessageKey \in [Messages -> Keys]
  /\ \A m \in Messages : Canon[MessageKey[m]] = MessageKey[m]
  /\ QueueCap \in Nat \ {0}
  /\ MaxArrays \in Nat /\ MaxArrays > Cardinality(Keys) + 2
  /\ NoStream \notin Streams
  /\ NoMessage \notin Messages

VARIABLES
  reg,       \* s.subscribers: the slice stored under each key
  heap,      \* the cells of every backing array
  writer,    \* the call that holds s.mu.Lock, and where it stands
  pc,        \* where each StreamMessages handler stands
  queue,     \* the buffer of sub.messages
  closed,    \* subscribers whose done and messages channels are closed
  sent,      \* what each handler has passed to stream.Send
  live,      \* the messages among it that came from sub.messages, in order
  evict,     \* goroutines "go s.removeSubscriber" that have not started
  mpc,       \* where each CreateMessage handler stands
  todo,      \* the subscribers a broadcast has not reached yet
  stored,    \* messages committed to chat_messages; none is deleted again (see Replay)
  cleaner,   \* the state of cleanupInactiveSubscribers
  expired,   \* subscribers ten minutes old at the last tick of the cleanup
  crashed    \* a panic outside of the RPC handlers ended the process

hubVars == <<reg, heap, writer, closed>>
streamVars == <<pc, sent, live>>
messageVars == <<mpc, todo, stored>>
vars == <<hubVars, streamVars, messageVars, queue, evict, cleaner, expired,
          crashed>>

------------------------------------------------------------------------------
\* Go slices

\* A slice header; array 0 is the nil slice, which is also what Load yields
\* for a key that is not in the map.
Nil == [arr |-> 0, len |-> 0]

Slices == [arr : 0 .. MaxArrays, len : Nat]

\* The elements a header gives access to.
Elements(sl) == SubSeq(heap[sl.arr], 1, sl.len)

\* Arrays some header still refers to.  The collector may reuse the others.
LiveArrays == {reg[k].arr : k \in Keys} \cup {writer.slice.arr, cleaner.slice.arr}

FreeArrays == (1 .. MaxArrays) \ LiveArrays

Fresh == CHOOSE a \in FreeArrays : TRUE

\* The heap with a new array of these cells; the collector runs when memory is
\* allocated.
Allocated(cells) ==
  [a \in 0 .. MaxArrays |-> CASE a = Fresh -> cells
                             [] a \in LiveArrays -> heap[a]
                             [] OTHER -> <<>>]

\* The growth of append from capacity c, by doubling (capacities below 256).
Grow(c) == IF c = 0 THEN 1 ELSE 2 * c

\* A new array of capacity c that starts with the cells s.
Padded(s, c) == [i \in 1 .. c |-> IF i <= Len(s) THEN s[i] ELSE NoStream]

------------------------------------------------------------------------------
\* s.mu

NoWriter == [at |-> "none", stream |-> NoStream, spawned |-> FALSE, slice |-> Nil,
             old |-> <<>>, moves |-> {}]

\* A call for the subscriber s has taken s.mu and loaded the slice of its key.
Holding(at, s, spawned) ==
  [at |-> at, stream |-> s, spawned |-> spawned, slice |-> reg[StreamKey[s]],
   old |-> <<>>, moves |-> {}]

Readers == {m \in Messages : mpc[m] = "broadcasting"}

CanLock == writer = NoWriter /\ Readers = {}

CanRLock == writer = NoWriter

------------------------------------------------------------------------------
NoScan == [at |-> "idle", left |-> {}, key |-> CHOOSE k \in Keys : TRUE,
           slice |-> Nil, idx |-> 1, active |-> <<>>, cap |-> 0]

Init ==
  /\ reg = [k \in Keys |-> Nil]
  /\ heap = [a \in 0 .. MaxArrays |-> <<>>]
  /\ writer = NoWriter
  /\ pc = [s \in Streams |-> "start"]
  /\ queue = [s \in Streams |-> <<>>]
  /\ closed = {}
  /\ sent = [s \in Streams |-> {}]
  /\ live = [s \in Streams |-> <<>>]
  /\ evict = [s \in Streams |-> 0]
  /\ mpc = [m \in Messages |-> "start"]
  /\ todo = [m \in Messages |-> <<>>]
  /\ stored = {}
  /\ cleaner = NoScan
  /\ expired = {}
  /\ crashed = FALSE

------------------------------------------------------------------------------
\* addSubscriber, called by StreamMessages before it reads the history

AddLock(s) ==
  /\ pc[s] = "start"
  /\ CanLock
  /\ writer' = Holding("append", s, FALSE)
  /\ pc' = [pc EXCEPT ![s] = "adding"]
  /\ UNCHANGED <<reg, heap, closed, sent, live, messageVars, queue, evict,
                 cleaner, expired, crashed>>

\* Store and the deferred Unlock.
AddReturns(sl) ==
  /\ reg' = [reg EXCEPT ![StreamKey[writer.stream]] = sl]
  /\ writer' = NoWriter
  /\ pc' = [pc EXCEPT ![writer.stream] = "query"]
  /\ UNCHANGED <<closed, sent, live, messageVars, queue, evict, cleaner, expired, crashed>>

\* append with capacity left: the cell after the slice is overwritten in the
\* shared array.
AppendInPlace ==
  LET sl == writer.slice IN
  /\ writer.at = "append"
  /\ sl.len < Len(heap[sl.arr])
  /\ heap' = [heap EXCEPT ![sl.arr] = [@ EXCEPT ![sl.len + 1] = writer.stream]]
  /\ AddReturns([arr |-> sl.arr, len |-> sl.len + 1])

\* append at full capacity: the elements move to a new array.
AppendGrow ==
  LET sl == writer.slice IN
  /\ writer.at = "append"
  /\ sl.len = Len(heap[sl.arr])
  /\ FreeArrays # {}
  /\ heap' = Allocated(Padded(Append(Elements(sl), writer.stream), Grow(sl.len)))
  /\ AddReturns([arr |-> Fresh, len |-> sl.len + 1])

------------------------------------------------------------------------------
\* removeSubscriber, called by the deferred call of StreamMessages and by the
\* goroutines that a broadcast spawns

\* The call returns: the handler ends, or the spawned goroutine does.
RemoveReturns(s, spawned) ==
  pc' = IF spawned THEN pc ELSE [pc EXCEPT ![s] = "ended"]

RemoveLock(s, spawned) ==
  LET sl == reg[StreamKey[s]] IN
  /\ IF spawned THEN evict[s] > 0 ELSE pc[s] = "leaving"
  /\ CanLock
  /\ evict' = IF spawned THEN [evict EXCEPT ![s] = @ - 1] ELSE evict
  /\ \/ /\ sl = Nil
        /\ RemoveReturns(s, spawned)
        /\ UNCHANGED writer
     \/ /\ sl # Nil
        /\ writer' = Holding("close", s, spawned)
        /\ pc' = IF spawned THEN pc ELSE [pc EXCEPT ![s] = "removing"]
  /\ UNCHANGED <<reg, heap, closed, sent, live, messageVars, queue, cleaner,
                 expired, crashed>>

\* The loop over the slice stops at the first cell that holds the subscriber
\* and closes its channels; the cells after it are to move down.
RemoveClose ==
  LET s == writer.stream
      cells == Elements(writer.slice)
  IN
  /\ writer.at = "close"
  /\ s \notin closed
  /\ \E i \in 1 .. writer.slice.len :
       /\ cells[i] = s
       /\ \A j \in 1 .. i - 1 : cells[j] # s
       /\ writer' = [writer EXCEPT !.at = "shift", !.old = cells,
                                   !.moves = i .. writer.slice.len - 1]
  /\ closed' = closed \cup {s}
  /\ UNCHANGED <<reg, heap, streamVars, messageVars, queue, evict, cleaner,
                 expired, crashed>>

\* Mutant: the Unlock is not deferred, so the panic keeps the lock.
RemovePanicKeepsLock ==
  /\ writer.at = "close"
  /\ writer.stream \in ToSet(Elements(writer.slice)) \cap closed
  /\ writer' = [writer EXCEPT !.at = "none"]
  /\ RemoveReturns(writer.stream, writer.spawned)
  /\ crashed' = writer.spawned
  /\ UNCHANGED <<reg, heap, closed, sent, live, messageVars, queue, evict,
                 cleaner, expired>>

\* close of a closed channel: the deferred Unlock runs, the map keeps its old
\* value, and the panic is recovered only if the caller is an RPC handler.
RemovePanic ==
  LET s == writer.stream IN
  /\ writer.at = "close"
  /\ s \in ToSet(Elements(writer.slice))
  /\ s \in closed
  /\ writer' = NoWriter
  /\ RemoveReturns(s, writer.spawned)
  /\ crashed' = writer.spawned
  /\ UNCHANGED <<reg, heap, closed, sent, live, messageVars, queue, evict,
                 cleaner, expired>>

\* append(subs[:i], subs[i+1:]...) copies the cells after i down one place in
\* the shared array; nothing orders the writes for a goroutine that reads the
\* array without the lock.  The last cell keeps its value.
RemoveShift ==
  LET a == writer.slice.arr IN
  /\ writer.at = "shift"
  /\ \E j \in writer.moves :
       /\ heap' = [heap EXCEPT ![a] = [@ EXCEPT ![j] = writer.old[j + 1]]]
       /\ writer' = [writer EXCEPT !.moves = @ \ {j}]
  /\ UNCHANGED <<reg, closed, streamVars, messageVars, queue, evict, cleaner,
                 expired, crashed>>

\* Store, or Delete of an empty slice, and the deferred Unlock.
RemoveStores(sl) ==
  /\ reg' = [reg EXCEPT ![StreamKey[writer.stream]] = IF sl.len = 0 THEN Nil ELSE sl]
  /\ writer' = NoWriter
  /\ RemoveReturns(writer.stream, writer.spawned)
  /\ UNCHANGED <<heap, closed, sent, live, messageVars, queue, evict, cleaner,
                 expired, crashed>>

\* Mutant: the removed cell is cleared, as slices.Delete does.
RemoveStoreClearing ==
  LET sl == writer.slice IN
  /\ writer.at = "shift"
  /\ writer.moves = {}
  /\ heap' = [heap EXCEPT ![sl.arr] = [@ EXCEPT ![sl.len] = NoStream]]
  /\ reg' = [reg EXCEPT ![StreamKey[writer.stream]] =
               IF sl.len = 1 THEN Nil ELSE [sl EXCEPT !.len = @ - 1]]
  /\ writer' = NoWriter
  /\ RemoveReturns(writer.stream, writer.spawned)
  /\ UNCHANGED <<closed, sent, live, messageVars, queue, evict, cleaner, expired, crashed>>

\* Mutant: the shorter slice is not stored.
RemoveStoreOldSlice ==
  /\ writer.at = "shift"
  /\ writer.moves = {}
  /\ RemoveStores(writer.slice)

RemoveStore ==
  /\ writer.at = "shift"
  /\ writer.moves = {}
  /\ RemoveStores([writer.slice EXCEPT !.len = @ - 1])

\* The subscriber is not in the slice: it is stored as it was loaded.
RemoveMissing ==
  /\ writer.at = "close"
  /\ writer.stream \notin ToSet(Elements(writer.slice))
  /\ RemoveStores(writer.slice)

------------------------------------------------------------------------------
\* CreateMessage

\* Mutant: the error of the insert is not checked.
InsertUnchecked(m) ==
  /\ mpc[m] = "start"
  /\ mpc' = [mpc EXCEPT ![m] = "stored"]
  /\ \/ stored' = stored \cup {m}
     \/ UNCHANGED stored
  /\ UNCHANGED <<hubVars, streamVars, todo, queue, evict, cleaner, expired, crashed>>

\* The insert commits; or CreateMessage returns an error because it failed, or
\* because the connection or the call's context ended before the committed row
\* was read ("unsent": the message is in the history and nobody broadcasts it).
Insert(m) ==
  /\ mpc[m] = "start"
  /\ \/ /\ stored' = stored \cup {m}
        /\ \E after \in {"stored", "unsent"} : mpc' = [mpc EXCEPT ![m] = after]
     \/ /\ mpc' = [mpc EXCEPT ![m] = "failed"]
        /\ UNCHANGED stored
  /\ UNCHANGED <<hubVars, streamVars, todo, queue, evict, cleaner, expired, crashed>>

\* broadcastMessage takes the read lock and loads the slice.  No writer can
\* run until it is released and the cleanup writes to new arrays only, so
\* the elements are fixed here.
BroadcastLock(m) ==
  /\ mpc[m] = "stored"
  /\ CanRLock
  /\ mpc' = [mpc EXCEPT ![m] = "broadcasting"]
  /\ todo' = [todo EXCEPT ![m] = Elements(reg[MessageKey[m]])]
  /\ UNCHANGED <<hubVars, streamVars, stored, queue, evict, cleaner, expired, crashed>>

\* Mutant: a subscriber whose buffer is full is skipped and kept.
BroadcastSendNoEviction(m) ==
  LET s == Head(todo[m]) IN
  /\ mpc[m] = "broadcasting"
  /\ todo[m] # <<>>
  /\ s \notin closed
  /\ todo' = [todo EXCEPT ![m] = Tail(@)]
  /\ queue' = IF Len(queue[s]) < QueueCap THEN [queue EXCEPT ![s] = Append(@, m)] ELSE queue
  /\ UNCHANGED <<hubVars, streamVars, mpc, stored, evict, cleaner, expired, crashed>>

\* Mutant: the buffer takes one message more.
BroadcastSendOver(m) ==
  LET s == Head(todo[m]) IN
  /\ mpc[m] = "broadcasting"
  /\ todo[m] # <<>>
  /\ s \notin closed
  /\ todo' = [todo EXCEPT ![m] = Tail(@)]
  /\ Len(queue[s]) <= QueueCap
  /\ queue' = [queue EXCEPT ![s] = Append(@, m)]
  /\ UNCHANGED <<hubVars, streamVars, mpc, stored, evict, cleaner, expired, crashed>>

\* Mutant: a send may be repeated.
BroadcastSendAgain(m) ==
  LET s == Head(todo[m]) IN
  /\ mpc[m] = "broadcasting"
  /\ todo[m] # <<>>
  /\ s \notin closed
  /\ \/ /\ Len(queue[s]) < QueueCap
        /\ queue' = [queue EXCEPT ![s] = Append(@, m)]
        /\ todo' \in {todo, [todo EXCEPT ![m] = Tail(@)]}
        /\ UNCHANGED evict
     \/ /\ Len(queue[s]) = QueueCap
        /\ todo' = [todo EXCEPT ![m] = Tail(@)]
        /\ evict' = [evict EXCEPT ![s] = @ + 1]
        /\ UNCHANGED queue
  /\ UNCHANGED <<hubVars, streamVars, mpc, stored, cleaner, expired, crashed>>

BroadcastSend(m) ==
  LET s == Head(todo[m]) IN
  /\ mpc[m] = "broadcasting"
  /\ todo[m] # <<>>
  /\ s \notin closed
  /\ todo' = [todo EXCEPT ![m] = Tail(@)]
  /\ \/ /\ Len(queue[s]) < QueueCap
        /\ queue' = [queue EXCEPT ![s] = Append(@, m)]
        /\ UNCHANGED evict
     \/ /\ Len(queue[s]) = QueueCap      \* go s.removeSubscriber(...)
        /\ evict' = [evict EXCEPT ![s] = @ + 1]
        /\ UNCHANGED queue
  /\ UNCHANGED <<hubVars, streamVars, mpc, stored, cleaner, expired, crashed>>

\* Mutant: the RUnlock is not deferred, so the panic keeps the read lock.
BroadcastPanicKeepsLock(m) ==
  /\ mpc[m] = "broadcasting"
  /\ todo[m] # <<>>
  /\ Head(todo[m]) \in closed
  /\ UNCHANGED vars

\* send on a closed channel: the deferred RUnlock runs, the subscribers that
\* are left get nothing, and the recovered call answers Internal.
BroadcastPanic(m) ==
  /\ mpc[m] = "broadcasting"
  /\ todo[m] # <<>>
  /\ Head(todo[m]) \in closed
  /\ mpc' = [mpc EXCEPT ![m] = "failed"]
  /\ todo' = [todo EXCEPT ![m] = <<>>]
  /\ UNCHANGED <<hubVars, streamVars, stored, queue, evict, cleaner, expired, crashed>>

BroadcastUnlock(m) ==
  /\ mpc[m] = "broadcasting"
  /\ todo[m] = <<>>
  /\ mpc' = [mpc EXCEPT ![m] = "acked"]
  /\ UNCHANGED <<hubVars, streamVars, todo, stored, queue, evict, cleaner, expired, crashed>>

------------------------------------------------------------------------------
\* StreamMessages

\* Mutant: GetEventMessages without WHERE event_id = $1.
ReplayAll(s) ==
  /\ pc[s] = "query"
  /\ sent' = [sent EXCEPT ![s] = stored]
  /\ pc' = [pc EXCEPT ![s] = "live"]
  /\ UNCHANGED <<hubVars, live, messageVars, queue, evict, cleaner, expired, crashed>>

\* GetEventMessages and the Sends of what it returned.  No other goroutine can
\* tell the Sends from the query, so they are one step; a Send that fails is
\* ClientCancel, one that never returns is a Replay never taken.  What the
\* deletion of an event or of an author would take from the history before the
\* query, by the cascades of Store, is still in it here.
Replay(s) ==
  /\ pc[s] = "query"
  /\ sent' = [sent EXCEPT ![s] = {m \in stored : MessageKey[m] = Canon[StreamKey[s]]}]
  /\ pc' = [pc EXCEPT ![s] = "live"]
  /\ UNCHANGED <<hubVars, live, messageVars, queue, evict, cleaner, expired, crashed>>

\* case msg := <-sub.messages, and the call of stream.Send, which blocks while
\* the client does not read.
Deliver(s, m) ==
  /\ sent' = [sent EXCEPT ![s] = @ \cup {m}]
  /\ live' = IF m = NoMessage THEN live ELSE [live EXCEPT ![s] = Append(@, m)]
  /\ pc' = [pc EXCEPT ![s] = "sending"]
  /\ UNCHANGED <<hubVars, messageVars, evict, cleaner, expired, crashed>>

\* A buffered message is received even after the channel was closed.
Forward(s) ==
  /\ pc[s] = "live"
  /\ queue[s] # <<>>
  /\ queue' = [queue EXCEPT ![s] = Tail(@)]
  /\ Deliver(s, Head(queue[s]))

\* A closed and drained channel yields nil, which is sent as an empty message.
ForwardNil(s) ==
  /\ pc[s] = "live"
  /\ s \in closed
  /\ queue[s] = <<>>
  /\ UNCHANGED queue
  /\ Deliver(s, NoMessage)

\* The Send comes back, without an error or with one.  It need not: the service
\* sets no deadline, and a client that stays connected without reading keeps it.
SendReturns(s) ==
  /\ pc[s] = "sending"
  /\ \/ pc' = [pc EXCEPT ![s] = "live"]
     \/ pc' = [pc EXCEPT ![s] = "leaving"]
  /\ UNCHANGED <<hubVars, sent, live, messageVars, queue, evict, cleaner, expired, crashed>>

\* Mutant: the select has no case for sub.done.
ServerCancelMissing(s) == pc[s] = "live" /\ s \in closed /\ UNCHANGED vars

\* case <-sub.done
ServerCancel(s) ==
  /\ pc[s] = "live"
  /\ s \in closed
  /\ pc' = [pc EXCEPT ![s] = "leaving"]
  /\ UNCHANGED <<hubVars, sent, live, messageVars, queue, evict, cleaner, expired, crashed>>

\* case <-stream.Context().Done(), or the query or a Send of the history fails.
ClientCancel(s) ==
  /\ pc[s] \in {"query", "live"}
  /\ pc' = [pc EXCEPT ![s] = "leaving"]
  /\ UNCHANGED <<hubVars, sent, live, messageVars, queue, evict, cleaner, expired, crashed>>

------------------------------------------------------------------------------
\* cleanupInactiveSubscribers: no action of it looks at writer or Readers

\* The ticker fires: now is read once, which fixes who is ten minutes old for
\* the whole pass, and Range starts.
Tick ==
  /\ cleaner.at = "idle"
  /\ cleaner' = [cleaner EXCEPT !.at = "range", !.left = {k \in Keys : reg[k] # Nil}]
  /\ \E aged \in SUBSET {s \in Streams : pc[s] # "start"} : expired' = expired \cup aged
  /\ UNCHANGED <<hubVars, streamVars, messageVars, queue, evict, crashed>>

\* Range loads the value of the next key, if it is still there.
Visit(k) ==
  /\ cleaner.at = "range"
  /\ k \in cleaner.left
  /\ cleaner' = IF reg[k] = Nil
                THEN [cleaner EXCEPT !.left = @ \ {k}]
                ELSE [cleaner EXCEPT !.at = "scan", !.left = @ \ {k}, !.key = k,
                                     !.slice = reg[k]]
  /\ UNCHANGED <<hubVars, streamVars, messageVars, queue, evict, expired, crashed>>

Scanned == heap[cleaner.slice.arr][cleaner.idx]

\* Mutant: a young subscriber is passed over.
ScanKeepMissing ==
  /\ cleaner.at = "scan"
  /\ cleaner.idx <= cleaner.slice.len
  /\ Scanned \notin expired
  /\ cleaner' = [cleaner EXCEPT !.idx = @ + 1]
  /\ UNCHANGED <<hubVars, streamVars, messageVars, queue, evict, expired, crashed>>

\* A young subscriber is kept: append to activeSubscribers.
ScanKeep ==
  /\ cleaner.at = "scan"
  /\ cleaner.idx <= cleaner.slice.len
  /\ Scanned \notin expired
  /\ cleaner' = [cleaner EXCEPT
       !.idx = @ + 1,
       !.active = Append(@, Scanned),
       !.cap = IF Len(cleaner.active) < @ THEN @ ELSE Grow(@)]
  /\ UNCHANGED <<hubVars, streamVars, messageVars, queue, evict, expired, crashed>>

\* Mutant: an old subscriber is dropped, but its channels are not closed.
ScanCloseMissing ==
  /\ cleaner.at = "scan"
  /\ cleaner.idx <= cleaner.slice.len
  /\ Scanned \in expired \ closed
  /\ cleaner' = [cleaner EXCEPT !.idx = @ + 1]
  /\ UNCHANGED <<hubVars, streamVars, messageVars, queue, evict, expired, crashed>>

ScanClose ==
  /\ cleaner.at = "scan"
  /\ cleaner.idx <= cleaner.slice.len
  /\ Scanned \in expired \ closed
  /\ closed' = closed \cup {Scanned}
  /\ cleaner' = [cleaner EXCEPT !.idx = @ + 1]
  /\ UNCHANGED <<reg, heap, writer, streamVars, messageVars, queue, evict,
                 expired, crashed>>

\* close of a closed channel in a goroutine nobody recovers.
ScanPanic ==
  /\ cleaner.at = "scan"
  /\ cleaner.idx <= cleaner.slice.len
  /\ Scanned \in expired \cap closed
  /\ crashed' = TRUE
  /\ UNCHANGED <<hubVars, streamVars, messageVars, queue, evict, cleaner, expired>>

EndVisit ==
  cleaner' = [NoScan EXCEPT !.at = "range", !.left = cleaner.left]

\* Mutant: nothing is stored when no subscriber is left.
ScanDeleteMissing ==
  /\ cleaner.at = "scan"
  /\ cleaner.idx > cleaner.slice.len
  /\ cleaner.active = <<>>
  /\ EndVisit
  /\ UNCHANGED <<hubVars, streamVars, messageVars, queue, evict, expired, crashed>>

ScanDelete ==
  /\ cleaner.at = "scan"
  /\ cleaner.idx > cleaner.slice.len
  /\ cleaner.active = <<>>
  /\ reg' = [reg EXCEPT ![cleaner.key] = Nil]
  /\ EndVisit
  /\ UNCHANGED <<heap, writer, closed, streamVars, messageVars, queue, evict,
                 expired, crashed>>

ScanStore ==
  /\ cleaner.at = "scan"
  /\ cleaner.idx > cleaner.slice.len
  /\ cleaner.active # <<>>
  /\ FreeArrays # {}
  /\ heap' = Allocated(Padded(cleaner.active, cleaner.cap))
  /\ reg' = [reg EXCEPT ![cleaner.key] = [arr |-> Fresh, len |-> Len(cleaner.active)]]
  /\ EndVisit
  /\ UNCHANGED <<writer, closed, streamVars, messageVars, queue, evict, expired, crashed>>

EndPass ==
  /\ cleaner.at = "range"
  /\ cleaner.left = {}
  /\ cleaner' = NoScan
  /\ UNCHANGED <<hubVars, streamVars, messageVars, queue, evict, expired, crashed>>

------------------------------------------------------------------------------
AddSubscriber == (\E s \in Streams : AddLock(s)) \/ AppendInPlace \/ AppendGrow

RemoveBody ==
  RemoveClose \/ RemovePanic \/ RemoveShift \/ RemoveStore \/ RemoveMissing

RemoveSubscriber ==
  (\E s \in Streams, spawned \in BOOLEAN : RemoveLock(s, spawned)) \/ RemoveBody

BroadcastStep(m) ==
  BroadcastLock(m) \/ BroadcastSend(m) \/ BroadcastPanic(m) \/ BroadcastUnlock(m)

CreateMessage(m) == Insert(m) \/ BroadcastStep(m)

StreamLoop(s) ==
  \/ Replay(s) \/ Forward(s) \/ ForwardNil(s) \/ SendReturns(s)
  \/ ServerCancel(s) \/ ClientCancel(s)

CleanupVisit == ScanKeep \/ ScanClose \/ ScanPanic \/ ScanDelete \/ ScanStore

Cleanup == Tick \/ (\E k \in Keys : Visit(k)) \/ CleanupVisit \/ EndPass

Next ==
  /\ ~crashed
  /\ \/ AddSubscriber
     \/ RemoveSubscriber
     \/ \E m \in Messages : CreateMessage(m)
     \/ \E s \in Streams : StreamLoop(s)
     \/ Cleanup

Spec == Init /\ [][Next]_vars

\* A visit of the cleanup runs while a call holds s.mu for the same key.
Overlap ==
  /\ cleaner.at = "scan"
  /\ \/ writer # NoWriter /\ StreamKey[writer.stream] = cleaner.key
     \/ \E m \in Readers : MessageKey[m] = cleaner.key

\* The executions in which that never happens, which are the ones the service
\* would have if the cleanup took s.mu for each key it visits.
SerialNext == Next /\ ~Overlap'

SerialSpec == Init /\ [][SerialNext]_vars

\* A goroutine that can run runs; s.mu lets every waiting call in; a select
\* with a ready case sub.done, choosing at random, takes it in the end; the
\* ticker ticks, and every open stream reaches its ten minutes.  The history
\* query and the Sends may stay away for ever.
HandlerFairness ==
  /\ WF_vars(~crashed /\ (AppendInPlace \/ AppendGrow))
  /\ WF_vars(~crashed /\ RemoveBody)
  /\ \A s \in Streams :
       SF_vars(~crashed /\ ServerCancel(s))
  /\ \A m \in Messages :
       WF_vars(~crashed /\ (BroadcastSend(m) \/ BroadcastPanic(m) \/ BroadcastUnlock(m)))

FairSpec ==
  /\ Spec
  /\ HandlerFairness
  /\ \A s \in Streams, spawned \in BOOLEAN : SF_vars(~crashed /\ RemoveLock(s, spawned))
  /\ \A m \in Messages : SF_vars(~crashed /\ BroadcastLock(m))

FairSerialSpec ==
  /\ SerialSpec
  /\ HandlerFairness
  /\ \A s \in Streams, spawned \in BOOLEAN :
       SF_vars(~crashed /\ RemoveLock(s, spawned) /\ ~Overlap')
  /\ \A m \in Messages : SF_vars(~crashed /\ BroadcastLock(m) /\ ~Overlap')
  /\ \A k \in Keys : SF_vars(~crashed /\ Visit(k) /\ ~Overlap')
  /\ WF_vars(~crashed /\ (CleanupVisit \/ EndPass))
  /\ \A s \in Streams : SF_vars(~crashed /\ Tick /\ s \in expired')

------------------------------------------------------------------------------
\* Properties

WriterAt == {"none", "append", "close", "shift"}

SliceTypes ==
  /\ reg \in [Keys -> Slices]
  /\ heap \in [0 .. MaxArrays -> Seq(Streams \cup {NoStream})]
  /\ writer \in [at : WriterAt, stream : Streams \cup {NoStream},
                 spawned : BOOLEAN, slice : Slices,
                 old : Seq(Streams), moves : SUBSET (Nat \ {0})]
  /\ cleaner \in [at : {"idle", "range", "scan"}, left : SUBSET Keys, key : Keys,
                  slice : Slices, idx : Nat \ {0}, active : Seq(Streams), cap : Nat]

HandlerTypes ==
  /\ pc \in [Streams -> {"start", "adding", "query", "live", "sending", "leaving",
                        "removing", "ended"}]
  /\ queue \in [Streams -> Seq(Messages)]
  /\ \A s \in Streams : Len(queue[s]) <= QueueCap
  /\ closed \in SUBSET Streams
  /\ sent \in [Streams -> SUBSET (Messages \cup {NoMessage})]
  /\ live \in [Streams -> Seq(Messages)]
  /\ evict \in [Streams -> Nat]
  /\ mpc \in [Messages -> {"start", "stored", "unsent", "broadcasting", "acked",
                          "failed"}]
  /\ todo \in [Messages -> Seq(Streams)]
  /\ stored \in SUBSET Messages
  /\ expired \in SUBSET Streams
  /\ crashed \in BOOLEAN

\* The types of the variables; no buffer holds more than its capacity.
TypeOK == SliceTypes /\ HandlerTypes

\* A header is sound in a heap when its elements are cells of its array, and
\* each of them holds a subscriber.
SoundIn(h, sl) ==
  /\ sl.len <= Len(h[sl.arr])
  /\ \A i \in 1 .. sl.len : h[sl.arr][i] # NoStream

\* No header ever reaches past its array or to a cell without a subscriber,
\* the header of the unlocked cleanup included, although a removal shifts the
\* cells of the array under it (an index or nil-pointer panic otherwise).
SlicesSound ==
  /\ \A k \in Keys : SoundIn(heap, reg[k])
  /\ SoundIn(heap, writer.slice)
  /\ SoundIn(heap, cleaner.slice)

Registered(s) == s \in ToSet(Elements(reg[StreamKey[s]]))

\* A goroutine that will remove the slow subscriber s exists.
Evicting(s) == evict[s] > 0 \/ (writer.stream = s /\ writer.spawned)

\* What the client of stream s has or will still be sent.
Held(s) == ToSet(queue[s]) \cup sent[s]

\* No gap between the history and the live messages: a stream that has read
\* the history, is open, registered under its event's id and not about to be
\* evicted has or will be sent every message of its event that CreateMessage
\* acknowledged, wherever the call fell between the subscription, the query
\* and the clean-up.
NoGap ==
  \A s \in Streams, m \in Messages :
    (/\ pc[s] \in {"live", "sending"}
     /\ Registered(s)
     /\ s \notin closed
     /\ ~Evicting(s)
     /\ mpc[m] = "acked"
     /\ MessageKey[m] = StreamKey[s])
    => m \in Held(s)

\* What a client is sent, or is queued to it, are messages of the event it
\* asked for that were committed before; an empty message only after the
\* server closed the subscription.  No broadcast runs ahead of its insert.
OnlyStored ==
  \A s \in Streams :
    /\ \A m \in Held(s) \ {NoMessage} :
         m \in stored /\ MessageKey[m] = Canon[StreamKey[s]]
    /\ NoMessage \in sent[s] => s \in closed
------------------------------------------------------------------------------
\* Properties of the serial executions

\* Between addSubscriber's return and removeSubscriber's effect.
Subscribed == {s \in Streams : pc[s] \in {"query", "live", "sending", "leaving"}}

\* While no call changes the slice of a key, the registry holds each open
\* subscriber of the key exactly once and nothing else: adds, removals by the
\* handler, evictions by a broadcast and the cleanup never lose, repeat or
\* resurrect an entry.
RegistryExact ==
  \A k \in Keys :
    (writer = NoWriter /\ ~(cleaner.at = "scan" /\ cleaner.key = k))
    => /\ IsInjective(Elements(reg[k]))
       /\ ToSet(Elements(reg[k])) = {s \in Subscribed \ closed : StreamKey[s] = k}

\* No channel is closed twice in an unrecovered goroutine and no broadcast
\* meets a closed channel, so that no call fails after it read its committed row.
NoPanic == ~crashed /\ \A m \in stored : mpc[m] # "failed"

\* A live stream that misses an acknowledged message of its event was cut off,
\* or will be: nobody keeps reading a stream with a hole in it.
NoSilentLoss ==
  \A s \in Streams, m \in Messages :
    (/\ pc[s] \in {"live", "sending"}
     /\ mpc[m] = "acked"
     /\ MessageKey[m] = StreamKey[s]
     /\ m \notin Held(s))
    => s \in closed \/ Evicting(s)

\* No live message comes twice on a stream: a broadcast meets each subscriber of
\* its key once, whatever the removals, evictions and clean-ups before it did to
\* the slice, and a handler forwards what it takes from its buffer once.
LiveOnce == \A s \in Streams : IsInjective(live[s] \o queue[s])

\* The promise of ChatFeed.  A client is cut off as soon as its subscription is
\* closed or a goroutine is on its way to close it.
Client(s) ==
  CASE pc[s] \in {"start", "adding"} -> "away"
    [] pc[s] = "query" -> "joined"
    [] pc[s] \in {"live", "sending"} /\ s \notin closed /\ ~Evicting(s) -> "reading"
    [] OTHER -> "cut"

Call(m) ==
  CASE mpc[m] = "start" -> "new"
    [] mpc[m] \in {"stored", "broadcasting"} -> "pending"
    [] mpc[m] = "acked" -> "acked"
    [] OTHER -> "failed"

Feed == INSTANCE ChatFeed WITH
          StreamEvent <- [s \in Streams |-> Canon[StreamKey[s]]],
          MessageEvent <- MessageKey,
          saved <- stored,
          call <- [m \in Messages |-> Call(m)],
          client <- [s \in Streams |-> Client(s)],
          got <- [s \in Streams |-> Held(s) \ {NoMessage}],
          feed <- [s \in Streams |-> live[s] \o queue[s]]

\* Without the overlap the hub implements ChatFeed: an acknowledged message has
\* reached every client that reads, or that client is cut off; live messages
\* come once each, and in the order of calls that did not overlap.
ImplementsFeed == Feed!Spec

------------------------------------------------------------------------------
\* Liveness

\* A handler that leaves its loop does end: the deferred removal always gets
\* the lock, whichever broadcasts, panics and evictions compete for it.
LeavingEnds ==
  \A s \in Streams : (pc[s] = "leaving") ~> (pc[s] = "ended" \/ crashed)

\* The handler waits for the history query or for a stream.Send.
Blocked(s) == pc[s] \in {"query", "sending"}

\* Whoever closes a subscription, its handler ends, or it is from some moment on
\* in one call of the query or of stream.Send that never returns (a client that
\* stays connected and does not read has it there for good).  Nothing else can
\* keep it: not the empty messages a closed channel yields without end, and no
\* fight for s.mu.
ClosedEnds ==
  \A s \in Streams : (s \in closed) ~> (pc[s] = "ended" \/ crashed \/ [](Blocked(s)))

\* A call whose message was committed is answered.
CreateAnswers ==
  \A m \in Messages : (mpc[m] = "stored") ~> (mpc[m] \in {"acked", "failed"} \/ crashed)

\* In the serial executions no stream escapes its ten minutes: the cleanup finds
\* each registered subscriber once it is old, and closes it whether its client
\* reads or not.  A stream whose handler is in its loop or in a Send has ended,
\* or is closed and in a Send that never returns.
StreamsEnd ==
  \A s \in Streams :
    (pc[s] \in {"live", "sending"}) ~> (pc[s] = "ended" \/ (s \in closed /\ [](Blocked(s))))

------------------------------------------------------------------------------
\* What the code says of itself and the overlap of the cleanup refutes

\* A panic is answered with an Internal error (the recovery handler of
\* main.go) and the server lives on.
NoCrash == ~crashed

\* Only subscribers older than ten minutes are removed by the cleanup: an open
\* stream that is younger, and not slow, is in the registry (the comment of
\* cleanupInactiveSubscribers).  It holds in the serial executions.
YoungRegistered ==
  \A s \in Streams :
    (/\ pc[s] \in {"live", "sending"}
     /\ s \notin expired \cup closed
     /\ ~Evicting(s)
     /\ writer = NoWriter)
    => Registered(s)
==============================================================================
