------------------------ MODULE ChatHubSerial_proof ------------------------
(***************************************************************************)
(* Theorems about the serial executions of ChatHub, those in which no      *)
(* visit of the cleanup overlaps a call that holds s.mu for the same key:  *)
(* the registry is exact, nothing panics, and no stream is read on with a  *)
(* hole in it.                                                             *)
(*                                                                         *)
(* At any time the subscribers of a key are known in one place: in the     *)
(* slice of the key, or, while a removal moves its cells, in the copy that *)
(* the removal read, or, while the cleanup visits the key, in what it has  *)
(* collected and has not read yet.  The inductive invariant is that this   *)
(* place holds the open subscribers of the key, each once.  A channel is   *)
(* closed only for a subscriber found there, hence never twice.            *)
(***************************************************************************)
EXTENDS ChatHubGap_proof

DistinctTo(q, n) == \A i, j \in 1 .. n : q[i] = q[j] => i = j

Distinct(q) == DistinctTo(q, Len(q))

DistinctIn(h, sl) == DistinctTo(h[sl.arr], sl.len)

\* The handler of s has registered it, and has not found it in the slice to
\* remove it.
Member(s) ==
  s \in Subscribed \/ (writer.at = "close" /\ writer.stream = s /\ ~writer.spawned)

Open(s) == Member(s) /\ s \notin closed

\* The slice of the key holds its open subscribers, each once.
RowExact(k) ==
  /\ DistinctIn(heap, reg[k])
  /\ \A s \in Streams : StreamKey[s] = k => (InHeader(heap, reg[k], s) <=> Open(s))

\* Nobody is about to replace the slice of the key by another.
AtRest(k) ==
  /\ ~(writer.at = "shift" /\ StreamKey[writer.stream] = k)
  /\ ~(cleaner.at = "scan" /\ cleaner.key = k)

RestExact == \A k \in Keys : AtRest(k) => RowExact(k)

ShiftExact ==
  writer.at = "shift" =>
    /\ Distinct(writer.old)
    /\ \A s \in Streams : StreamKey[s] = StreamKey[writer.stream] =>
         (InSeq(writer.old, s) <=> Open(s) \/ s = writer.stream)

ScanExact ==
  cleaner.at = "scan" =>
    /\ Distinct(cleaner.active)
    /\ \A i, j \in cleaner.idx .. cleaner.slice.len :
         heap[cleaner.slice.arr][i] = heap[cleaner.slice.arr][j] => i = j
    /\ \A i \in cleaner.idx .. cleaner.slice.len :
         ~InSeq(cleaner.active, heap[cleaner.slice.arr][i])
    /\ \A s \in Streams : StreamKey[s] = cleaner.key => (InHand(s) <=> Open(s))

Exact == RestExact /\ ShiftExact /\ ScanExact

\* Where the handler of the writer's subscriber stands, and the cleanup.
Places ==
  /\ writer.at # "none" => writer.slice = reg[StreamKey[writer.stream]]
  /\ writer.at = "append" => pc[writer.stream] = "adding"
  /\ writer.at \in {"close", "shift"} /\ ~writer.spawned => pc[writer.stream] = "removing"
  /\ \A s \in closed : pc[s] \notin {"start", "adding"}
  /\ cleaner.at = "scan" => reg[cleaner.key] # Nil
  /\ cleaner.at # "scan" => cleaner.idx = 1

\* A broadcast has open subscribers to reach, and no call has failed after its
\* insert.
Broadcasts ==
  /\ writer.at # "none" => Readers = {}
  /\ \A m \in Readers : \A s \in closed : ~InSeq(todo[m], s)
  /\ \A m \in Messages : mpc[m] \in {"start", "failed"} => m \notin stored

SerialInv == Exact /\ Places /\ Broadcasts /\ ~Overlap /\ ~crashed

SerialContext == Context /\ SetInv /\ SerialInv

------------------------------------------------------------------------------
\* What a step that leaves a place alone keeps

LEMMA RowStays ==
  ASSUME NEW k \in Keys, RowExact(k), reg'[k] = reg[k],
         \A i \in 1 .. reg[k].len : heap'[reg[k].arr][i] = heap[reg[k].arr][i],
         \A s \in Streams : StreamKey[s] = k => (Open(s)' <=> Open(s))
  PROVE  RowExact(k)'
BY DEF RowExact, DistinctIn, DistinctTo, InHeader

LEMMA ShiftStays ==
  ASSUME ShiftExact, writer'.at = writer.at, writer'.old = writer.old,
         writer'.stream = writer.stream,
         \A s \in Streams :
           StreamKey[s] = StreamKey[writer.stream] => (Open(s)' <=> Open(s))
  PROVE  ShiftExact'
BY DEF ShiftExact, Distinct, InSeq

LEMMA ScanStays ==
  ASSUME ScanExact, UNCHANGED cleaner,
         \A i \in cleaner.idx .. cleaner.slice.len :
           heap'[cleaner.slice.arr][i] = heap[cleaner.slice.arr][i],
         \A s \in Streams : StreamKey[s] = cleaner.key => (Open(s)' <=> Open(s))
  PROVE  ScanExact'
BY DEF ScanExact, Distinct, InSeq, InHand, Unread

\* The steps of the handlers, the broadcasts and the locks.
LEMMA HubStays ==
  ASSUME Exact, UNCHANGED <<reg, heap, cleaner>>,
         writer.at # "shift", writer'.at # "shift",
         \A s \in Streams : Open(s)' <=> Open(s)
  PROVE  Exact'
<1>1. ASSUME NEW k \in Keys, AtRest(k)' PROVE RowExact(k)'
  <2>1. AtRest(k)
    BY <1>1 DEF AtRest
  <2> QED
    BY <2>1, RowStays DEF Exact, RestExact
<1>2. ScanExact'
  BY ScanStays DEF Exact
<1> QED
  BY <1>1, <1>2 DEF Exact, RestExact, ShiftExact

\* In a serial execution the cleanup is at another key than the calls.
LEMMA Alone ==
  ASSUME ~Overlap, cleaner.at = "scan"
  PROVE  /\ writer.at # "none" => StreamKey[writer.stream] # cleaner.key
         /\ \A m \in Readers : MessageKey[m] # cleaner.key
BY DEF Overlap, NoWriter

\* The call that holds s.mu works on the slice of its key, which is exact
\* until the removal begins to move the cells.
LEMMA WriterRow ==
  ASSUME SerialContext, writer.at \in {"append", "close"}
  PROVE  /\ writer.stream \in Streams /\ StreamKey[writer.stream] \in Keys
         /\ writer.slice = reg[StreamKey[writer.stream]]
         /\ RowExact(StreamKey[writer.stream])
         /\ \A s \in Streams : StreamKey[s] = StreamKey[writer.stream] =>
              (InHeader(heap, writer.slice, s) <=> Open(s))
<1>1. writer.stream \in Streams /\ StreamKey[writer.stream] \in Keys
  BY HubAssumption DEF SerialContext, Context, SliceInv, WriterSane
<1>2. writer.slice = reg[StreamKey[writer.stream]]
  BY DEF SerialContext, SerialInv, Places
<1>3. AtRest(StreamKey[writer.stream])
  BY Alone DEF SerialContext, SerialInv, AtRest
<1> QED
  BY <1>1, <1>2, <1>3 DEF SerialContext, SerialInv, Exact, RestExact, RowExact

\* The cell that the cleanup looks at holds an open subscriber of its key.
LEMMA ScannedOpen ==
  ASSUME SerialContext, cleaner.at = "scan", cleaner.idx <= cleaner.slice.len
  PROVE  /\ Scanned \in Streams /\ StreamKey[Scanned] = cleaner.key
         /\ cleaner.idx \in cleaner.idx .. cleaner.slice.len
         /\ Open(Scanned)
<1>1. /\ SliceInv /\ cleaner.slice \in Slices /\ SoundIn(heap, cleaner.slice)
      /\ cleaner.idx \in Nat \ {0} /\ cleaner.slice.len \in Nat /\ cleaner.key \in Keys
  BY HeadersTyped DEF SerialContext, Context, SliceInv, SliceTypes
<1>2. Scanned \in Streams
  BY <1>1, ScannedStream
<1>3. cleaner.idx \in 1 .. cleaner.slice.len
  BY <1>1
<1>4. PICK owner \in Owners : Owned(owner)
  BY DEF SerialContext, Context, KeyInv
<1>5. StreamKey[Scanned] = cleaner.key
  BY <1>1, <1>3, <1>4, HeaderKey DEF Owned, HeadersOwned, Scanned
<1>6. cleaner.idx \in cleaner.idx .. cleaner.slice.len
  BY <1>1
<1>7. InHand(Scanned)
  BY <1>5, <1>6 DEF InHand, Unread, Scanned
<1> QED
  BY <1>2, <1>5, <1>6, <1>7 DEF SerialContext, SerialInv, Exact, ScanExact

------------------------------------------------------------------------------
\* addSubscriber

Stands == {"start", "adding", "query", "live", "sending", "leaving", "removing", "ended"}

LEMMA SerialTypes ==
  ASSUME SerialContext
  PROVE  /\ SliceInv /\ Exact /\ Places /\ Broadcasts /\ SetInv
         /\ writer \in Writers /\ cleaner \in Cleaners /\ pc \in [Streams -> Stands]
         /\ mpc \in [Messages -> {"start", "stored", "unsent", "broadcasting", "acked",
                                  "failed"}]
         /\ todo \in [Messages -> Seq(Streams)]
         /\ closed \subseteq Streams
BY HeadersTyped DEF SerialContext, SerialInv, Context, HandlerTypes, Stands

LEMMA SerialAddLock ==
  ASSUME SerialContext, NEW t \in Streams, AddLock(t)
  PROVE  Exact' /\ Places' /\ Broadcasts'
<1>1. /\ pc[t] = "start" /\ pc' = [pc EXCEPT ![t] = "adding"]
      /\ writer = NoWriter /\ Readers = {} /\ writer' = Holding("append", t, FALSE)
      /\ UNCHANGED <<reg, heap, cleaner, closed, mpc, todo, stored>>
  BY DEF AddLock, CanLock, messageVars
<1>2. /\ writer.at = "none" /\ writer'.at = "append" /\ writer'.stream = t
      /\ writer'.slice = reg[StreamKey[t]]
  BY <1>1 DEF NoWriter, Holding
<1>3. \A s \in Streams : s # t => pc'[s] = pc[s]
  BY <1>1, SerialTypes
<1>4. pc'[t] = "adding"
  BY <1>1, SerialTypes
<1>5. \A s \in Streams : Open(s)' <=> Open(s)
  BY <1>1, <1>2, <1>3, <1>4 DEF Open, Member, Subscribed
<1>6. Exact'
  BY <1>1, <1>2, <1>5, HubStays, SerialTypes
<1>7. Places'
  <2>1. t \notin closed
    BY <1>1, SerialTypes DEF Places
  <2> QED
    BY <1>1, <1>2, <1>3, <1>4, <2>1, SerialTypes DEF Places
<1>8. Broadcasts'
  BY <1>1, <1>2, SerialTypes DEF Broadcasts, Readers, InSeq
<1> QED
  BY <1>6, <1>7, <1>8

\* The slice of the key gets one more cell, with the new subscriber.
LEMMA SerialAppend ==
  ASSUME SerialContext, AppendInPlace \/ AppendGrow
  PROVE  Exact' /\ Places' /\ Broadcasts'
<1>0. PICK t \in Streams : t = writer.stream
  BY WriterRow DEF AppendInPlace, AppendGrow
<1> DEFINE kt == StreamKey[t]
           sl == writer.slice
<1>1. /\ writer.at = "append" /\ writer' = NoWriter
      /\ UNCHANGED <<cleaner, closed, mpc, todo, stored>>
      /\ pc' = [pc EXCEPT ![t] = "query"]
  BY <1>0 DEF AppendInPlace, AppendGrow, AddReturns, messageVars
<1>2. /\ kt \in Keys /\ sl = reg[kt] /\ RowExact(kt)
      /\ sl.len \in Nat /\ SliceInv
  BY <1>0, <1>1, WriterRow, HeadersTyped DEF SerialContext, Context
<1>3. /\ reg'[kt].len = sl.len + 1
      /\ \A i \in 1 .. sl.len : heap'[reg'[kt].arr][i] = heap[sl.arr][i]
      /\ heap'[reg'[kt].arr][sl.len + 1] = t
      /\ \A k \in Keys : k # kt => reg'[k] = reg[k] /\ heap'[reg[k].arr] = heap[reg[k].arr]
      /\ cleaner.key # kt => \A i \in cleaner.idx .. cleaner.slice.len :
                               heap'[cleaner.slice.arr][i] = heap[cleaner.slice.arr][i]
  BY <1>0, AppendedCells DEF SerialContext
<1>4. pc[t] = "adding" /\ t \notin closed
  BY <1>0, <1>1, <1>2, SerialTypes DEF Places
<1>5. pc'[t] = "query" /\ \A s \in Streams : s # t => pc'[s] = pc[s]
  BY <1>1, <1>2, SerialTypes
<1> HIDE DEF kt, sl
<1>6. Open(t)' /\ ~Open(t) /\ \A s \in Streams : s # t => (Open(s)' <=> Open(s))
  BY <1>0, <1>1, <1>2, <1>4, <1>5 DEF Open, Member, Subscribed, NoWriter
<1>7. RowExact(kt)'
  <2>1. 1 .. sl.len + 1 = (1 .. sl.len) \cup {sl.len + 1} /\ sl.len + 1 \notin 1 .. sl.len
    BY <1>2
  <2>2. ~InHeader(heap, sl, t) /\ DistinctIn(heap, sl)
    BY <1>2, <1>6 DEF RowExact, kt
  <2>3. \A i \in 1 .. sl.len : heap[sl.arr][i] # t
    BY <2>2 DEF InHeader
  <2>4. DistinctIn(heap', reg'[kt])
    BY <1>3, <2>1, <2>2, <2>3 DEF DistinctIn, DistinctTo
  <2>5. \A s : InHeader(heap', reg'[kt], s) <=> InHeader(heap, sl, s) \/ s = t
    BY <1>3, <2>1 DEF InHeader
  <2> QED
    BY <1>2, <1>6, <2>4, <2>5 DEF RowExact, kt
<1>8. RestExact'
  <2> SUFFICES ASSUME NEW k \in Keys, AtRest(k)' PROVE RowExact(k)'
    BY DEF RestExact
  <2>1. CASE k = kt
    BY <1>7, <2>1
  <2>2. CASE k # kt
    <3>1. AtRest(k)
      BY <1>1 DEF AtRest
    <3>2. RowExact(k)
      BY <3>1, SerialTypes DEF Exact, RestExact
    <3> QED
      BY <1>3, <1>6, <2>2, <3>2, RowStays DEF kt
  <2> QED
    BY <2>1, <2>2
<1>9. ScanExact'
  <2>1. CASE cleaner.at = "scan"
    <3>1. cleaner.key # kt
      BY <1>0, <1>1, <2>1, Alone DEF SerialContext, SerialInv, kt
    <3> QED
      BY <1>1, <1>3, <1>6, <3>1, ScanStays, SerialTypes DEF Exact, kt
  <2>2. CASE cleaner.at # "scan"
    BY <1>1, <2>2 DEF ScanExact
  <2> QED
    BY <2>1, <2>2
<1>10. ShiftExact' /\ Broadcasts'
  BY <1>1, SerialTypes DEF ShiftExact, NoWriter, Broadcasts, Readers, InSeq
<1>11. Places'
  <2>1. cleaner.at = "scan" => cleaner.key \in Keys /\ cleaner.key # kt
    BY <1>0, <1>1, Alone, SerialTypes DEF SerialContext, SerialInv, kt, Cleaners
  <2> QED
    BY <1>1, <1>3, <1>5, <2>1, SerialTypes DEF Places, NoWriter
<1> QED
  BY <1>8, <1>9, <1>10, <1>11 DEF Exact

------------------------------------------------------------------------------
\* removeSubscriber

LEMMA SerialRemoveLock ==
  ASSUME SerialContext, NEW t \in Streams, NEW spawned \in BOOLEAN, RemoveLock(t, spawned)
  PROVE  Exact' /\ Places' /\ Broadcasts'
<1>1. /\ writer = NoWriter /\ Readers = {} /\ writer.at = "none"
      /\ UNCHANGED <<reg, heap, cleaner, closed, mpc, todo, stored>>
      /\ ~spawned => pc[t] = "leaving"
  BY DEF RemoveLock, CanLock, messageVars, NoWriter
<1>2. CASE reg[StreamKey[t]] = Nil /\ UNCHANGED writer /\ RemoveReturns(t, spawned)
  <2>1. pc' = IF spawned THEN pc ELSE [pc EXCEPT ![t] = "ended"]
    BY <1>2 DEF RemoveReturns
  <2>2. StreamKey[t] \in Keys /\ AtRest(StreamKey[t])
    BY <1>1, <1>2, SerialTypes, HubAssumption DEF AtRest, Places
  <2>3. ~Open(t)
    BY <1>2, <2>2, Empty, SerialTypes DEF Exact, RestExact, RowExact
  <2>4. \A s \in Streams : s # t => pc'[s] = pc[s]
    BY <2>1, SerialTypes
  <2>5. spawned \/ (pc'[t] = "ended" /\ pc[t] = "leaving")
    BY <1>1, <2>1, SerialTypes
  <2>6. \A s \in Streams : Open(s)' <=> Open(s)
    BY <1>1, <1>2, <2>1, <2>3, <2>4, <2>5 DEF Open, Member, Subscribed
  <2>7. Exact'
    BY <1>1, <1>2, <2>6, HubStays, SerialTypes
  <2>8. Places'
    BY <1>1, <1>2, <2>1, <2>4, <2>5, SerialTypes DEF Places
  <2>9. Broadcasts'
    BY <1>1, <1>2, SerialTypes DEF Broadcasts, Readers, InSeq
  <2> QED
    BY <2>7, <2>8, <2>9
<1>3. CASE /\ writer' = Holding("close", t, spawned)
           /\ pc' = IF spawned THEN pc ELSE [pc EXCEPT ![t] = "removing"]
  <2>1. /\ writer'.at = "close" /\ writer'.stream = t /\ writer'.spawned = spawned
        /\ writer'.slice = reg[StreamKey[t]]
    BY <1>3 DEF Holding
  <2>2. \A s \in Streams : s # t => pc'[s] = pc[s]
    BY <1>3, SerialTypes
  <2>3. IF spawned THEN pc' = pc ELSE pc'[t] = "removing" /\ pc[t] = "leaving"
    BY <1>1, <1>3, SerialTypes
  <2>4. \A s \in Streams : Open(s)' <=> Open(s)
    BY <1>1, <2>1, <2>2, <2>3 DEF Open, Member, Subscribed
  <2>5. Exact'
    BY <1>1, <2>1, <2>4, HubStays, SerialTypes
  <2>6. Places'
    BY <1>1, <2>1, <2>2, <2>3, SerialTypes DEF Places
  <2>7. Broadcasts'
    BY <1>1, <2>1, SerialTypes DEF Broadcasts, Readers, InSeq
  <2> QED
    BY <2>5, <2>6, <2>7
<1> QED
  BY <1>2, <1>3 DEF RemoveLock

\* The subscribers of the key are now known from the copy of its cells, the
\* closed one included.
LEMMA SerialRemoveClose ==
  ASSUME SerialContext, RemoveClose
  PROVE  Exact' /\ Places' /\ Broadcasts'
<1>1. PICK t \in Streams : t = writer.stream
  BY WriterRow DEF RemoveClose
<1> DEFINE kt == StreamKey[t]
           sl == writer.slice
           old == Elements(sl)
<1>2. /\ writer.at = "close" /\ closed' = closed \cup {t}
      /\ UNCHANGED <<reg, heap, cleaner, pc, mpc, todo, stored>>
  BY <1>1 DEF RemoveClose, streamVars, messageVars
<1>3. /\ kt \in Keys /\ sl = reg[kt] /\ RowExact(kt)
      /\ \A s \in Streams : StreamKey[s] = kt => (InHeader(heap, sl, s) <=> Open(s))
      /\ sl \in Slices /\ SoundIn(heap, sl) /\ writer \in Writers /\ SliceInv
  BY <1>1, <1>2, WriterRow, HeadersTyped DEF SerialContext, Context
<1>4. /\ old \in Seq(Streams) /\ Len(old) = sl.len
      /\ \A i \in 1 .. sl.len : old[i] = heap[sl.arr][i]
      /\ \A s : InSeq(old, s) <=> InHeader(heap, sl, s)
  BY <1>3, ElementsType, InElements DEF SliceInv
<1>5. /\ writer'.at = "shift" /\ writer'.stream = t /\ writer'.slice = sl
      /\ writer'.old = old /\ writer'.spawned = writer.spawned
  BY <1>1, <1>3 DEF RemoveClose, Writers
<1>6. InSeq(old, t)
  <2>1. \E i \in 1 .. sl.len : old[i] = t
    BY <1>1 DEF RemoveClose
  <2> QED
    BY <1>4, <2>1 DEF InSeq
<1> HIDE DEF kt, sl, old
<1>7. Open(t) /\ ~Open(t)' /\ \A s \in Streams : s # t => (Open(s)' <=> Open(s))
  <2>1. Open(t)
    BY <1>3, <1>4, <1>6 DEF kt
  <2> QED
    BY <1>1, <1>2, <1>5, <2>1 DEF Open, Member, Subscribed
<1>8. RestExact'
  <2> SUFFICES ASSUME NEW k \in Keys, AtRest(k)' PROVE RowExact(k)'
    BY DEF RestExact
  <2>1. k # kt /\ AtRest(k)
    BY <1>2, <1>5 DEF AtRest, kt
  <2>2. RowExact(k)
    BY <2>1, SerialTypes DEF Exact, RestExact
  <2> QED
    BY <1>2, <1>7, <2>1, <2>2, RowStays DEF kt
<1>9. ShiftExact'
  <2>1. Distinct(old)
    BY <1>3, <1>4 DEF RowExact, DistinctIn, DistinctTo, Distinct, sl
  <2>2. \A s \in Streams : StreamKey[s] = kt => (InSeq(old, s) <=> Open(s)' \/ s = t)
    BY <1>3, <1>4, <1>6, <1>7
  <2>3. Distinct(writer'.old) /\ \A s : InSeq(writer'.old, s) <=> InSeq(old, s)
    BY <1>5, <2>1
  <2> QED
    BY <1>5, <2>2, <2>3 DEF ShiftExact, Distinct, InSeq, kt
<1>10. ScanExact'
  <2>1. CASE cleaner.at = "scan"
    <3>1. cleaner.key # kt
      BY <1>1, <1>2, <2>1, Alone DEF SerialContext, SerialInv, kt
    <3> QED
      BY <1>2, <1>7, <3>1, ScanStays, SerialTypes DEF Exact, kt
  <2>2. CASE cleaner.at # "scan"
    BY <1>2, <2>2 DEF ScanExact
  <2> QED
    BY <2>1, <2>2
<1>11. Places'
  <2>1. pc[t] \notin {"start", "adding"}
    BY <1>2, <1>7, SerialTypes DEF Open, Member, Subscribed, Places
  <2> QED
    BY <1>1, <1>2, <1>3, <1>5, <2>1, SerialTypes DEF Places, kt, sl
<1>12. Broadcasts'
  <2>1. Readers = {}
    BY <1>2, SerialTypes DEF Broadcasts
  <2> QED
    BY <1>2, <2>1, SerialTypes DEF Broadcasts, Readers
<1> QED
  BY <1>8, <1>9, <1>10, <1>11, <1>12 DEF Exact

\* removeSubscriber never finds a closed subscriber.
LEMMA SerialRemovePanic ==
  ASSUME SerialContext, RemovePanic
  PROVE  FALSE
<1>1. /\ writer.at = "close" /\ writer.stream \in closed
      /\ writer.stream \in ToSet(Elements(writer.slice))
  BY DEF RemovePanic
<1>2. InHeader(heap, writer.slice, writer.stream)
  BY <1>1, InElements, HeadersTyped DEF SerialContext, Context
<1>3. Open(writer.stream)
  BY <1>1, <1>2, WriterRow
<1> QED
  BY <1>1, <1>3 DEF Open

\* The copy stays, the cells move.
LEMMA SerialRemoveShift ==
  ASSUME SerialContext, RemoveShift
  PROVE  Exact' /\ Places' /\ Broadcasts'
<1>1. PICK t \in Streams : t = writer.stream
  BY DEF RemoveShift, SerialContext, Context, SliceInv, WriterSane
<1> DEFINE kt == StreamKey[t]
           a == writer.slice.arr
<1>2. /\ writer.at = "shift" /\ writer'.at = "shift" /\ writer'.stream = t
      /\ writer'.slice = writer.slice /\ writer'.old = writer.old
      /\ UNCHANGED <<reg, cleaner, closed>>
      /\ \A b \in 0 .. MaxArrays : b # a => heap'[b] = heap[b]
      /\ \A k \in Keys : k # kt => reg[k].arr # a
      /\ cleaner.key # kt => cleaner.slice.arr # a
  <2>1. writer.at = "shift"
    BY DEF RemoveShift
  <2> QED
    BY <1>1, <2>1, ShiftedCells DEF SerialContext
<1>3. writer'.spawned = writer.spawned /\ UNCHANGED <<pc, mpc, todo, stored>>
  BY SerialTypes DEF RemoveShift, Writers, streamVars, messageVars
<1>4. \A k \in Keys : reg[k].arr \in 0 .. MaxArrays
  BY HeadersTyped DEF SerialContext, Context
<1>5. cleaner.slice.arr \in 0 .. MaxArrays
  BY HeadersTyped DEF SerialContext, Context
<1> HIDE DEF kt, a
<1>6. \A s \in Streams : Open(s)' <=> Open(s)
  BY <1>1, <1>2, <1>3 DEF Open, Member, Subscribed
<1>7. RestExact'
  <2> SUFFICES ASSUME NEW k \in Keys, AtRest(k)' PROVE RowExact(k)'
    BY DEF RestExact
  <2>1. k # kt /\ AtRest(k)
    BY <1>1, <1>2 DEF AtRest, kt
  <2>2. RowExact(k)
    BY <2>1, SerialTypes DEF Exact, RestExact
  <2>3. heap'[reg[k].arr] = heap[reg[k].arr]
    BY <1>2, <1>4, <2>1
  <2> QED
    BY <1>2, <1>6, <2>2, <2>3, RowStays
<1>8. ShiftExact'
  BY <1>1, <1>2, <1>6, ShiftStays, SerialTypes DEF Exact
<1>9. ScanExact'
  <2>1. CASE cleaner.at = "scan"
    <3>1. cleaner.key # kt
      BY <1>1, <1>2, <2>1, Alone DEF SerialContext, SerialInv, kt
    <3>2. heap'[cleaner.slice.arr] = heap[cleaner.slice.arr]
      BY <1>2, <1>5, <3>1
    <3> QED
      BY <1>2, <1>6, <3>2, ScanStays, SerialTypes DEF Exact
  <2>2. CASE cleaner.at # "scan"
    BY <1>2, <2>2 DEF ScanExact
  <2> QED
    BY <2>1, <2>2
<1>10. Places'
  BY <1>1, <1>2, <1>3, SerialTypes DEF Places
<1>11. Broadcasts'
  BY <1>2, <1>3, SerialTypes DEF Broadcasts, Readers, InSeq
<1> QED
  BY <1>7, <1>8, <1>9, <1>10, <1>11 DEF Exact

\* The first n cells without the i-th: those behind it have moved down.
MovedDown(old, new, i, n) ==
  /\ \A a \in 1 .. i - 1 : new[a] = old[a]
  /\ \A a \in i .. n - 1 : new[a] = old[a + 1]

Among(q, n, s) == \E a \in 1 .. n : q[a] = s

LEMMA WithoutOne ==
  ASSUME NEW n \in Nat, NEW i \in 1 .. n, NEW old, NEW new,
         MovedDown(old, new, i, n), DistinctTo(old, n)
  PROVE  /\ DistinctTo(new, n - 1)
         /\ \A s : Among(new, n - 1, s) <=> Among(old, n, s) /\ s # old[i]
<1> DEFINE from(a) == IF a < i THEN a ELSE a + 1
<1>1. \A a \in 1 .. n - 1 : from(a) \in 1 .. n /\ from(a) # i /\ new[a] = old[from(a)]
  BY DEF MovedDown
<1>2. \A a, b \in 1 .. n - 1 : from(a) = from(b) => a = b
  OBVIOUS
<1>3. \A b \in 1 .. n : b # i => \E a \in 1 .. n - 1 : from(a) = b
  <2> SUFFICES ASSUME NEW b \in 1 .. n, b # i PROVE \E a \in 1 .. n - 1 : from(a) = b
    OBVIOUS
  <2>1. CASE b < i
    BY <2>1
  <2>2. CASE b > i
    <3>1. b - 1 \in 1 .. n - 1 /\ from(b - 1) = b
      BY <2>2
    <3> QED
      BY <3>1
  <2> QED
    BY <2>1, <2>2
<1> HIDE DEF from
<1>4. DistinctTo(new, n - 1)
  BY <1>1, <1>2 DEF DistinctTo
<1>5. ASSUME NEW s, Among(new, n - 1, s) PROVE Among(old, n, s) /\ s # old[i]
  BY <1>1, <1>5 DEF Among, DistinctTo
<1>6. ASSUME NEW s, Among(old, n, s), s # old[i] PROVE Among(new, n - 1, s)
  <2>1. PICK b \in 1 .. n : old[b] = s
    BY <1>6 DEF Among
  <2>2. PICK a \in 1 .. n - 1 : from(a) = b
    BY <1>3, <1>6, <2>1
  <2> QED
    BY <1>1, <2>1, <2>2 DEF Among
<1> QED
  BY <1>4, <1>5, <1>6

\* The call stores an exact slice, and returns: the subscriber it was to remove
\* is not open, and its handler has left.
LEMMA SerialRemoveStores ==
  ASSUME SerialContext, NEW sl, RemoveStores(sl), writer.at \in {"close", "shift"},
         ~Open(writer.stream), sl.len \in Nat, DistinctIn(heap, sl),
         \A s \in Streams : StreamKey[s] = StreamKey[writer.stream] =>
           (InHeader(heap, sl, s) <=> Open(s))
  PROVE  Exact' /\ Places' /\ Broadcasts'
<1>1. PICK t \in Streams : t = writer.stream
  BY DEF SerialContext, Context, SliceInv, WriterSane
<1> DEFINE kt == StreamKey[t]
           spawned == writer.spawned
           new == IF sl.len = 0 THEN Nil ELSE sl
<1>2. /\ writer' = NoWriter /\ writer'.at = "none"
      /\ UNCHANGED <<heap, cleaner, closed, mpc, todo, stored>>
      /\ reg' = [reg EXCEPT ![kt] = new]
      /\ pc' = IF spawned THEN pc ELSE [pc EXCEPT ![t] = "ended"]
  BY <1>1 DEF RemoveStores, RemoveReturns, messageVars, NoWriter
<1>3. kt \in Keys /\ reg'[kt] = new /\ \A k \in Keys : k # kt => reg'[k] = reg[k]
  BY <1>2, HubAssumption DEF SerialContext, Context, SliceInv, SliceTypes
<1>4. \A s \in Streams : s # t => pc'[s] = pc[s]
  BY <1>2, SerialTypes
<1>5. IF spawned THEN pc' = pc ELSE pc'[t] = "ended" /\ pc[t] = "removing"
  BY <1>1, <1>2, SerialTypes DEF Places
<1> HIDE DEF kt, new
<1>6. \A s \in Streams : Open(s)' <=> Open(s)
  BY <1>1, <1>2, <1>4, <1>5 DEF Open, Member, Subscribed
<1>7. RowExact(kt)'
  <2>1. \A s : InHeader(heap, new, s) <=> InHeader(heap, sl, s)
    BY DEF InHeader, new, Nil
  <2>2. DistinctIn(heap, new)
    BY DEF DistinctIn, DistinctTo, new, Nil
  <2>3. DistinctIn(heap', reg'[kt]) /\ \A s : InHeader(heap', reg'[kt], s) <=> InHeader(heap, sl, s)
    BY <1>2, <1>3, <2>1, <2>2
  <2> QED
    BY <1>1, <1>6, <2>3 DEF RowExact, kt
<1>8. RestExact'
  <2> SUFFICES ASSUME NEW k \in Keys, AtRest(k)' PROVE RowExact(k)'
    BY DEF RestExact
  <2>1. CASE k = kt
    BY <1>7, <2>1
  <2>2. CASE k # kt
    <3>1. AtRest(k)
      BY <1>1, <1>2, <2>2 DEF AtRest, kt
    <3>2. RowExact(k)
      BY <3>1, SerialTypes DEF Exact, RestExact
    <3> QED
      BY <1>2, <1>3, <1>6, <2>2, <3>2, RowStays
  <2> QED
    BY <2>1, <2>2
<1>9. ShiftExact' /\ ScanExact'
  BY <1>2, <1>6, ScanStays, SerialTypes DEF ShiftExact, Exact
<1>10. Places'
  <2>1. cleaner.at = "scan" => cleaner.key \in Keys /\ cleaner.key # kt
    BY <1>1, Alone, SerialTypes DEF SerialContext, SerialInv, kt, Cleaners
  <2> QED
    BY <1>2, <1>3, <1>4, <1>5, <2>1, SerialTypes DEF Places
<1>11. Broadcasts'
  BY <1>2, SerialTypes DEF Broadcasts, Readers, InSeq
<1> QED
  BY <1>8, <1>9, <1>10, <1>11 DEF Exact

LEMMA SerialRemoveStore ==
  ASSUME SerialContext, RemoveStore
  PROVE  Exact' /\ Places' /\ Broadcasts'
<1> DEFINE sl == writer.slice
           new == [writer.slice EXCEPT !.len = @ - 1]
           old == writer.old
<1>1. writer.at = "shift" /\ writer.moves = {} /\ RemoveStores(new)
  BY DEF RemoveStore
<1>2. /\ sl \in Slices /\ sl.len \in Nat /\ sl.len > 0 /\ Len(old) = sl.len
  BY <1>1, HeadersTyped DEF SerialContext, Context, SliceInv, WriterSane
<1>3. new.arr = sl.arr /\ new.len = sl.len - 1 /\ new.len \in Nat
  BY <1>2 DEF Slices
<1>4. PICK i \in 1 .. sl.len : old[i] = writer.stream /\ MovedDown(old, heap[sl.arr], i, sl.len)
  BY <1>1 DEF SerialContext, SetInv, Shifting, MovedDown
<1>5. ~Open(writer.stream)
  BY <1>1 DEF SerialContext, SetInv, Shifting, Open
<1>6. /\ Distinct(old)
      /\ \A s \in Streams : StreamKey[s] = StreamKey[writer.stream] =>
           (InSeq(old, s) <=> Open(s) \/ s = writer.stream)
  BY <1>1, SerialTypes DEF Exact, ShiftExact
<1> HIDE DEF sl, new, old
<1>7. /\ DistinctTo(heap[sl.arr], sl.len - 1)
      /\ \A s : Among(heap[sl.arr], sl.len - 1, s) <=> Among(old, sl.len, s) /\ s # writer.stream
  <2>1. DistinctTo(old, sl.len)
    BY <1>2, <1>6 DEF Distinct, DistinctTo
  <2> QED
    BY <1>2, <1>4, <2>1, WithoutOne
<1>8. /\ DistinctIn(heap, new)
      /\ \A s : InHeader(heap, new, s) <=> InSeq(old, s) /\ s # writer.stream
  BY <1>2, <1>3, <1>7, ZenonT(30) DEF DistinctIn, DistinctTo, InHeader, InSeq, Among
<1>9. \A s \in Streams : StreamKey[s] = StreamKey[writer.stream] =>
        (InHeader(heap, new, s) <=> Open(s))
  BY <1>5, <1>6, <1>8
<1> QED
  BY <1>1, <1>3, <1>5, <1>8, <1>9, SerialRemoveStores

LEMMA SerialRemoveMissing ==
  ASSUME SerialContext, RemoveMissing
  PROVE  Exact' /\ Places' /\ Broadcasts'
<1>1. /\ writer.at = "close" /\ writer.stream \notin ToSet(Elements(writer.slice))
      /\ RemoveStores(writer.slice)
  BY DEF RemoveMissing
<1>2. ~InHeader(heap, writer.slice, writer.stream) /\ writer.slice.len \in Nat
  BY <1>1, InElements, HeadersTyped DEF SerialContext, Context
<1>3. /\ ~Open(writer.stream) /\ DistinctIn(heap, writer.slice)
      /\ \A s \in Streams : StreamKey[s] = StreamKey[writer.stream] =>
           (InHeader(heap, writer.slice, s) <=> Open(s))
  BY <1>1, <1>2, WriterRow DEF RowExact
<1> QED
  BY <1>1, <1>2, <1>3, SerialRemoveStores

------------------------------------------------------------------------------
\* CreateMessage and StreamMessages

\* A broadcast reads the slice of a key at rest, and nobody closes a subscriber
\* of the key before it is done.
LEMMA SerialMessage ==
  ASSUME SerialContext, NEW m \in Messages, CreateMessage(m), ~Overlap'
  PROVE  Exact' /\ Places' /\ Broadcasts'
<1>1. UNCHANGED <<reg, heap, writer, closed, cleaner, pc>>
  BY DEF CreateMessage, Insert, BroadcastStep, BroadcastLock, BroadcastSend, BroadcastPanic,
         BroadcastUnlock, hubVars, streamVars
<1>2. \A s \in Streams : Open(s)' <=> Open(s)
  BY <1>1 DEF Open, Member, Subscribed
<1>3. Exact'
  <2>1. \A k \in Keys : AtRest(k)' => AtRest(k)
    BY <1>1 DEF AtRest
  <2>2. RestExact'
    BY <1>1, <1>2, <2>1, RowStays, SerialTypes DEF Exact, RestExact
  <2>3. ShiftExact' /\ ScanExact'
    BY <1>1, <1>2, ShiftStays, ScanStays, SerialTypes DEF Exact
  <2> QED
    BY <2>2, <2>3 DEF Exact
<1>4. Places'
  BY <1>1, SerialTypes DEF Places
<1>5. Broadcasts'
  <2>1. CASE Insert(m)
    <3>1. /\ \A n \in Messages : n # m => mpc'[n] = mpc[n]
          /\ mpc[m] = "start" /\ mpc'[m] # "broadcasting" /\ todo' = todo
          /\ \/ mpc'[m] \in {"stored", "unsent"} /\ stored' = stored \cup {m}
             \/ mpc'[m] = "failed" /\ stored' = stored
      BY <2>1, SerialTypes DEF Insert
    <3>2. Readers' = Readers
      BY <3>1 DEF Readers
    <3> QED
      BY <1>1, <3>1, <3>2, SerialTypes DEF Broadcasts, InSeq
  <2>2. CASE BroadcastLock(m)
    <3> DEFINE k == MessageKey[m]
    <3>1. /\ \A n \in Messages : n # m => mpc'[n] = mpc[n] /\ todo'[n] = todo[n]
          /\ mpc'[m] = "broadcasting" /\ todo'[m] = Elements(reg[k])
          /\ writer.at = "none" /\ stored' = stored
      BY <2>2, SerialTypes DEF BroadcastLock, CanRLock, NoWriter
    <3>2. k \in Keys /\ AtRest(k)
      BY <1>1, <3>1, HubAssumption DEF AtRest, Overlap, Readers
    <3>3. RowExact(k)
      BY <3>2, SerialTypes DEF Exact, RestExact
    <3>4. \A s \in closed : ~InHeader(heap, reg[k], s)
      <4> SUFFICES ASSUME NEW s \in closed, InHeader(heap, reg[k], s) PROVE FALSE
        OBVIOUS
      <4>1. s \in Streams
        BY SerialTypes
      <4>2. s \in ToSet(Elements(reg[k]))
        BY <3>2, InElements, HeadersTyped DEF SerialContext, Context
      <4>3. StreamKey[s] = k
        <5>1. PICK owner \in Owners : Owned(owner)
          BY DEF SerialContext, Context, KeyInv
        <5>2. \A i \in 1 .. reg[k].len : StreamKey[heap[reg[k].arr][i]] = k
          BY <3>2, <5>1, HeaderKey, HeadersTyped, SMTT(20)
             DEF SerialContext, Context, Owned, HeadersOwned
        <5> QED
          BY <5>2 DEF InHeader
      <4> QED
        BY <3>3, <4>1, <4>3 DEF RowExact, Open
    <3>5. \A s \in closed : ~InSeq(todo'[m], s)
      BY <3>1, <3>2, <3>4, InElements, HeadersTyped DEF SerialContext, Context
    <3>6. \A n \in Readers' : n = m \/ (n \in Readers /\ todo'[n] = todo[n])
      BY <3>1 DEF Readers
    <3>7. \A n \in Readers' : \A s \in closed' : ~InSeq(todo'[n], s)
      BY <1>1, <3>5, <3>6, SerialTypes DEF Broadcasts
    <3> QED
      BY <1>1, <3>1, <3>7, SerialTypes DEF Broadcasts, InSeq
  <2>3. CASE BroadcastSend(m)
    <3>1. /\ mpc[m] = "broadcasting" /\ todo[m] # <<>> /\ todo[m] \in Seq(Streams)
          /\ todo' = [todo EXCEPT ![m] = Tail(@)]
          /\ UNCHANGED <<mpc, stored>>
      BY <2>3, SerialTypes DEF BroadcastSend
    <3>2. \A s : InSeq(Tail(todo[m]), s) => InSeq(todo[m], s)
      BY <3>1 DEF InSeq
    <3>3. /\ todo'[m] = Tail(todo[m]) /\ m \in Readers
          /\ \A n \in Messages : n # m => todo'[n] = todo[n]
      BY <3>1, SerialTypes DEF Readers
    <3>4. \A n \in Readers : \A s : InSeq(todo'[n], s) => InSeq(todo[n], s)
      BY <3>2, <3>3 DEF Readers
    <3>5. Readers' = Readers
      BY <3>1 DEF Readers
    <3>6. \A n \in Readers' : \A s \in closed' : ~InSeq(todo'[n], s)
      BY <1>1, <3>4, <3>5, SerialTypes DEF Broadcasts
    <3> QED
      BY <1>1, <3>1, <3>5, <3>6, SerialTypes DEF Broadcasts, InSeq
  <2>4. CASE BroadcastPanic(m)
    <3>1. /\ m \in Readers /\ todo[m] \in Seq(Streams) /\ todo[m] # <<>>
          /\ Head(todo[m]) \in closed
      BY <2>4, SerialTypes DEF BroadcastPanic, Readers
    <3>2. InSeq(todo[m], Head(todo[m]))
      BY <3>1 DEF InSeq
    <3> QED
      BY <3>1, <3>2, SerialTypes DEF Broadcasts
  <2>5. CASE BroadcastUnlock(m)
    <3>1. /\ mpc'[m] = "acked" /\ todo' = todo /\ stored' = stored
          /\ \A n \in Messages : n # m => mpc'[n] = mpc[n]
      BY <2>5, SerialTypes DEF BroadcastUnlock
    <3>2. Readers' \subseteq Readers
      BY <3>1 DEF Readers
    <3> QED
      BY <1>1, <3>1, <3>2, SerialTypes DEF Broadcasts, InSeq
  <2> QED
    BY <2>1, <2>2, <2>3, <2>4, <2>5 DEF CreateMessage, BroadcastStep
<1> QED
  BY <1>3, <1>4, <1>5

\* A handler in its loop stays registered until it takes the lock to leave.
LEMMA SerialStream ==
  ASSUME SerialContext, NEW t \in Streams, StreamLoop(t)
  PROVE  Exact' /\ Places' /\ Broadcasts'
<1> DEFINE loop == {"query", "live", "sending", "leaving"}
<1>1. /\ UNCHANGED <<reg, heap, writer, closed, cleaner, mpc, todo, stored>>
      /\ pc[t] \in loop /\ \E at \in loop : pc' = [pc EXCEPT ![t] = at]
  BY DEF StreamLoop, Replay, Forward, ForwardNil, Deliver, SendReturns, ServerCancel,
         ClientCancel, hubVars, messageVars
<1>2. pc'[t] \in loop /\ \A s \in Streams : s # t => pc'[s] = pc[s]
  BY <1>1, SerialTypes
<1>3. \A s \in Streams : Open(s)' <=> Open(s)
  BY <1>1, <1>2 DEF Open, Member, Subscribed
<1>4. Exact'
  <2>1. \A k \in Keys : AtRest(k)' => AtRest(k)
    BY <1>1 DEF AtRest
  <2>2. RestExact'
    BY <1>1, <1>3, <2>1, RowStays, SerialTypes DEF Exact, RestExact
  <2>3. ShiftExact' /\ ScanExact'
    BY <1>1, <1>3, ShiftStays, ScanStays, SerialTypes DEF Exact
  <2> QED
    BY <2>2, <2>3 DEF Exact
<1>5. Places'
  BY <1>1, <1>2, SerialTypes DEF Places
<1>6. Broadcasts'
  BY <1>1, SerialTypes DEF Broadcasts, Readers, InSeq
<1> QED
  BY <1>4, <1>5, <1>6

------------------------------------------------------------------------------
\* cleanupInactiveSubscribers

\* Between two visits.
LEMMA SerialCleanupMoves ==
  ASSUME SerialContext, UNCHANGED <<hubVars, pc, mpc, todo, stored>>,
         cleaner.at # "scan", cleaner'.at # "scan", cleaner'.idx = 1
  PROVE  Exact' /\ Places' /\ Broadcasts'
<1>1. UNCHANGED <<reg, heap, writer, closed>>
  BY DEF hubVars
<1>2. \A s \in Streams : Open(s)' <=> Open(s)
  BY <1>1 DEF Open, Member, Subscribed
<1>3. \A k \in Keys : AtRest(k)' => AtRest(k)
  BY <1>1 DEF AtRest
<1>4. RestExact'
  BY <1>1, <1>2, <1>3, RowStays, SerialTypes DEF Exact, RestExact
<1>5. ShiftExact'
  BY <1>1, <1>2, ShiftStays, SerialTypes DEF Exact
<1>6. ScanExact'
  BY DEF ScanExact
<1>7. Places' /\ Broadcasts'
  BY <1>1, SerialTypes DEF Places, Broadcasts, Readers, InSeq
<1> QED
  BY <1>4, <1>5, <1>6, <1>7 DEF Exact

\* A visit begins with all subscribers of the key unread.
LEMMA SerialVisit ==
  ASSUME SerialContext, NEW k \in Keys, Visit(k), reg[k] # Nil, ~Overlap'
  PROVE  Exact' /\ Places' /\ Broadcasts'
<1>1. /\ UNCHANGED <<reg, heap, writer, closed, pc, mpc, todo, stored>>
      /\ cleaner.at = "range"
      /\ cleaner' = [cleaner EXCEPT !.at = "scan", !.left = @ \ {k}, !.key = k, !.slice = reg[k]]
  BY DEF Visit, hubVars, streamVars, messageVars
<1>2. cleaner.active = <<>> /\ cleaner.idx = 1
  BY <1>1, SerialTypes DEF Places, SerialContext, Context, KeyInv, Owned, CopiesOwned
<1>3. /\ cleaner'.at = "scan" /\ cleaner'.key = k /\ cleaner'.slice = reg[k]
      /\ cleaner'.active = <<>> /\ cleaner'.idx = 1
  BY <1>1, <1>2, SerialTypes DEF Cleaners
<1>4. \A s \in Streams : Open(s)' <=> Open(s)
  BY <1>1 DEF Open, Member, Subscribed
<1>5. AtRest(k) /\ \A key \in Keys : AtRest(key)' => AtRest(key)
  BY <1>1, <1>3 DEF AtRest, Overlap, NoWriter
<1>6. RowExact(k)
  BY <1>5, SerialTypes DEF Exact, RestExact
<1>7. RestExact'
  BY <1>1, <1>4, <1>5, RowStays, SerialTypes DEF Exact, RestExact
<1>8. ShiftExact'
  BY <1>1, <1>4, ShiftStays, SerialTypes DEF Exact
<1>9. ScanExact'
  <2>1. \A s : ~InSeq(cleaner'.active, s)
    BY <1>3 DEF InSeq
  <2>2. Distinct(cleaner'.active)
    BY <1>3 DEF Distinct, DistinctTo
  <2>3. \A i, j \in cleaner'.idx .. cleaner'.slice.len :
          heap'[cleaner'.slice.arr][i] = heap'[cleaner'.slice.arr][j] => i = j
    BY <1>1, <1>3, <1>6 DEF RowExact, DistinctIn, DistinctTo
  <2>4. \A s \in Streams : StreamKey[s] = k => (InHand(s)' <=> Open(s)')
    <3>1. \A s \in Streams : StreamKey[s] = k => (InHand(s)' <=> InHeader(heap, reg[k], s))
      BY <1>1, <1>3 DEF InHand, InSeq, Unread, InHeader
    <3> QED
      BY <1>4, <1>6, <3>1 DEF RowExact
  <2> QED
    BY <1>3, <2>1, <2>2, <2>3, <2>4 DEF ScanExact, Distinct, InSeq
<1>10. Places' /\ Broadcasts'
  BY <1>1, <1>3, SerialTypes DEF Places, Broadcasts, Readers, InSeq
<1> QED
  BY <1>7, <1>8, <1>9, <1>10 DEF Exact

\* What the visit does not keep is closed; the rest stays in hand.
LEMMA SerialScan ==
  ASSUME SerialContext, ScanKeep \/ ScanClose
  PROVE  Exact' /\ Places' /\ Broadcasts'
<1>1. PICK x \in Streams : x = Scanned
  BY ScannedOpen DEF ScanKeep, ScanClose
<1> DEFINE key == cleaner.key
           idx == cleaner.idx
           sl == cleaner.slice
           cells == heap[cleaner.slice.arr]
<1>2. /\ UNCHANGED <<reg, heap, writer, pc, mpc, todo, stored>>
      /\ cleaner.at = "scan" /\ idx <= sl.len
      /\ closed \subseteq closed' /\ closed' \subseteq closed \cup {x}
  BY <1>1 DEF ScanKeep, ScanClose, hubVars, streamVars, messageVars
<1>3. /\ cleaner'.at = "scan" /\ cleaner'.key = key /\ cleaner'.slice = sl
      /\ cleaner'.idx = idx + 1
      /\ \/ cleaner'.active = Append(cleaner.active, x) /\ closed' = closed
         \/ cleaner'.active = cleaner.active /\ x \in closed'
  <2> HIDE DEF Scanned
  <2>1. CASE ScanKeep
    BY <1>1, <2>1, SerialTypes DEF ScanKeep, Cleaners, hubVars
  <2>2. CASE ScanClose
    BY <1>1, <2>2, SerialTypes DEF ScanClose, Cleaners
  <2> QED
    BY <2>1, <2>2
<1>4. /\ StreamKey[x] = key /\ Open(x) /\ cells[idx] = x
      /\ idx \in Nat \ {0} /\ sl.len \in Nat /\ cleaner.active \in Seq(Streams)
  BY <1>1, <1>2, ScannedOpen, HeadersTyped DEF SerialContext, Context, Scanned
<1>5. /\ Distinct(cleaner.active)
      /\ \A i, j \in idx .. sl.len : cells[i] = cells[j] => i = j
      /\ \A i \in idx .. sl.len : ~InSeq(cleaner.active, cells[i])
      /\ \A s \in Streams : StreamKey[s] = key => (InHand(s) <=> Open(s))
  BY <1>2, SerialTypes DEF Exact, ScanExact
<1> HIDE DEF key, idx, sl, cells
<1>6. idx .. sl.len = {idx} \cup (idx + 1 .. sl.len) /\ idx \notin idx + 1 .. sl.len
  BY <1>2, <1>4
<1>7. /\ \A s \in Streams : s # x => (Open(s)' <=> Open(s))
      /\ Open(x)' <=> x \notin closed'
  BY <1>2, <1>4 DEF Open, Member, Subscribed
<1>8. RestExact'
  <2> SUFFICES ASSUME NEW k \in Keys, AtRest(k)' PROVE RowExact(k)'
    BY DEF RestExact
  <2>1. k # key /\ AtRest(k)
    BY <1>2, <1>3 DEF AtRest, key
  <2>2. RowExact(k)
    BY <2>1, SerialTypes DEF Exact, RestExact
  <2> QED
    BY <1>2, <1>4, <1>7, <2>1, <2>2, RowStays
<1>9. ShiftExact'
  <2>1. CASE writer.at = "shift"
    <3>1. StreamKey[writer.stream] # key
      BY <1>2, <2>1, Alone DEF SerialContext, SerialInv, key
    <3> QED
      BY <1>2, <1>4, <1>7, <3>1, ShiftStays, SerialTypes DEF Exact
  <2>2. CASE writer.at # "shift"
    BY <1>2, <2>2 DEF ShiftExact
  <2> QED
    BY <2>1, <2>2
<1>10. ScanExact'
  <2>1. ~InSeq(cleaner.active, x)
    BY <1>4, <1>5, <1>6
  <2>2. \A i \in idx + 1 .. sl.len : cells[i] # x /\ ~InSeq(cleaner.active, cells[i])
    BY <1>4, <1>5, <1>6
  <2>3. /\ Distinct(cleaner'.active)
        /\ \A s : InSeq(cleaner'.active, s)
                    <=> InSeq(cleaner.active, s) \/ (s = x /\ closed' = closed)
    <3>1. CASE cleaner'.active = Append(cleaner.active, x) /\ closed' = closed
      <4> DEFINE q == cleaner.active
      <4>1. /\ Len(Append(q, x)) = Len(q) + 1 /\ Append(q, x)[Len(q) + 1] = x
            /\ \A i \in 1 .. Len(q) : Append(q, x)[i] = q[i]
            /\ 1 .. Len(q) + 1 = (1 .. Len(q)) \cup {Len(q) + 1}
        BY <1>4
      <4>2. Distinct(Append(q, x))
        BY <1>4, <1>5, <2>1, <4>1 DEF Distinct, DistinctTo, InSeq
      <4>3. \A s : InSeq(Append(q, x), s) <=> InSeq(q, s) \/ s = x
        BY <1>4, <4>1 DEF InSeq
      <4> QED
        BY <3>1, <4>2, <4>3
    <3>2. CASE cleaner'.active = cleaner.active /\ x \in closed'
      BY <1>4, <1>5, <3>2 DEF Open
    <3> QED
      BY <1>3, <3>1, <3>2
  <2>4. x \notin closed /\ (closed' = closed <=> x \notin closed')
    BY <1>2, <1>4 DEF Open
  <2>5. \A s : Unread(s)' <=> \E i \in idx + 1 .. sl.len : cells[i] = s
    BY <1>2, <1>3 DEF Unread, cells, sl
  <2>6. \A s : Unread(s) <=> s = x \/ \E i \in idx + 1 .. sl.len : cells[i] = s
    BY <1>4, <1>6 DEF Unread, idx, sl, cells
  <2>7. ASSUME NEW s \in Streams, StreamKey[s] = key PROVE InHand(s)' <=> Open(s)'
    <3>1. InHand(s) <=> InSeq(cleaner.active, s) \/ Unread(s)
      BY <1>2, <2>7 DEF InHand, key
    <3>2. InHand(s)' <=> InSeq(cleaner'.active, s) \/ Unread(s)'
      BY <1>3, <2>7 DEF InHand, InSeq
    <3>3. CASE s = x
      BY <1>7, <2>1, <2>2, <2>3, <2>4, <2>5, <3>2, <3>3
    <3>4. CASE s # x
      BY <1>5, <1>7, <2>3, <2>5, <2>6, <2>7, <3>1, <3>2, <3>4
    <3> QED
      BY <3>3, <3>4
  <2>8. \A i, j \in idx + 1 .. sl.len : cells[i] = cells[j] => i = j
    BY <1>5, <1>6
  <2>9. \A i \in idx + 1 .. sl.len : ~InSeq(cleaner'.active, cells[i])
    BY <2>2, <2>3
  <2> QED
    BY <1>2, <1>3, <2>3, <2>7, <2>8, <2>9 DEF ScanExact, Distinct, InSeq, key, cells, sl
<1>11. Places'
  <2>1. pc[x] \notin {"start", "adding"}
    BY <1>4, SerialTypes DEF Open, Member, Subscribed, Places
  <2> QED
    BY <1>2, <1>3, <2>1, SerialTypes DEF Places, key
<1>12. Broadcasts'
  <2>1. \A m \in Readers : ~InSeq(todo[m], x)
    <3> SUFFICES ASSUME NEW m \in Readers, InSeq(todo[m], x) PROVE FALSE
      OBVIOUS
    <3>1. MessageKey[m] # key
      BY <1>2, Alone DEF SerialContext, SerialInv, key
    <3>2. AllOf(todo[m], MessageKey[m])
      BY DEF SerialContext, Context, BroadcastInv, Readers
    <3> QED
      BY <1>4, <3>1, <3>2 DEF AllOf, InSeq
  <2>2. Readers' = Readers
    BY <1>2 DEF Readers
  <2> QED
    BY <1>2, <2>1, <2>2, SerialTypes DEF Broadcasts, InSeq
<1> QED
  BY <1>8, <1>9, <1>10, <1>11, <1>12 DEF Exact

\* The cleanup never meets a closed subscriber.
LEMMA SerialScanPanic ==
  ASSUME SerialContext, ScanPanic
  PROVE  FALSE
BY ScannedOpen DEF ScanPanic, Open

\* What the visit has collected becomes the slice of its key.
LEMMA SerialScanEnds ==
  ASSUME SerialContext, ScanDelete \/ ScanStore
  PROVE  Exact' /\ Places' /\ Broadcasts'
<1>1. PICK key \in Keys : key = cleaner.key
  BY SerialTypes DEF Cleaners
<1>2. /\ UNCHANGED <<writer, closed, pc, mpc, todo, stored>>
      /\ cleaner.at = "scan" /\ cleaner.idx > cleaner.slice.len
      /\ cleaner'.at = "range" /\ cleaner'.idx = 1
  BY DEF ScanDelete, ScanStore, EndVisit, NoScan, streamVars, messageVars
<1>3. /\ \A k \in Keys : k # key => reg'[k] = reg[k] /\ heap'[reg[k].arr] = heap[reg[k].arr]
      /\ reg'[key].len = Len(cleaner.active)
      /\ \A i \in 1 .. Len(cleaner.active) : heap'[reg'[key].arr][i] = cleaner.active[i]
  BY <1>1, CleanupCells DEF SerialContext
<1>4. /\ Distinct(cleaner.active)
      /\ \A s \in Streams : StreamKey[s] = key => (InHand(s) <=> Open(s))
  BY <1>1, <1>2, SerialTypes DEF Exact, ScanExact
<1>5. \A s : ~Unread(s)
  <2>1. cleaner.idx \in Nat /\ cleaner.slice.len \in Nat
    BY HeadersTyped DEF SerialContext, Context
  <2> QED
    BY <1>2, <2>1 DEF Unread
<1>6. \A s \in Streams : Open(s)' <=> Open(s)
  BY <1>2 DEF Open, Member, Subscribed
<1>7. RowExact(key)'
  <2>1. DistinctIn(heap', reg'[key])
    BY <1>3, <1>4 DEF DistinctIn, Distinct, DistinctTo
  <2>2. \A s : InHeader(heap', reg'[key], s) <=> InSeq(cleaner.active, s)
    BY <1>3 DEF InHeader, InSeq
  <2>3. \A s \in Streams : StreamKey[s] = key => (InSeq(cleaner.active, s) <=> Open(s))
    BY <1>1, <1>2, <1>4, <1>5 DEF InHand
  <2> QED
    BY <1>6, <2>1, <2>2, <2>3 DEF RowExact
<1>8. RestExact'
  <2> SUFFICES ASSUME NEW k \in Keys, AtRest(k)' PROVE RowExact(k)'
    BY DEF RestExact
  <2>1. CASE k = key
    BY <1>7, <2>1
  <2>2. CASE k # key
    <3>1. AtRest(k)
      BY <1>1, <1>2, <2>2 DEF AtRest
    <3>2. RowExact(k)
      BY <3>1, SerialTypes DEF Exact, RestExact
    <3> QED
      BY <1>3, <1>6, <2>2, <3>2, RowStays
  <2> QED
    BY <2>1, <2>2
<1>9. ShiftExact' /\ ScanExact'
  BY <1>2, <1>6, ShiftStays, SerialTypes DEF Exact, ScanExact
<1>10. Places'
  <2>1. writer.at # "none" => StreamKey[writer.stream] \in Keys /\ StreamKey[writer.stream] # key
    BY <1>1, <1>2, Alone, HubAssumption
       DEF SerialContext, SerialInv, Context, SliceInv, WriterSane
  <2> QED
    BY <1>2, <1>3, <2>1, SerialTypes DEF Places
<1>11. Broadcasts'
  BY <1>2, SerialTypes DEF Broadcasts, Readers, InSeq
<1> QED
  BY <1>8, <1>9, <1>10, <1>11 DEF Exact

------------------------------------------------------------------------------
\* The theorems

LEMMA SerialInit == Init => SerialInv
<1> SUFFICES ASSUME Init PROVE SerialInv
  OBVIOUS
<1>1. /\ \A k \in Keys : reg[k] = Nil
      /\ writer = NoWriter /\ writer.at = "none" /\ cleaner.at = "idle" /\ cleaner.idx = 1
      /\ closed = {} /\ stored = {} /\ ~crashed
      /\ \A s \in Streams : pc[s] = "start"
      /\ \A m \in Messages : mpc[m] = "start"
  BY DEF Init, NoWriter, NoScan
<1>2. \A s \in Streams : ~Open(s)
  BY <1>1 DEF Open, Member, Subscribed
<1>3. \A k \in Keys : RowExact(k)
  BY <1>1, <1>2, Empty DEF RowExact, DistinctIn, DistinctTo, Nil
<1>4. Exact
  BY <1>1, <1>3 DEF Exact, RestExact, ShiftExact, ScanExact
<1>5. Places /\ Broadcasts /\ ~Overlap
  BY <1>1 DEF Places, Broadcasts, Readers, Overlap
<1> QED
  BY <1>1, <1>4, <1>5 DEF SerialInv

LEMMA SerialStutter ==
  ASSUME SerialInv, UNCHANGED vars
  PROVE  SerialInv'
<1>1. UNCHANGED <<reg, heap, writer, closed, cleaner, pc, mpc, todo, stored, crashed>>
  BY DEF vars, hubVars, streamVars, messageVars
<1>2. \A s \in Streams : Open(s)' <=> Open(s)
  BY <1>1 DEF Open, Member, Subscribed
<1>3. \A k \in Keys : AtRest(k)' => AtRest(k)
  BY <1>1 DEF AtRest
<1>4. Exact'
  <2>1. RestExact'
    BY <1>1, <1>2, <1>3, RowStays DEF SerialInv, Exact, RestExact
  <2> QED
    BY <1>1, <1>2, <2>1, ShiftStays, ScanStays DEF SerialInv, Exact
<1>5. Places' /\ Broadcasts' /\ ~Overlap'
  BY <1>1 DEF SerialInv, Places, Broadcasts, Readers, InSeq, Overlap
<1> QED
  BY <1>1, <1>4, <1>5 DEF SerialInv

LEMMA SerialStep == SerialContext /\ SerialNext => Exact' /\ Places' /\ Broadcasts'
<1> SUFFICES ASSUME SerialContext, SerialNext PROVE Exact' /\ Places' /\ Broadcasts'
  OBVIOUS
<1>1. Next /\ ~Overlap'
  BY DEF SerialNext
<1>2. CASE AddSubscriber
  BY <1>2, SerialAddLock, SerialAppend DEF AddSubscriber
<1>3. CASE RemoveSubscriber
  BY <1>3, SerialRemoveLock, SerialRemoveClose, SerialRemovePanic, SerialRemoveShift,
     SerialRemoveStore, SerialRemoveMissing DEF RemoveSubscriber, RemoveBody
<1>4. CASE Cleanup
  <2>1. CASE Tick \/ EndPass
    <3> DEFINE seen == {k \in Keys : reg[k] # Nil}
    <3>1. /\ UNCHANGED <<hubVars, pc, mpc, todo, stored>> /\ cleaner.at # "scan"
          /\ \/ cleaner' = [cleaner EXCEPT !.at = "range", !.left = seen]
             \/ cleaner' = NoScan
      BY <2>1 DEF Tick, EndPass, streamVars, messageVars
    <3> HIDE DEF seen
    <3>2. cleaner.idx = 1
      BY <3>1, SerialTypes DEF Places
    <3>3. cleaner'.at # "scan" /\ cleaner'.idx = 1
      <4>1. CASE cleaner' = [cleaner EXCEPT !.at = "range", !.left = seen]
        BY <3>2, <4>1, SerialTypes DEF Cleaners
      <4>2. CASE cleaner' = NoScan
        BY <4>2 DEF NoScan
      <4> QED
        BY <3>1, <4>1, <4>2
    <3> QED
      BY <3>1, <3>3, SerialCleanupMoves
  <2>2. ASSUME NEW k \in Keys, Visit(k) PROVE Exact' /\ Places' /\ Broadcasts'
    <3>1. CASE reg[k] # Nil
      BY <1>1, <2>2, <3>1, SerialVisit
    <3>2. CASE reg[k] = Nil
      <4>1. /\ UNCHANGED <<hubVars, pc, mpc, todo, stored>> /\ cleaner.at = "range"
            /\ cleaner' = [cleaner EXCEPT !.left = @ \ {k}]
        BY <2>2, <3>2 DEF Visit, streamVars, messageVars
      <4>2. cleaner'.at = "range" /\ cleaner'.idx = 1
        BY <4>1, SerialTypes DEF Cleaners, Places
      <4> QED
        BY <4>1, <4>2, SerialCleanupMoves
    <3> QED
      BY <3>1, <3>2
  <2>3. CASE CleanupVisit
    BY <2>3, SerialScan, SerialScanPanic, SerialScanEnds DEF CleanupVisit
  <2> QED
    BY <1>4, <2>1, <2>2, <2>3 DEF Cleanup
<1> QED
  BY <1>1, <1>2, <1>3, <1>4, SerialMessage, SerialStream DEF Next

\* Only the two panics outside of the handlers could end the process.
LEMMA NoCrashStep ==
  ASSUME SerialContext, Next
  PROVE  ~crashed'
<1>1. ~crashed
  BY DEF SerialContext, SerialInv
<1>2. ~RemovePanic /\ ~ScanPanic
  BY SerialRemovePanic, SerialScanPanic
<1> QED
  BY <1>1, <1>2
     DEF Next, AddSubscriber, AddLock, AppendInPlace, AppendGrow, AddReturns,
         RemoveSubscriber, RemoveLock, RemoveBody, RemoveClose, RemoveShift, RemoveStore,
         RemoveMissing, RemoveStores, CreateMessage, Insert, BroadcastStep, BroadcastLock,
         BroadcastSend, BroadcastPanic, BroadcastUnlock, StreamLoop, Replay, Forward,
         ForwardNil, Deliver, SendReturns, ServerCancel, ClientCancel, Cleanup, CleanupVisit,
         Tick, Visit, ScanKeep, ScanClose, ScanDelete, ScanStore, EndPass

LEMMA SerialInvNext == Context /\ SetInv /\ SerialInv /\ [SerialNext]_vars => SerialInv'
<1> SUFFICES ASSUME SerialContext, [SerialNext]_vars PROVE SerialInv'
  BY DEF SerialContext
<1>1. CASE SerialNext
  <2>1. Next /\ ~Overlap'
    BY <1>1 DEF SerialNext
  <2> QED
    BY <1>1, <2>1, SerialStep, NoCrashStep DEF SerialInv
<1>2. CASE UNCHANGED vars
  BY <1>2, SerialStutter DEF SerialContext
<1> QED
  BY <1>1, <1>2

THEOREM SerialInvariant == SerialSpec => [](Context /\ GapInv /\ SerialInv)
<1>1. SerialSpec => Spec
  <2>1. [SerialNext]_vars => [Next]_vars
    BY DEF SerialNext
  <2> QED
    BY <2>1, PTL DEF SerialSpec, Spec
<1>2. Context /\ GapInv /\ SerialInv /\ [SerialNext]_vars => SerialInv'
  BY SerialInvNext DEF GapInv
<1> QED
  BY <1>1, <1>2, GapInvariant, SerialInit, PTL DEF SerialSpec

\* Without the overlap, adds, removals, evictions and clean-ups never lose,
\* repeat or resurrect a subscriber: for every number of streams and keys the
\* slice of a key that no call is changing holds its open subscribers, once.
THEOREM RegistryStaysExact == SerialSpec => []RegistryExact
<1>1. Context /\ GapInv /\ SerialInv => RegistryExact
  <2> SUFFICES ASSUME SerialContext, NEW k \in Keys, writer = NoWriter,
                      ~(cleaner.at = "scan" /\ cleaner.key = k)
               PROVE  /\ IsInjective(Elements(reg[k]))
                      /\ ToSet(Elements(reg[k])) = {s \in Subscribed \ closed : StreamKey[s] = k}
    BY DEF RegistryExact, SerialContext, GapInv
  <2>1. writer.at = "none"
    BY DEF NoWriter
  <2>2. RowExact(k)
    BY <2>1, SerialTypes DEF AtRest, Exact, RestExact
  <2>3. reg[k] \in Slices /\ SoundIn(heap, reg[k]) /\ SliceInv
    BY HeadersTyped DEF SerialContext, Context
  <2>4. /\ Elements(reg[k]) \in Seq(Streams) /\ Len(Elements(reg[k])) = reg[k].len
        /\ \A i \in 1 .. reg[k].len : Elements(reg[k])[i] = heap[reg[k].arr][i]
        /\ \A s : s \in ToSet(Elements(reg[k])) <=> InHeader(heap, reg[k], s)
    BY <2>3, ElementsType, InElements DEF SliceInv
  <2> DEFINE q == Elements(reg[k])
  <2> HIDE DEF q
  <2>5. IsInjective(q)
    <3>1. \A i, j \in 1 .. Len(q) : q[i] = q[j] => i = j
      BY <2>2, <2>4 DEF RowExact, DistinctIn, DistinctTo, q
    <3> QED
      BY <2>4, <3>1 DEF IsInjective, q
  <2>6. \A s : InHeader(heap, reg[k], s) => s \in Streams /\ StreamKey[s] = k
    <3>1. PICK owner \in Owners : Owned(owner)
      BY DEF SerialContext, Context, KeyInv
    <3> QED
      BY <2>3, <3>1, HeaderKey DEF Owned, HeadersOwned, InHeader
  <2>7. \A s : s \in ToSet(q) <=> s \in {t \in Subscribed \ closed : StreamKey[t] = k}
    BY <2>1, <2>2, <2>4, <2>6 DEF RowExact, Open, Member, Subscribed, q
  <2> QED
    BY <2>5, <2>7 DEF q
<1> QED
  BY <1>1, SerialInvariant, PTL

\* Without the overlap no channel is closed twice, and no broadcast meets a
\* closed one.
THEOREM NeverPanics == SerialSpec => []NoPanic
<1>1. Context /\ GapInv /\ SerialInv => NoPanic
  BY DEF Context, HandlerTypes, SerialInv, Broadcasts, NoPanic
<1> QED
  BY <1>1, SerialInvariant, PTL

\* Whoever is open is in the slice of its key, unless a removal moves the cells.
LEMMA OpenRegistered ==
  ASSUME SerialContext, NEW s \in Streams, Open(s), ~(Busy(s) /\ writer.at = "shift")
  PROVE  InReg(s)
<1>1. CASE cleaner.at = "scan" /\ cleaner.key = StreamKey[s]
  <2>1. InHand(s) /\ s \notin closed
    BY <1>1, SerialTypes DEF Exact, ScanExact, Open
  <2> QED
    BY <1>1, <2>1, SerialTypes DEF SetInv, HandKept
<1>2. CASE ~(cleaner.at = "scan" /\ cleaner.key = StreamKey[s])
  <2>1. AtRest(StreamKey[s]) /\ StreamKey[s] \in Keys
    BY <1>2, HubAssumption DEF AtRest, Busy
  <2> QED
    BY <2>1, SerialTypes DEF Exact, RestExact, RowExact, InReg
<1> QED
  BY <1>1, <1>2

\* Whoever is open is kept (see Kept).
LEMMA OpenKept ==
  ASSUME SerialContext, NEW s \in Streams, Open(s)
  PROVE  Kept(s)
<1>1. CASE Busy(s) /\ writer.at = "shift"
  <2>1. InSeq(writer.old, s)
    BY <1>1, SerialTypes DEF Exact, ShiftExact, Busy
  <2> QED
    BY <1>1, <2>1 DEF Kept, InWriter
<1>2. CASE ~(Busy(s) /\ writer.at = "shift")
  BY <1>2, OpenRegistered, SerialTypes DEF SetInv, RegKept, Open
<1> QED
  BY <1>1, <1>2

\* Without the overlap the cleanup takes nobody from the registry but those it
\* closes: what its comment says (see YoungRegistered) fails by the overlap only.
THEOREM YoungStayRegistered == SerialSpec => []YoungRegistered
<1>1. Context /\ GapInv /\ SerialInv => YoungRegistered
  <2> SUFFICES ASSUME SerialContext, NEW s \in Streams, Reading(s), s \notin closed,
                      writer = NoWriter
               PROVE  Registered(s)
    BY DEF YoungRegistered, SerialContext, GapInv, Reading
  <2>1. InReg(s)
    BY OpenRegistered DEF Open, Member, Subscribed, Reading, NoWriter
  <2>2. reg[StreamKey[s]] \in Slices /\ SoundIn(heap, reg[StreamKey[s]]) /\ SliceInv
    BY HeadersTyped, HubAssumption DEF SerialContext, Context
  <2> QED
    BY <2>1, <2>2, InElements DEF Registered, InReg, SliceInv
<1> QED
  BY <1>1, SerialInvariant, PTL

\* Without the overlap a stream with a hole in it is cut off, or about to be:
\* an open subscriber is in the registry whenever a broadcast reads it.
THEOREM NoLossUnnoticed == SerialSpec => []NoSilentLoss
<1>1. Context /\ GapInv /\ SerialInv => NoSilentLoss
  <2> SUFFICES ASSUME SerialContext, MissInv, NEW s \in Streams, NEW m \in Messages,
                      Reading(s), mpc[m] = "acked", MessageKey[m] = StreamKey[s],
                      m \notin Held(s), s \notin closed, ~Evicting(s)
               PROVE  FALSE
    BY DEF NoSilentLoss, SerialContext, GapInv, Reading
  <2>1. Kept(s)
    BY OpenKept DEF Open, Member, Subscribed, Reading
  <2> QED
    BY <2>1 DEF MissInv
<1> QED
  BY <1>1, SerialInvariant, PTL

==============================================================================
