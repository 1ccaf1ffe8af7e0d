-------------------------- MODULE ChatHubGap_proof --------------------------
(***************************************************************************)
(* The theorem that no stream has a gap between its history and its live   *)
(* messages, whatever the cleanup overlaps.                                *)
(*                                                                         *)
(* The registry may lose an open subscriber, since the cleanup stores a    *)
(* slice it has collected without the lock.  What saves NoGap is that a    *)
(* subscriber never comes back: the call that holds s.mu will store every  *)
(* open subscriber the registry has, and the cleanup has collected, and    *)
(* can still read in its array, only subscribers that are registered or    *)
(* will be.  So whoever a broadcast did not reach because the registry did *)
(* not have it is never registered again.                                  *)
(***************************************************************************)
EXTENDS ChatHubKeys_proof

InSeq(q, s) == \E i \in 1 .. Len(q) : q[i] = s

InHeader(h, sl, s) == \E i \in 1 .. sl.len : h[sl.arr][i] = s

InReg(s) == InHeader(heap, reg[StreamKey[s]], s)

\* A call holds s.mu and the slice of the event of s.
Busy(s) == writer.at # "none" /\ StreamKey[writer.stream] = StreamKey[s]

\* The subscribers the writer knows: once it has found the one to remove, its
\* cells are on the move, and what it has read counts.
InWriter(s) == IF writer.at = "shift" THEN InSeq(writer.old, s)
                                      ELSE InHeader(heap, writer.slice, s)

Unread(s) == \E i \in cleaner.idx .. cleaner.slice.len : heap[cleaner.slice.arr][i] = s

\* What the cleanup has collected, or has not read yet.
InHand(s) ==
  /\ cleaner.at = "scan" /\ cleaner.key = StreamKey[s]
  /\ InSeq(cleaner.active, s) \/ Unread(s)

\* Whom the registry has, or will have when the writer stores its slice.
Kept(s) == IF Busy(s) THEN InWriter(s) ELSE InReg(s)

RegKept == \A s \in Streams \ closed : InReg(s) => Kept(s)

HandKept ==
  \A s \in Streams \ closed :
    InHand(s) => IF Busy(s) /\ writer.at = "shift" THEN InWriter(s) ELSE InReg(s)

\* How far the cells behind the removed one have moved.
Shifting ==
  writer.at = "shift" =>
    /\ writer.stream \in closed
    /\ \E i \in 1 .. writer.slice.len :
         /\ writer.old[i] = writer.stream
         /\ \A j \in 1 .. i - 1 : heap[writer.slice.arr][j] = writer.old[j]
         /\ \A j \in i .. writer.slice.len - 1 :
              j \notin writer.moves => heap[writer.slice.arr][j] = writer.old[j + 1]
         /\ writer.moves \subseteq i .. writer.slice.len - 1

SetInv == RegKept /\ HandKept /\ Shifting

Reading(s) == pc[s] \in {"live", "sending"}

\* An open stream that misses a message is not kept, unless the broadcast is
\* still to reach it.
MissInv ==
  \A s \in Streams \ closed, m \in Messages :
    (/\ Reading(s) /\ ~Evicting(s)
     /\ MessageKey[m] = StreamKey[s]
     /\ m \notin Held(s)
     /\ Kept(s))
    => /\ mpc[m] # "acked"
       /\ mpc[m] = "broadcasting" => InSeq(todo[m], s)

Context == SliceInv /\ HandlerTypes /\ KeyInv /\ BroadcastInv

------------------------------------------------------------------------------
\* Facts about the sets

LEMMA InHandInWriter ==
  ASSUME SetInv, NEW s \in Streams \ closed, Busy(s), InHand(s)
  PROVE  InWriter(s)
BY DEF SetInv, HandKept, RegKept, Kept

\* The header of another event points at another array than the writer's.
LEMMA Apart ==
  ASSUME Context, writer.slice.arr # 0
  PROVE  /\ \A k \in Keys : k # StreamKey[writer.stream] => reg[k].arr # writer.slice.arr
         /\ cleaner.key # StreamKey[writer.stream] => cleaner.slice.arr # writer.slice.arr
<1>1. PICK owner \in Owners : Owned(owner)
  BY DEF Context, KeyInv
<1> QED
  BY <1>1 DEF Owned, HeadersOwned

LEMMA HeadersTyped ==
  ASSUME SliceInv
  PROVE  /\ \A k \in Keys : /\ reg[k] \in Slices /\ reg[k].len \in Nat
                            /\ reg[k].arr \in 0 .. MaxArrays /\ SoundIn(heap, reg[k])
         /\ /\ writer.slice \in Slices /\ writer.slice.len \in Nat
            /\ writer.slice.arr \in 0 .. MaxArrays /\ SoundIn(heap, writer.slice)
         /\ /\ cleaner.slice \in Slices /\ cleaner.slice.len \in Nat
            /\ cleaner.slice.arr \in 0 .. MaxArrays /\ SoundIn(heap, cleaner.slice)
         /\ cleaner.idx \in Nat \ {0} /\ cleaner.active \in Seq(Streams)
         /\ cleaner \in Cleaners /\ writer \in Writers
         /\ heap \in [0 .. MaxArrays -> Seq(Streams \cup {NoStream})]
         /\ StreamKey \in [Streams -> Keys]
<1>1. /\ \A k \in Keys : reg[k] \in Slices /\ SoundIn(heap, reg[k])
      /\ writer.slice \in Slices /\ SoundIn(heap, writer.slice)
      /\ cleaner.slice \in Slices /\ SoundIn(heap, cleaner.slice)
      /\ cleaner.idx \in Nat \ {0} /\ cleaner.active \in Seq(Streams)
      /\ cleaner \in Cleaners /\ writer \in Writers
      /\ heap \in [0 .. MaxArrays -> Seq(Streams \cup {NoStream})]
  BY DEF SliceInv, SliceTypes, SlicesSound, Cleaners, Writers
<1> QED
  BY <1>1, SliceFields, HubAssumption

\* The elements of a sound header, as a set.
LEMMA InElements ==
  ASSUME SliceInv, NEW sl \in Slices, SoundIn(heap, sl), NEW s
  PROVE  /\ s \in ToSet(Elements(sl)) <=> InHeader(heap, sl, s)
         /\ InSeq(Elements(sl), s) <=> InHeader(heap, sl, s)
<1>1. /\ Elements(sl) \in Seq(Streams) /\ Len(Elements(sl)) = sl.len
      /\ \A i \in 1 .. sl.len : Elements(sl)[i] = heap[sl.arr][i]
  BY ElementsType DEF SliceInv
<1>2. InSeq(Elements(sl), s) <=> InHeader(heap, sl, s)
  BY <1>1 DEF InSeq, InHeader
<1>3. s \in ToSet(Elements(sl)) <=> InSeq(Elements(sl), s)
  <2> HIDE DEF Elements
  <2> QED BY <1>1 DEF ToSet, InSeq
<1> QED
  BY <1>2, <1>3

LEMMA Empty ==
  ASSUME NEW h, NEW s
  PROVE  ~InHeader(h, Nil, s)
BY DEF InHeader, Nil

\* Arrays in use keep their cells in an allocation.
LEMMA LiveHeaders ==
  ASSUME SliceInv
  PROVE  /\ \A k \in Keys : reg[k].arr \in LiveArrays
         /\ writer.slice.arr \in LiveArrays
         /\ cleaner.slice.arr \in LiveArrays
BY DEF LiveArrays

------------------------------------------------------------------------------
\* The shapes of the steps

\* Nothing but the list of closed subscribers changes.
LEMMA SetsStay ==
  ASSUME SetInv, UNCHANGED sliceVars, closed \subseteq closed'
  PROVE  SetInv' /\ \A s \in Streams : Kept(s)' => Kept(s)
BY DEF SetInv, sliceVars, RegKept, HandKept, Shifting, Kept, Busy, InReg, InWriter, InHand,
       InHeader, InSeq, Unread

\* The cleanup reads on, or begins a visit.
LEMMA CleanupReads ==
  ASSUME SetInv, UNCHANGED <<reg, heap, writer>>, closed \subseteq closed',
         \A s \in Streams : InHand(s)' => InHand(s) \/ InReg(s)
  PROVE  SetInv' /\ \A s \in Streams : Kept(s)' => Kept(s)
<1>1. \A s \in Streams : /\ Busy(s)' = Busy(s) /\ InReg(s)' = InReg(s)
                         /\ InWriter(s)' = InWriter(s) /\ Kept(s)' = Kept(s)
  BY DEF Kept, Busy, InReg, InWriter, InHeader, InSeq
<1>2. RegKept'
  BY <1>1 DEF SetInv, RegKept
<1>3. HandKept'
  BY <1>1 DEF SetInv, HandKept, RegKept, Kept
<1>4. Shifting'
  BY DEF SetInv, Shifting
<1> QED
  BY <1>1, <1>2, <1>3, <1>4 DEF SetInv

\* A call takes s.mu.
LEMMA WriterLoads ==
  ASSUME SetInv, writer = NoWriter, UNCHANGED <<reg, heap, cleaner, closed>>,
         NEW t \in Streams, NEW spawned, NEW at \in {"append", "close"},
         writer' = Holding(at, t, spawned)
  PROVE  SetInv' /\ \A s \in Streams : Kept(s)' => Kept(s)
<1>1. writer.at = "none"
  BY DEF NoWriter
<1>2. writer'.at = at /\ writer'.stream = t /\ writer'.slice = reg[StreamKey[t]]
  BY DEF Holding
<1>3. \A s \in Streams : /\ ~Busy(s) /\ InReg(s)' = InReg(s) /\ InHand(s)' = InHand(s)
                         /\ Busy(s)' => InWriter(s)' = InReg(s)
  BY <1>1, <1>2 DEF Busy, InReg, InHand, InWriter, InHeader, InSeq, Unread
<1>4. at # "shift"
  OBVIOUS
<1>5. RegKept' /\ \A s \in Streams : Kept(s)' => Kept(s)
  BY <1>3 DEF SetInv, RegKept, Kept
<1>6. HandKept'
  BY <1>2, <1>3, <1>4 DEF SetInv, HandKept
<1>7. Shifting'
  BY <1>2, <1>4 DEF Shifting
<1> QED
  BY <1>5, <1>6, <1>7 DEF SetInv

\* A call stores its slice, with a subscriber more or not, and releases s.mu.
LEMMA WriterStores ==
  ASSUME SetInv, writer.at # "none", writer' = NoWriter, closed' = closed,
         NEW joins,
         \A s \in Streams \ closed :
           IF StreamKey[writer.stream] = StreamKey[s]
           THEN InReg(s)' <=> InWriter(s) \/ s \in joins
           ELSE InReg(s)' <=> InReg(s),
         \A s \in Streams : InHand(s)' =>
           InHand(s) \/ (s \in joins /\ StreamKey[writer.stream] = StreamKey[s])
  PROVE  SetInv' /\ \A s \in Streams \ closed : Kept(s)' => Kept(s) \/ s \in joins
<1>1. writer'.at = "none"
  BY DEF NoWriter
<1>2. \A s \in Streams : ~Busy(s)' /\ (Busy(s) <=> StreamKey[writer.stream] = StreamKey[s])
  BY <1>1 DEF Busy
<1>3. RegKept'
  BY <1>2 DEF RegKept, Kept
<1>4. ASSUME NEW s \in Streams \ closed, InHand(s)' PROVE InReg(s)'
  <2>1. CASE s \in joins /\ StreamKey[writer.stream] = StreamKey[s]
    BY <2>1
  <2>2. CASE InHand(s) /\ Busy(s)
    BY <1>2, <2>2, InHandInWriter
  <2>3. CASE InHand(s) /\ ~Busy(s)
    BY <1>2, <2>3 DEF SetInv, HandKept
  <2> QED
    BY <1>4, <2>1, <2>2, <2>3
<1>5. HandKept'
  BY <1>2, <1>4 DEF HandKept
<1>6. Shifting'
  BY <1>1 DEF Shifting
<1>7. \A s \in Streams \ closed : Kept(s)' => Kept(s) \/ s \in joins
  BY <1>2 DEF Kept
<1> QED
  BY <1>3, <1>5, <1>6, <1>7 DEF SetInv

\* The cleanup stores what it has collected.
LEMMA CleanupStores ==
  ASSUME SetInv, UNCHANGED <<writer, closed>>, cleaner'.at # "scan",
         heap'[writer.slice.arr] = heap[writer.slice.arr],
         \A s \in Streams \ closed : InReg(s)' =>
           IF StreamKey[s] = cleaner.key THEN InHand(s) ELSE InReg(s)
  PROVE  SetInv' /\ \A s \in Streams \ closed : Kept(s)' => Kept(s)
<1>1. \A s \in Streams : Busy(s)' = Busy(s) /\ InWriter(s)' = InWriter(s) /\ ~InHand(s)'
  BY DEF Busy, InWriter, InHeader, InSeq, InHand
<1>2. RegKept'
  BY <1>1, InHandInWriter DEF SetInv, RegKept, Kept
<1>3. HandKept'
  BY <1>1 DEF HandKept
<1>4. Shifting'
  BY DEF SetInv, Shifting
<1>5. ASSUME NEW s \in Streams \ closed, Kept(s)' PROVE Kept(s)
  <2>1. CASE Busy(s)
    BY <1>1, <1>5, <2>1 DEF Kept
  <2>2. CASE ~Busy(s)
    <3>1. InReg(s)'
      BY <1>1, <1>5, <2>2 DEF Kept
    <3>2. InReg(s)
      BY <2>2, <3>1 DEF SetInv, HandKept
    <3> QED
      BY <2>2, <3>2 DEF Kept
  <2> QED
    BY <2>1, <2>2
<1> QED
  BY <1>2, <1>3, <1>4, <1>5 DEF SetInv

------------------------------------------------------------------------------
\* The steps of the calls that take s.mu, and of the cleanup

\* The sets are as they should be after the step, and no stream that is reading
\* has come back by it.
Settled ==
  SetInv' /\ \A s \in Streams \ closed' : Reading(s)' /\ Kept(s)' => Kept(s)

\* The cells after an append: those of the slice and the subscriber, in the
\* old array or in a new one.
LEMMA AppendedCells ==
  ASSUME Context, AppendInPlace \/ AppendGrow
  PROVE  LET t == writer.stream
             kt == StreamKey[writer.stream]
             sl == writer.slice
             new == reg'[kt]
         IN
         /\ new.len = sl.len + 1
         /\ \A i \in 1 .. sl.len : heap'[new.arr][i] = heap[sl.arr][i]
         /\ heap'[new.arr][sl.len + 1] = t
         /\ \A k \in Keys : k # kt => reg'[k] = reg[k] /\ heap'[reg[k].arr] = heap[reg[k].arr]
         /\ \A i \in cleaner.idx .. cleaner.slice.len :
              \/ heap'[cleaner.slice.arr][i] = heap[cleaner.slice.arr][i]
              \/ heap'[cleaner.slice.arr][i] = t /\ cleaner.key = kt
<1> DEFINE t == writer.stream
           kt == StreamKey[writer.stream]
           sl == writer.slice
           new == reg'[kt]
<1>1. /\ writer.at = "append" /\ writer' = NoWriter /\ UNCHANGED <<closed, cleaner>>
  BY DEF AppendInPlace, AppendGrow, AddReturns
<1>2. SliceInv /\ t \in Streams /\ kt \in Keys
  BY <1>1, HeadersTyped DEF Context, SliceInv, WriterSane
<1>3. /\ sl \in Slices /\ sl.len \in Nat /\ sl.arr \in 0 .. MaxArrays /\ SoundIn(heap, sl)
      /\ heap \in [0 .. MaxArrays -> Seq(Streams \cup {NoStream})]
      /\ \A k \in Keys : reg[k] \in Slices /\ reg[k].arr \in 0 .. MaxArrays
      /\ cleaner.slice.arr \in 0 .. MaxArrays
  BY <1>2, HeadersTyped
<1>4. /\ new.len = sl.len + 1
      /\ \A i \in 1 .. sl.len : heap'[new.arr][i] = heap[sl.arr][i]
      /\ heap'[new.arr][sl.len + 1] = t
      /\ \A k \in Keys : k # kt => reg'[k] = reg[k] /\ heap'[reg[k].arr] = heap[reg[k].arr]
      /\ \A i \in cleaner.idx .. cleaner.slice.len :
           \/ heap'[cleaner.slice.arr][i] = heap[cleaner.slice.arr][i]
           \/ heap'[cleaner.slice.arr][i] = t /\ cleaner.key = kt
  <2>1. CASE AppendInPlace
    <3>1. /\ sl.len < Len(heap[sl.arr])
          /\ heap' = [heap EXCEPT ![sl.arr] = [heap[sl.arr] EXCEPT ![sl.len + 1] = t]]
          /\ reg' = [reg EXCEPT ![kt] = [arr |-> sl.arr, len |-> sl.len + 1]]
      BY <2>1 DEF AppendInPlace, AddReturns
    <3>2. sl.len + 1 \in 1 .. Len(heap[sl.arr])
      BY <1>3, <3>1
    <3>3. /\ Len(heap'[sl.arr]) = Len(heap[sl.arr])
          /\ heap'[sl.arr][sl.len + 1] = t
          /\ \A j \in 1 .. Len(heap[sl.arr]) : j # sl.len + 1 => heap'[sl.arr][j] = heap[sl.arr][j]
      <4> HIDE DEF t, sl
      <4> QED BY <1>2, <1>3, <3>1, <3>2, CellWritten DEF SliceInv
    <3>4. \A a \in 0 .. MaxArrays : a # sl.arr => heap'[a] = heap[a]
      BY <1>3, <3>1
    <3>5. sl.arr # 0
      <4>1. PICK owner \in Owners : Owned(owner)
        BY DEF Context, KeyInv
      <4> QED
        BY <3>2, <4>1 DEF Owned, CellsOwned
    <3>6. /\ \A k \in Keys : k # kt => reg[k].arr # sl.arr
          /\ cleaner.key # kt => cleaner.slice.arr # sl.arr
      BY <3>5, Apart
    <3>7. new = [arr |-> sl.arr, len |-> sl.len + 1] /\ \A k \in Keys : k # kt => reg'[k] = reg[k]
      BY <1>2, <3>1 DEF SliceInv, SliceTypes
    <3> HIDE DEF t, sl, kt, new
    <3>8. \A i \in 1 .. sl.len : heap'[new.arr][i] = heap[sl.arr][i]
      BY <1>3, <3>1, <3>3, <3>7
    <3>9. \A i : heap'[sl.arr][i] = heap[sl.arr][i] \/ heap'[sl.arr][i] = t
      BY <1>3, <3>1, <3>2
    <3> QED
      BY <1>3, <3>3, <3>4, <3>6, <3>7, <3>8, <3>9
  <2>2. CASE AppendGrow
    <3> DEFINE q == Append(Elements(sl), t)
    <3>1. /\ FreeArrays # {} /\ heap' = Allocated(Padded(q, Grow(sl.len)))
          /\ reg' = [reg EXCEPT ![kt] = [arr |-> Fresh, len |-> sl.len + 1]]
      BY <2>2 DEF AppendGrow, AddReturns
    <3>2. /\ Elements(sl) \in Seq(Streams) /\ Len(Elements(sl)) = sl.len
          /\ \A i \in 1 .. sl.len : Elements(sl)[i] = heap[sl.arr][i]
      BY <1>2, <1>3, ElementsType DEF SliceInv
    <3> HIDE DEF t, sl, kt, new
    <3>3. /\ q \in Seq(Streams) /\ Len(q) = sl.len + 1 /\ q[sl.len + 1] = t
          /\ \A i \in 1 .. sl.len : q[i] = heap[sl.arr][i]
      BY <1>2, <1>3, <3>2
    <3> HIDE DEF q
    <3>4. Grow(sl.len) \in Nat /\ Len(q) <= Grow(sl.len)
      BY <1>3, <3>3 DEF Grow
    <3>5. /\ Padded(q, Grow(sl.len)) \in Seq(Streams \cup {NoStream})
          /\ \A i \in 1 .. Len(q) : Padded(q, Grow(sl.len))[i] = q[i]
      BY <3>3, <3>4, PaddedType
    <3>6. /\ heap'[Fresh] = Padded(q, Grow(sl.len))
          /\ \A a \in LiveArrays : heap'[a] = heap[a]
      BY <1>2, <3>1, <3>5, AllocatedCells DEF SliceInv
    <3>7. new.arr = Fresh /\ new.len = sl.len + 1 /\ \A k \in Keys : k # kt => reg'[k] = reg[k]
      <4> HIDE DEF Fresh
      <4> QED BY <1>2, <3>1 DEF SliceInv, SliceTypes, new
    <3>8. /\ \A k \in Keys : heap'[reg[k].arr] = heap[reg[k].arr]
          /\ heap'[cleaner.slice.arr] = heap[cleaner.slice.arr]
      BY <1>2, <3>6, LiveHeaders
    <3>9. \A i \in 1 .. sl.len + 1 : heap'[new.arr][i] = q[i]
      <4> HIDE DEF Fresh
      <4> QED BY <1>3, <3>3, <3>5, <3>6, <3>7
    <3>10. (1 .. sl.len) \subseteq 1 .. sl.len + 1 /\ sl.len + 1 \in 1 .. sl.len + 1
      BY <1>3
    <3>11. /\ \A i \in 1 .. sl.len : heap'[new.arr][i] = heap[sl.arr][i]
           /\ heap'[new.arr][sl.len + 1] = t
      BY <3>3, <3>9, <3>10, Zenon
    <3> QED
      BY <3>7, <3>8, <3>11
  <2> QED
    BY <2>1, <2>2
<1> QED
  BY <1>4

\* A new header with the elements of the old one, and the new subscriber.
LEMMA GapAppend ==
  ASSUME Context, SetInv, AppendInPlace \/ AppendGrow
  PROVE  Settled
<1> DEFINE t == writer.stream
           kt == StreamKey[writer.stream]
           sl == writer.slice
           new == reg'[kt]
<1>1. /\ writer.at = "append" /\ writer' = NoWriter /\ UNCHANGED <<closed, cleaner>>
      /\ pc' = [pc EXCEPT ![t] = "query"]
  BY DEF AppendInPlace, AppendGrow, AddReturns
<1>2. SliceInv /\ t \in Streams /\ kt \in Keys
  BY <1>1, HeadersTyped DEF Context, SliceInv, WriterSane
<1>3. /\ sl \in Slices /\ sl.len \in Nat /\ sl.arr \in 0 .. MaxArrays /\ SoundIn(heap, sl)
      /\ heap \in [0 .. MaxArrays -> Seq(Streams \cup {NoStream})]
      /\ \A k \in Keys : reg[k] \in Slices /\ reg[k].arr \in 0 .. MaxArrays
      /\ cleaner.slice.arr \in 0 .. MaxArrays
  BY <1>2, HeadersTyped
<1>4. /\ new.len = sl.len + 1
      /\ \A i \in 1 .. sl.len : heap'[new.arr][i] = heap[sl.arr][i]
      /\ heap'[new.arr][sl.len + 1] = t
      /\ \A k \in Keys : k # kt => reg'[k] = reg[k] /\ heap'[reg[k].arr] = heap[reg[k].arr]
      /\ \A i \in cleaner.idx .. cleaner.slice.len :
           \/ heap'[cleaner.slice.arr][i] = heap[cleaner.slice.arr][i]
           \/ heap'[cleaner.slice.arr][i] = t /\ cleaner.key = kt
  BY AppendedCells
<1>5. ASSUME NEW s \in Streams, kt = StreamKey[s]
      PROVE  InReg(s)' <=> InWriter(s) \/ s \in {t}
  <2> HIDE DEF t, sl, kt, new
  <2>1. InReg(s)' <=> InHeader(heap', new, s)
    BY <1>5 DEF InReg, InHeader, new
  <2>2. InWriter(s) <=> InHeader(heap, sl, s)
    BY <1>1 DEF InWriter, sl
  <2>3. InHeader(heap', new, s) <=> InHeader(heap, sl, s) \/ s = t
    <3>1. 1 .. new.len = (1 .. sl.len) \cup {sl.len + 1}
      BY <1>3, <1>4
    <3> QED
      BY <1>4, <3>1 DEF InHeader
  <2> QED
    BY <2>1, <2>2, <2>3
<1>6. ASSUME NEW s \in Streams, kt # StreamKey[s]
      PROVE  InReg(s)' <=> InReg(s)
  BY <1>4, <1>6, HubAssumption, SMTT(20) DEF InReg, InHeader
<1>7. ASSUME NEW s \in Streams, InHand(s)'
      PROVE  InHand(s) \/ (s \in {t} /\ kt = StreamKey[s])
  BY <1>1, <1>4, <1>7 DEF InHand, Unread, InSeq
<1>8. SetInv' /\ \A s \in Streams \ closed : Kept(s)' => Kept(s) \/ s \in {t}
  <2>1. \A s \in Streams \ closed :
          IF kt = StreamKey[s] THEN InReg(s)' <=> InWriter(s) \/ s \in {t}
                               ELSE InReg(s)' <=> InReg(s)
    BY <1>5, <1>6
  <2>2. writer.at # "none"
    BY <1>1
  <2> QED
    BY <1>1, <1>7, <2>1, <2>2, WriterStores
<1>9. pc'[t] \notin {"live", "sending"}
  BY <1>1, <1>2 DEF Context, HandlerTypes
<1> QED
  BY <1>1, <1>8, <1>9 DEF Settled, Reading

LEMMA GapRemoveClose ==
  ASSUME Context, SetInv, RemoveClose
  PROVE  Settled
<1> DEFINE sl == writer.slice
           t == writer.stream
<1>1. /\ SliceInv /\ sl \in Slices /\ sl.len \in Nat /\ SoundIn(heap, sl) /\ writer \in Writers
      /\ Elements(sl) \in Seq(Streams) /\ Len(Elements(sl)) = sl.len
      /\ \A i \in 1 .. sl.len : Elements(sl)[i] = heap[sl.arr][i]
  BY HeadersTyped, ElementsType DEF Context, SliceInv
<1>2. PICK i \in 1 .. sl.len :
        /\ Elements(sl)[i] = t
        /\ writer' = [writer EXCEPT !.at = "shift", !.old = Elements(sl), !.moves = i .. sl.len - 1]
  BY DEF RemoveClose
<1>3. /\ writer'.at = "shift" /\ writer'.stream = t /\ writer'.slice = sl
      /\ writer'.old = Elements(sl) /\ writer'.moves = i .. sl.len - 1
  BY <1>1, <1>2 DEF Writers
<1>4. /\ writer.at = "close" /\ closed' = closed \cup {t}
      /\ UNCHANGED <<reg, heap, cleaner>>
  BY DEF RemoveClose
<1>5. \A s \in Streams : InWriter(s)' = InWriter(s)
  <2> TAKE s \in Streams
  <2>1. InWriter(s) = InHeader(heap, sl, s)
    BY <1>4 DEF InWriter
  <2>2. InWriter(s)' = InSeq(Elements(sl), s)
    BY <1>3 DEF InWriter, InSeq
  <2> QED
    BY <1>1, <2>1, <2>2, InElements DEF InSeq, InHeader
<1>6. \A s \in Streams : /\ Busy(s)' = Busy(s) /\ InReg(s)' = InReg(s)
                         /\ InHand(s)' = InHand(s) /\ Kept(s)' = Kept(s)
  <2>1. \A s \in Streams : /\ Busy(s)' = Busy(s) /\ InReg(s)' = InReg(s)
                           /\ InHand(s)' = InHand(s)
    BY <1>3, <1>4 DEF Busy, InReg, InHand, InHeader, InSeq, Unread
  <2> QED
    BY <1>5, <2>1 DEF Kept
<1>7. RegKept'
  BY <1>4, <1>6 DEF SetInv, RegKept
<1>8. HandKept'
  BY <1>3, <1>4, <1>5, <1>6, InHandInWriter DEF SetInv, HandKept
<1>9. Shifting'
  <2>1. /\ writer'.old[i] = writer'.stream
        /\ \A j \in 1 .. i - 1 : heap'[writer'.slice.arr][j] = writer'.old[j]
        /\ \A j \in i .. writer'.slice.len - 1 : j \in writer'.moves
        /\ writer'.moves \subseteq i .. writer'.slice.len - 1
    <3> HIDE DEF sl, t
    <3> QED BY <1>1, <1>2, <1>3, <1>4
  <2>2. writer'.stream \in closed' /\ i \in 1 .. writer'.slice.len
    BY <1>3, <1>4
  <2> QED
    BY <2>1, <2>2 DEF Shifting
<1> QED
  BY <1>6, <1>7, <1>8, <1>9 DEF Settled, SetInv

LEMMA GapRemovePanic ==
  ASSUME Context, SetInv, RemovePanic
  PROVE  Settled
<1>1. /\ writer.at = "close" /\ writer'.at = "none" /\ UNCHANGED <<reg, heap, cleaner, closed>>
  BY DEF RemovePanic, NoWriter
<1>2. \A s \in Streams : /\ ~Busy(s)' /\ InReg(s)' = InReg(s) /\ InHand(s)' = InHand(s)
  BY <1>1 DEF Busy, InReg, InHand, InHeader, InSeq, Unread
<1>3. RegKept'
  BY <1>2 DEF RegKept, Kept
<1>4. HandKept'
  BY <1>1, <1>2 DEF SetInv, HandKept
<1>5. Shifting'
  BY <1>1 DEF Shifting
<1>6. \A s \in Streams \ closed : Kept(s)' => Kept(s)
  BY <1>2 DEF SetInv, RegKept, Kept
<1> QED
  BY <1>1, <1>3, <1>4, <1>5, <1>6 DEF Settled, SetInv

\* One cell moves: the elements behind it and the other arrays stay.
LEMMA ShiftedCells ==
  ASSUME Context, RemoveShift
  PROVE  LET sl == writer.slice
             t == writer.stream
             old == writer.old
         IN
         \E j \in writer.moves :
           /\ j \in Nat \ {0} /\ j < sl.len
           /\ writer'.at = "shift" /\ writer'.stream = t /\ writer'.slice = sl
           /\ writer'.old = old /\ writer'.moves = writer.moves \ {j}
           /\ UNCHANGED <<reg, cleaner, closed>>
           /\ heap'[sl.arr][j] = old[j + 1]
           /\ \A i : i # j => heap'[sl.arr][i] = heap[sl.arr][i]
           /\ \A a \in 0 .. MaxArrays : a # sl.arr => heap'[a] = heap[a]
           /\ \A k \in Keys : k # StreamKey[t] => reg[k].arr # sl.arr
           /\ cleaner.key # StreamKey[t] => cleaner.slice.arr # sl.arr
<1> DEFINE sl == writer.slice
           t == writer.stream
           old == writer.old
<1>1. /\ SliceInv /\ sl \in Slices /\ sl.len \in Nat /\ sl.arr \in 0 .. MaxArrays
      /\ SoundIn(heap, sl) /\ writer \in Writers /\ old \in Seq(Streams)
      /\ heap \in [0 .. MaxArrays -> Seq(Streams \cup {NoStream})]
      /\ writer.at = "shift" /\ Len(old) = sl.len
  BY HeadersTyped DEF Context, RemoveShift, SliceInv, WriterSane, Writers
<1>2. PICK j \in writer.moves :
        /\ heap' = [heap EXCEPT ![sl.arr] = [heap[sl.arr] EXCEPT ![j] = old[j + 1]]]
        /\ writer' = [writer EXCEPT !.moves = @ \ {j}]
  BY DEF RemoveShift
<1>3. /\ writer'.at = "shift" /\ writer'.stream = t /\ writer'.slice = sl
      /\ writer'.old = old /\ writer'.moves = writer.moves \ {j}
      /\ UNCHANGED <<reg, cleaner, closed>>
  BY <1>1, <1>2 DEF Writers, RemoveShift
<1>4. j \in Nat \ {0} /\ j < sl.len
  BY <1>1 DEF Writers, SliceInv, WriterSane
<1>5. old[j + 1] \in Streams /\ j \in 1 .. Len(heap[sl.arr])
  BY <1>1, <1>4 DEF SoundIn
<1>6. /\ heap'[sl.arr][j] = old[j + 1]
      /\ \A i : i # j => heap'[sl.arr][i] = heap[sl.arr][i]
      /\ \A a \in 0 .. MaxArrays : a # sl.arr => heap'[a] = heap[a]
  <2> HIDE DEF sl, old
  <2> QED BY <1>1, <1>2, <1>5
<1>7. sl.arr # 0
  <2>1. PICK owner \in Owners : Owned(owner)
    BY DEF Context, KeyInv
  <2> QED
    BY <1>5, <2>1 DEF Owned, CellsOwned
<1>8. /\ \A k \in Keys : k # StreamKey[t] => reg[k].arr # sl.arr
      /\ cleaner.key # StreamKey[t] => cleaner.slice.arr # sl.arr
  BY <1>7, Apart
<1> QED
  BY <1>3, <1>4, <1>6, <1>8

LEMMA GapRemoveShift ==
  ASSUME Context, SetInv, RemoveShift
  PROVE  Settled
<1> DEFINE sl == writer.slice
           t == writer.stream
           old == writer.old
<1>1. /\ SliceInv /\ sl \in Slices /\ sl.len \in Nat /\ sl.arr \in 0 .. MaxArrays
      /\ SoundIn(heap, sl) /\ writer \in Writers /\ old \in Seq(Streams)
      /\ heap \in [0 .. MaxArrays -> Seq(Streams \cup {NoStream})]
      /\ writer.at = "shift" /\ Len(old) = sl.len
  BY HeadersTyped DEF Context, RemoveShift, SliceInv, WriterSane, Writers
<1>2. PICK j \in writer.moves :
        /\ j \in Nat \ {0} /\ j < sl.len
        /\ writer'.at = "shift" /\ writer'.stream = t /\ writer'.slice = sl
        /\ writer'.old = old /\ writer'.moves = writer.moves \ {j}
        /\ UNCHANGED <<reg, cleaner, closed>>
        /\ heap'[sl.arr][j] = old[j + 1]
        /\ \A i : i # j => heap'[sl.arr][i] = heap[sl.arr][i]
        /\ \A a \in 0 .. MaxArrays : a # sl.arr => heap'[a] = heap[a]
        /\ \A k \in Keys : k # StreamKey[t] => reg[k].arr # sl.arr
        /\ cleaner.key # StreamKey[t] => cleaner.slice.arr # sl.arr
  BY ShiftedCells
<1>3. \A a \in 0 .. MaxArrays : \A i, s : heap'[a][i] = s => heap[a][i] = s \/ s = old[j + 1]
  BY <1>2
<1>4. InSeq(old, old[j + 1])
  BY <1>1, <1>2 DEF InSeq
<1> HIDE DEF sl, t, old
<1>5. \A s \in Streams : /\ Busy(s)' = Busy(s) /\ InWriter(s)' = InWriter(s)
                         /\ Busy(s) => InWriter(s) = InSeq(old, s)
                         /\ Busy(s) <=> StreamKey[t] = StreamKey[s]
  BY <1>1, <1>2 DEF Busy, InWriter, InSeq, t, old
<1>6. \A s \in Streams : /\ InReg(s)' => InReg(s) \/ s = old[j + 1]
                         /\ InHand(s)' => InHand(s) \/ s = old[j + 1]
  <2>1. \A k \in Keys : reg[k].arr \in 0 .. MaxArrays
    BY <1>1, HeadersTyped
  <2>2. cleaner.slice.arr \in 0 .. MaxArrays
    BY <1>1, HeadersTyped
  <2>3. UNCHANGED <<reg, cleaner>>
    BY <1>2
  <2>4. \A s \in Streams : InReg(s)' => InReg(s) \/ s = old[j + 1]
    BY <1>3, <2>1, <2>3, HubAssumption DEF InReg, InHeader
  <2>5. \A s \in Streams : Unread(s)' => Unread(s) \/ s = old[j + 1]
    BY <1>3, <2>2, <2>3 DEF Unread
  <2> QED
    BY <2>3, <2>4, <2>5 DEF InHand, InSeq
<1>7. \A s \in Streams : ~Busy(s) => InReg(s)' = InReg(s) /\ InHand(s)' = InHand(s)
  <2> SUFFICES ASSUME NEW s \in Streams, StreamKey[s] # StreamKey[t]
               PROVE  InReg(s)' = InReg(s) /\ InHand(s)' = InHand(s)
    BY <1>5
  <2>1. StreamKey[s] \in Keys /\ heap'[reg[StreamKey[s]].arr] = heap[reg[StreamKey[s]].arr]
    BY <1>1, <1>2, HeadersTyped
  <2>2. cleaner.key = StreamKey[s] => heap'[cleaner.slice.arr] = heap[cleaner.slice.arr]
    BY <1>1, <1>2, HeadersTyped
  <2> QED
    BY <1>2, <2>1, <2>2 DEF InReg, InHand, InHeader, InSeq, Unread
<1>8. RegKept'
  BY <1>2, <1>4, <1>5, <1>6, <1>7 DEF SetInv, RegKept, Kept
<1>9. HandKept'
  BY <1>1, <1>2, <1>4, <1>5, <1>6, <1>7 DEF SetInv, HandKept
<1>10. Shifting'
  <2>1. PICK i \in 1 .. sl.len :
          /\ old[i] = t
          /\ \A h \in 1 .. i - 1 : heap[sl.arr][h] = old[h]
          /\ \A h \in i .. sl.len - 1 : h \notin writer.moves => heap[sl.arr][h] = old[h + 1]
          /\ writer.moves \subseteq i .. sl.len - 1
    BY <1>1 DEF SetInv, Shifting, sl, t, old
  <2>2. t \in closed
    BY <1>1 DEF SetInv, Shifting, t
  <2>3. j \in i .. sl.len - 1
    BY <2>1
  <2>4. \A h \in 1 .. i - 1 : heap'[sl.arr][h] = old[h]
    BY <1>1, <1>2, <2>1, <2>3
  <2>5. \A h \in i .. sl.len - 1 : h \notin writer.moves \ {j} => heap'[sl.arr][h] = old[h + 1]
    BY <1>2, <2>1, <2>3
  <2> QED
    BY <1>2, <2>1, <2>2, <2>4, <2>5 DEF Shifting
<1>11. \A s \in Streams : Kept(s)' => Kept(s)
  BY <1>5, <1>7 DEF Kept
<1> QED
  BY <1>8, <1>9, <1>10, <1>11 DEF Settled, SetInv

\* removeSubscriber stores a slice with all that the writer knows, but for the
\* subscriber it has closed.
LEMMA GapRemoveStores ==
  ASSUME Context, SetInv, RemoveStore \/ RemoveMissing
  PROVE  Settled
<1> DEFINE sl == writer.slice
           t == writer.stream
           kt == StreamKey[writer.stream]
<1>1. /\ SliceInv /\ sl \in Slices /\ sl.len \in Nat /\ sl.arr \in 0 .. MaxArrays
      /\ SoundIn(heap, sl) /\ writer \in Writers /\ writer.at # "none"
      /\ t \in Streams /\ kt \in Keys
      /\ writer' = NoWriter /\ UNCHANGED <<heap, cleaner, closed>>
  BY HeadersTyped
     DEF Context, RemoveStore, RemoveMissing, RemoveStores, SliceInv, WriterSane
<1>2. PICK new : /\ reg' = [reg EXCEPT ![kt] = IF new.len = 0 THEN Nil ELSE new]
                 /\ new.len \in Nat
                 /\ \A s \in Streams \ closed : InHeader(heap, new, s) <=> InWriter(s)
  <2>1. CASE RemoveMissing
    <3>1. reg' = [reg EXCEPT ![kt] = IF sl.len = 0 THEN Nil ELSE sl] /\ writer.at = "close"
      BY <2>1 DEF RemoveMissing, RemoveStores
    <3>2. \A s \in Streams : InWriter(s) <=> InHeader(heap, sl, s)
      BY <3>1 DEF InWriter
    <3> QED
      BY <1>1, <3>1, <3>2
  <2>2. CASE RemoveStore
    <3> DEFINE new == [writer.slice EXCEPT !.len = @ - 1]
    <3>1. /\ reg' = [reg EXCEPT ![kt] = IF new.len = 0 THEN Nil ELSE new]
          /\ writer.at = "shift" /\ writer.moves = {}
      BY <2>2 DEF RemoveStore, RemoveStores
    <3>2. sl.len > 0 /\ Len(writer.old) = sl.len
      BY <1>1, <3>1 DEF SliceInv, WriterSane
    <3>3. new.arr = sl.arr /\ new.len = sl.len - 1 /\ new.len \in Nat
      BY <1>1, <3>2 DEF Slices
    <3>4. PICK i \in 1 .. sl.len :
            /\ writer.old[i] = t
            /\ \A h \in 1 .. i - 1 : heap[sl.arr][h] = writer.old[h]
            /\ \A h \in i .. sl.len - 1 : heap[sl.arr][h] = writer.old[h + 1]
      BY <3>1 DEF SetInv, Shifting
    <3>5. t \in closed
      BY <3>1 DEF SetInv, Shifting
    <3> HIDE DEF new, sl, t, kt
    <3>6. ASSUME NEW s \in Streams \ closed, InHeader(heap, new, s) PROVE InSeq(writer.old, s)
      <4>1. PICK h \in 1 .. sl.len - 1 : heap[sl.arr][h] = s
        BY <3>3, <3>6 DEF InHeader
      <4>2. CASE h < i
        BY <1>1, <3>2, <3>4, <4>1, <4>2 DEF InSeq
      <4>3. CASE ~(h < i)
        <5>1. h + 1 \in 1 .. Len(writer.old) /\ writer.old[h + 1] = s
          BY <1>1, <3>2, <3>4, <4>1, <4>3
        <5> QED
          BY <5>1 DEF InSeq
      <4> QED
        BY <4>2, <4>3
    <3>7. ASSUME NEW s \in Streams \ closed, InSeq(writer.old, s) PROVE InHeader(heap, new, s)
      <4>1. PICK h \in 1 .. sl.len : writer.old[h] = s
        BY <3>2, <3>7 DEF InSeq
      <4>2. h # i
        BY <3>4, <3>5, <4>1
      <4>3. CASE h < i
        <5>1. h \in 1 .. new.len /\ heap[new.arr][h] = s
          BY <1>1, <3>3, <3>4, <4>1, <4>3
        <5> QED
          BY <5>1 DEF InHeader
      <4>4. CASE h > i
        <5>1. h - 1 \in i .. sl.len - 1 /\ (h - 1) + 1 = h
          BY <1>1, <4>4
        <5>2. h - 1 \in 1 .. new.len /\ heap[new.arr][h - 1] = s
          BY <1>1, <3>3, <3>4, <4>1, <4>4, <5>1
        <5> QED
          BY <5>2 DEF InHeader
      <4> QED
        BY <4>2, <4>3, <4>4
    <3>8. \A s \in Streams \ closed : InHeader(heap, new, s) <=> InWriter(s)
      BY <3>1, <3>6, <3>7 DEF InWriter
    <3> QED
      BY <3>1, <3>3, <3>8
  <2> QED
    BY <2>1, <2>2
<1> HIDE DEF sl, t, kt
<1>3. /\ reg'[kt] = (IF new.len = 0 THEN Nil ELSE new)
      /\ \A k \in Keys : k # kt => reg'[k] = reg[k]
  BY <1>1, <1>2 DEF SliceInv, SliceTypes
<1>4. ASSUME NEW s \in Streams \ closed
      PROVE  IF kt = StreamKey[s] THEN InReg(s)' <=> InWriter(s) \/ s \in {}
                                  ELSE InReg(s)' <=> InReg(s)
  <2>1. CASE kt = StreamKey[s]
    <3>1. InReg(s)' <=> InHeader(heap, reg'[kt], s)
      BY <1>1, <2>1 DEF InReg, InHeader
    <3>2. CASE new.len = 0
      BY <1>2, <1>3, <2>1, <3>1, <3>2, Empty DEF InHeader
    <3>3. CASE new.len # 0
      BY <1>2, <1>3, <2>1, <3>1, <3>3
    <3> QED
      BY <3>2, <3>3
  <2>2. CASE kt # StreamKey[s]
    BY <1>1, <1>3, <2>2, HubAssumption DEF InReg, InHeader
  <2> QED
    BY <2>1, <2>2
<1>5. \A s \in Streams : InHand(s)' => InHand(s) \/ (s \in {} /\ kt = StreamKey[s])
  BY <1>1 DEF InHand, InSeq, Unread
<1>6. SetInv' /\ \A s \in Streams \ closed : Kept(s)' => Kept(s) \/ s \in {}
  BY <1>1, <1>4, <1>5, WriterStores DEF kt
<1> QED
  BY <1>1, <1>6 DEF Settled

LEMMA GapAddLock ==
  ASSUME Context, SetInv, NEW t \in Streams, AddLock(t)
  PROVE  Settled
<1>1. /\ writer = NoWriter /\ UNCHANGED <<reg, heap, cleaner, closed>>
      /\ writer' = Holding("append", t, FALSE)
  BY DEF AddLock, CanLock
<1>2. SetInv' /\ \A s \in Streams : Kept(s)' => Kept(s)
  BY <1>1, WriterLoads
<1> QED
  BY <1>2 DEF Settled

LEMMA GapRemoveLock ==
  ASSUME Context, SetInv, NEW t \in Streams, NEW spawned \in BOOLEAN, RemoveLock(t, spawned)
  PROVE  Settled
<1>1. writer = NoWriter /\ UNCHANGED <<reg, heap, cleaner, closed>>
  BY DEF RemoveLock, CanLock
<1>2. CASE UNCHANGED writer
  <2>1. SetInv' /\ \A s \in Streams : Kept(s)' => Kept(s)
    BY <1>1, <1>2, SetsStay DEF sliceVars
  <2> QED
    BY <2>1 DEF Settled
<1>3. CASE writer' = Holding("close", t, spawned)
  <2>1. SetInv' /\ \A s \in Streams : Kept(s)' => Kept(s)
    BY <1>1, <1>3, WriterLoads
  <2> QED
    BY <2>1 DEF Settled
<1> QED
  BY <1>2, <1>3 DEF RemoveLock

\* Tick, Visit, ScanKeep, ScanClose, EndPass: what the cleanup has in hand was
\* in hand before, or is in the registry.
LEMMA GapCleanupReads ==
  ASSUME Context, SetInv,
         Tick \/ (\E k \in Keys : Visit(k)) \/ ScanKeep \/ ScanClose \/ EndPass
  PROVE  Settled
<1>1. /\ cleaner \in Cleaners /\ cleaner.idx \in Nat \ {0} /\ cleaner.active \in Seq(Streams)
      /\ cleaner.slice.len \in Nat
  BY HeadersTyped DEF Context
<1>2. UNCHANGED <<reg, heap, writer>> /\ closed \subseteq closed'
  BY DEF Tick, Visit, ScanKeep, ScanClose, EndPass, hubVars
<1>3. ASSUME NEW s \in Streams, InHand(s)' PROVE InHand(s) \/ InReg(s)
  <2>1. CASE Tick \/ EndPass
    <3> DEFINE seen == {k \in Keys : reg[k] # Nil}
    <3>1. cleaner' = [cleaner EXCEPT !.at = "range", !.left = seen] \/ cleaner' = NoScan
      BY <2>1 DEF Tick, EndPass
    <3> HIDE DEF seen
    <3>2. cleaner'.at # "scan"
      <4>1. CASE cleaner' = [cleaner EXCEPT !.at = "range", !.left = seen]
        BY <1>1, <4>1 DEF Cleaners
      <4>2. NoScan.at = "idle"
        BY DEF NoScan
      <4> QED
        BY <3>1, <4>1, <4>2
    <3> QED
      BY <1>3, <3>2 DEF InHand
  <2>2. ASSUME NEW k \in Keys, Visit(k) PROVE InReg(s)
    <3>1. cleaner.active = <<>>
      BY <2>2 DEF Context, KeyInv, Owned, CopiesOwned, Visit
    <3>2. cleaner'.active = <<>>
      BY <1>1, <2>2, <3>1 DEF Visit, Cleaners
    <3>3. cleaner'.slice = reg[k] /\ cleaner'.key = k /\ cleaner'.idx = cleaner.idx
      BY <1>1, <1>3, <2>2 DEF Visit, Cleaners, InHand
    <3>4. k = StreamKey[s] /\ Unread(s)'
      BY <1>3, <3>2, <3>3 DEF InHand, InSeq
    <3>5. PICK i \in cleaner.idx .. reg[k].len : heap[reg[k].arr][i] = s
      BY <1>2, <3>3, <3>4 DEF Unread
    <3>6. i \in 1 .. reg[k].len
      BY <1>1, <3>5, HeadersTyped DEF Context
    <3> QED
      BY <3>4, <3>5, <3>6 DEF InReg, InHeader
  <2>3. CASE ScanKeep \/ ScanClose
    <3>1. /\ cleaner'.at = "scan" /\ cleaner.at = "scan" /\ cleaner'.key = cleaner.key
          /\ cleaner'.slice = cleaner.slice /\ cleaner'.idx = cleaner.idx + 1
          /\ cleaner.idx <= cleaner.slice.len
          /\ \/ cleaner'.active = cleaner.active
             \/ cleaner'.active = Append(cleaner.active, Scanned)
      BY <1>1, <2>3 DEF ScanKeep, ScanClose, Cleaners
    <3>2. Unread(s)' => Unread(s)
      BY <1>1, <1>2, <3>1 DEF Unread
    <3>3. Scanned = s => Unread(s)
      BY <1>1, <3>1 DEF Scanned, Unread
    <3>4. InSeq(cleaner.active, s)' => InSeq(cleaner.active, s) \/ Scanned = s
      <4> HIDE DEF Scanned
      <4> QED BY <1>1, <3>1 DEF InSeq
    <3> QED
      BY <1>3, <3>1, <3>2, <3>3, <3>4 DEF InHand
  <2> QED
    BY <2>1, <2>2, <2>3
<1>4. SetInv' /\ \A s \in Streams : Kept(s)' => Kept(s)
  BY <1>2, <1>3, CleanupReads
<1> QED
  BY <1>4 DEF Settled

\* What the cleanup has collected becomes the slice of its key, in a new array.
LEMMA CleanupCells ==
  ASSUME Context, ScanDelete \/ ScanStore
  PROVE  /\ heap'[writer.slice.arr] = heap[writer.slice.arr]
         /\ \A k \in Keys : k # cleaner.key =>
              reg'[k] = reg[k] /\ heap'[reg[k].arr] = heap[reg[k].arr]
         /\ reg'[cleaner.key].len = Len(cleaner.active)
         /\ \A i \in 1 .. Len(cleaner.active) :
              heap'[reg'[cleaner.key].arr][i] = cleaner.active[i]
<1>1. SliceInv /\ cleaner.key \in Keys
  BY DEF Context, SliceInv, SliceTypes
<1>2. CASE ScanDelete
  <2>1. reg' = [reg EXCEPT ![cleaner.key] = Nil] /\ heap' = heap /\ cleaner.active = <<>>
    BY <1>2 DEF ScanDelete
  <2>2. reg'[cleaner.key] = Nil /\ \A k \in Keys : k # cleaner.key => reg'[k] = reg[k]
    BY <1>1, <2>1 DEF SliceInv, SliceTypes
  <2> QED
    BY <2>1, <2>2 DEF Nil
<1>3. CASE ScanStore
  <2> DEFINE q == cleaner.active
             c == cleaner.cap
  <2>1. /\ FreeArrays # {} /\ heap' = Allocated(Padded(q, c))
        /\ reg' = [reg EXCEPT ![cleaner.key] = [arr |-> Fresh, len |-> Len(q)]]
    BY <1>3 DEF ScanStore
  <2>2. q \in Seq(Streams) /\ c \in Nat /\ Len(q) <= c
    BY <1>1 DEF SliceInv, SliceTypes, CleanerSane
  <2> HIDE DEF q, c
  <2>3. /\ Padded(q, c) \in Seq(Streams \cup {NoStream})
        /\ \A i \in 1 .. Len(q) : Padded(q, c)[i] = q[i]
    BY <2>2, PaddedType
  <2>4. heap'[Fresh] = Padded(q, c) /\ \A a \in LiveArrays : heap'[a] = heap[a]
    BY <1>1, <2>1, <2>3, AllocatedCells DEF SliceInv
  <2> HIDE DEF Fresh
  <2>5. /\ reg'[cleaner.key].arr = Fresh /\ reg'[cleaner.key].len = Len(q)
        /\ \A k \in Keys : k # cleaner.key => reg'[k] = reg[k]
    BY <1>1, <2>1 DEF SliceInv, SliceTypes
  <2> QED
    BY <1>1, <2>3, <2>4, <2>5, LiveHeaders DEF q
<1> QED
  BY <1>2, <1>3

LEMMA GapCleanupStores ==
  ASSUME Context, SetInv, ScanDelete \/ ScanStore
  PROVE  Settled
<1>1. /\ SliceInv /\ cleaner.key \in Keys /\ cleaner.at = "scan"
      /\ UNCHANGED <<writer, closed>> /\ cleaner'.at # "scan"
  BY DEF Context, SliceInv, SliceTypes, ScanDelete, ScanStore, EndVisit, NoScan
<1>2. /\ heap'[writer.slice.arr] = heap[writer.slice.arr]
      /\ \A k \in Keys : k # cleaner.key => reg'[k] = reg[k] /\ heap'[reg[k].arr] = heap[reg[k].arr]
      /\ \A s : InHeader(heap', reg'[cleaner.key], s) => InSeq(cleaner.active, s)
  BY CleanupCells DEF InHeader, InSeq
<1>3. ASSUME NEW s \in Streams \ closed, InReg(s)'
      PROVE  IF StreamKey[s] = cleaner.key THEN InHand(s) ELSE InReg(s)
  <2>1. CASE StreamKey[s] = cleaner.key
    BY <1>1, <1>2, <1>3, <2>1 DEF InReg, InHeader, InHand
  <2>2. CASE StreamKey[s] # cleaner.key
    BY <1>2, <1>3, <2>2, HubAssumption DEF InReg, InHeader
  <2> QED
    BY <2>1, <2>2
<1>4. SetInv' /\ \A s \in Streams \ closed : Kept(s)' => Kept(s)
  BY <1>1, <1>2, <1>3, CleanupStores
<1> QED
  BY <1>1, <1>4 DEF Settled

------------------------------------------------------------------------------
\* No stream that misses a message is kept

\* The steps of the registry: nobody comes back, and whoever is about to be
\* evicted stays so or is gone.
LEMMA MissHub ==
  ASSUME MissInv, Settled, closed \subseteq closed', UNCHANGED <<mpc, todo, queue, sent>>,
         \A s \in Streams \ closed' : Reading(s)' => Reading(s),
         \A s \in Streams \ closed' : Reading(s)' /\ Kept(s)' /\ Evicting(s) => Evicting(s)'
  PROVE  MissInv'
<1> SUFFICES ASSUME NEW s \in Streams \ closed', NEW m \in Messages,
                    Reading(s)', ~Evicting(s)', MessageKey[m] = StreamKey[s],
                    m \notin Held(s)', Kept(s)'
             PROVE  mpc'[m] # "acked" /\ (mpc'[m] = "broadcasting" => InSeq(todo'[m], s))
  BY DEF MissInv, InSeq
<1>1. s \in Streams \ closed /\ Reading(s) /\ Kept(s) /\ ~Evicting(s)
  BY DEF Settled
<1>2. m \notin Held(s)
  BY DEF Held
<1> QED
  BY <1>1, <1>2 DEF MissInv

LEMMA MissWriter ==
  ASSUME Context, SetInv, MissInv, AddSubscriber \/ RemoveSubscriber
  PROVE  SetInv' /\ MissInv'
<1>1. /\ pc \in [Streams -> {"start", "adding", "query", "live", "sending", "leaving",
                             "removing", "ended"}]
      /\ evict \in [Streams -> Nat]
  BY DEF Context, HandlerTypes
<1>2. UNCHANGED <<mpc, todo, queue, sent>>
  BY DEF AddSubscriber, RemoveSubscriber, AddLock, AppendInPlace, AppendGrow, AddReturns,
         RemoveLock, RemoveBody, RemoveClose, RemovePanic, RemoveShift, RemoveStore,
         RemoveMissing, RemoveStores, messageVars, streamVars
<1>3. ASSUME NEW t \in Streams, AddLock(t) PROVE SetInv' /\ MissInv'
  <2>1. Settled /\ UNCHANGED closed
    BY <1>3, GapAddLock DEF AddLock
  <2>2. pc' = [pc EXCEPT ![t] = "adding"] /\ evict' = evict /\ writer = NoWriter
    BY <1>3 DEF AddLock, CanLock
  <2>3. \A s \in Streams : Reading(s)' => Reading(s)
    BY <1>1, <2>2 DEF Reading
  <2>4. \A s \in Streams : Evicting(s) => Evicting(s)'
    BY <2>2 DEF Evicting, NoWriter
  <2> QED
    BY <1>2, <2>1, <2>3, <2>4, MissHub DEF Settled
<1>4. CASE AppendInPlace \/ AppendGrow
  <2>1. Settled /\ UNCHANGED closed
    BY <1>4, GapAppend DEF AppendInPlace, AppendGrow, AddReturns
  <2>2. pc' = [pc EXCEPT ![writer.stream] = "query"] /\ evict' = evict
    BY <1>4 DEF AppendInPlace, AppendGrow, AddReturns
  <2>3. \A s \in Streams : Reading(s)' => Reading(s) /\ s # writer.stream
    BY <1>1, <2>2 DEF Reading
  <2>4. \A s \in Streams : Reading(s)' /\ Evicting(s) => Evicting(s)'
    BY <2>2, <2>3 DEF Evicting
  <2> QED
    BY <1>2, <2>1, <2>3, <2>4, MissHub DEF Settled
<1>5. ASSUME NEW t \in Streams, NEW spawned \in BOOLEAN, RemoveLock(t, spawned)
      PROVE  SetInv' /\ MissInv'
  <2>1. Settled /\ UNCHANGED <<closed, reg, heap>> /\ writer = NoWriter
    BY <1>5, GapRemoveLock DEF RemoveLock, CanLock
  <2>2. /\ evict' = IF spawned THEN [evict EXCEPT ![t] = @ - 1] ELSE evict
        /\ \/ reg[StreamKey[t]] = Nil /\ writer' = writer
           \/ writer' = Holding("close", t, spawned)
        /\ \A s \in Streams : pc'[s] = pc[s] \/ pc'[s] \in {"ended", "removing"}
    BY <1>1, <1>5 DEF RemoveLock, RemoveReturns
  <2>3. \A s \in Streams : Reading(s)' => Reading(s)
    BY <2>2 DEF Reading
  <2>4. ASSUME NEW s \in Streams, Kept(s)', Evicting(s) PROVE Evicting(s)'
    <3>1. evict[s] > 0
      BY <2>1, <2>4, HubAssumption DEF Evicting, NoWriter
    <3>2. CASE s # t \/ ~spawned
      BY <1>1, <2>2, <3>1, <3>2 DEF Evicting
    <3>3. CASE s = t /\ spawned /\ writer' = Holding("close", t, spawned)
      BY <3>3 DEF Evicting, Holding
    <3>4. CASE s = t /\ reg[StreamKey[t]] = Nil /\ writer' = writer
      <4>1. ~InReg(s)' /\ ~Busy(s)'
        BY <2>1, <3>4, Empty DEF InReg, InHeader, Busy, NoWriter
      <4> QED
        BY <2>4, <4>1 DEF Kept
    <3> QED
      BY <2>2, <3>2, <3>3, <3>4
  <2> QED
    BY <1>2, <2>1, <2>3, <2>4, MissHub DEF Settled
<1>6. CASE RemoveClose \/ RemoveShift
  <2>1. Settled /\ closed \subseteq closed' /\ UNCHANGED <<pc, evict>>
    BY <1>6, GapRemoveClose, GapRemoveShift DEF RemoveClose, RemoveShift, streamVars
  <2>2. writer'.stream = writer.stream /\ writer'.spawned = writer.spawned
    BY <1>6, HeadersTyped DEF Context, RemoveClose, RemoveShift, Writers
  <2>3. \A s \in Streams : (Reading(s)' => Reading(s)) /\ (Evicting(s) => Evicting(s)')
    BY <2>1, <2>2 DEF Reading, Evicting
  <2> QED
    BY <1>2, <2>1, <2>3, MissHub DEF Settled
<1>7. CASE RemovePanic \/ RemoveStore \/ RemoveMissing
  <2>1. Settled /\ UNCHANGED <<closed, evict, heap>> /\ writer.at # "none"
    BY <1>7, GapRemovePanic, GapRemoveStores
       DEF RemovePanic, RemoveStore, RemoveMissing, RemoveStores
  <2>2. \A s \in Streams : pc'[s] = pc[s] \/ pc'[s] = "ended"
    BY <1>1, <1>7 DEF RemovePanic, RemoveStore, RemoveMissing, RemoveStores, RemoveReturns
  <2>3. \A s \in Streams : Reading(s)' => Reading(s)
    BY <2>2 DEF Reading
  <2>4. ASSUME NEW s \in Streams \ closed, Kept(s)', s = writer.stream PROVE FALSE
    <3>1. CASE RemovePanic
      BY <2>4, <3>1 DEF RemovePanic
    <3>2. CASE RemoveStore
      BY <2>4, <3>2 DEF RemoveStore, SetInv, Shifting
    <3>3. CASE RemoveMissing
      <4>1. /\ writer.at = "close" /\ s \notin ToSet(Elements(writer.slice))
        BY <2>4, <3>3 DEF RemoveMissing
      <4>2. ~InHeader(heap, writer.slice, s)
        BY <4>1, InElements, HeadersTyped DEF Context
      <4>3. /\ writer'.at = "none"
            /\ reg' = [reg EXCEPT ![StreamKey[s]] =
                         IF writer.slice.len = 0 THEN Nil ELSE writer.slice]
        BY <2>4, <3>3 DEF RemoveMissing, RemoveStores, NoWriter
      <4>4. StreamKey[s] \in Keys /\ reg \in [Keys -> Slices]
        BY HubAssumption DEF Context, SliceInv, SliceTypes
      <4>5. InHeader(heap, IF writer.slice.len = 0 THEN Nil ELSE writer.slice, s)
        BY <2>1, <2>4, <4>3, <4>4 DEF Kept, Busy, InReg, InHeader
      <4> QED
        BY <4>2, <4>5, Empty
    <3> QED
      BY <1>7, <3>1, <3>2, <3>3
  <2>5. \A s \in Streams \ closed : Kept(s)' /\ Evicting(s) => Evicting(s)'
    BY <2>1, <2>4 DEF Evicting
  <2> QED
    BY <1>2, <2>1, <2>3, <2>5, MissHub DEF Settled
<1> QED
  BY <1>3, <1>4, <1>5, <1>6, <1>7 DEF AddSubscriber, RemoveSubscriber, RemoveBody

LEMMA MissCleanup ==
  ASSUME Context, SetInv, MissInv, Cleanup
  PROVE  SetInv' /\ MissInv'
<1>1. UNCHANGED <<mpc, todo, queue, sent, pc, evict, writer>> /\ closed \subseteq closed'
  BY DEF Cleanup, CleanupVisit, Tick, Visit, ScanKeep, ScanClose, ScanPanic, ScanDelete,
         ScanStore, EndPass, hubVars, messageVars, streamVars
<1>2. Settled
  <2>1. CASE ScanPanic
    <3>1. UNCHANGED sliceVars
      BY <2>1 DEF ScanPanic, hubVars, sliceVars
    <3>2. SetInv' /\ \A s \in Streams : Kept(s)' => Kept(s)
      BY <1>1, <3>1, SetsStay
    <3> QED
      BY <3>2 DEF Settled
  <2> QED
    BY <2>1, GapCleanupReads, GapCleanupStores DEF Cleanup, CleanupVisit
<1>3. \A s \in Streams : (Reading(s)' => Reading(s)) /\ (Evicting(s) => Evicting(s)')
  BY <1>1 DEF Reading, Evicting
<1> QED
  BY <1>1, <1>2, <1>3, MissHub DEF Settled

LEMMA QueueKeeps ==
  ASSUME NEW q \in Seq(Messages), NEW m \in Messages
  PROVE  /\ ToSet(q) \subseteq ToSet(Append(q, m)) /\ m \in ToSet(Append(q, m))
         /\ q # <<>> => ToSet(q) \subseteq {Head(q)} \cup ToSet(Tail(q))
<1>1. ToSet(q) \subseteq ToSet(Append(q, m))
  BY DEF ToSet
<1>2. m \in ToSet(Append(q, m))
  <2>1. Len(q) + 1 \in 1 .. Len(Append(q, m)) /\ Append(q, m)[Len(q) + 1] = m
    OBVIOUS
  <2> QED
    BY <2>1 DEF ToSet
<1>3. ASSUME q # <<>>, NEW x \in ToSet(q), x # Head(q) PROVE x \in ToSet(Tail(q))
  <2>1. PICK i \in 1 .. Len(q) : q[i] = x
    BY <1>3 DEF ToSet
  <2>2. Tail(q) \in Seq(Messages) /\ i # 1
    BY <1>3, <2>1
  <2>3. i - 1 \in DOMAIN Tail(q) /\ Tail(q)[i - 1] = x
    BY <2>1, <2>2
  <2> QED
    BY <2>3 DEF ToSet
<1> QED
  BY <1>1, <1>2, <1>3

\* A broadcast: whoever its call has not sent the message to by its end is not
\* registered, or is about to be evicted.
LEMMA MissMessage ==
  ASSUME Context, SetInv, MissInv, NEW m \in Messages, CreateMessage(m)
  PROVE  SetInv' /\ MissInv'
<1>1. /\ UNCHANGED <<reg, heap, closed, writer, cleaner, pc, sent>>
      /\ mpc \in [Messages -> {"start", "stored", "unsent", "broadcasting", "acked", "failed"}]
      /\ todo \in [Messages -> Seq(Streams)] /\ evict \in [Streams -> Nat]
      /\ queue \in [Streams -> Seq(Messages)]
  BY DEF CreateMessage, Insert, BroadcastStep, BroadcastLock, BroadcastSend, BroadcastPanic,
         BroadcastUnlock, hubVars, streamVars, Context, HandlerTypes
<1>2. SetInv' /\ \A s \in Streams : Kept(s)' => Kept(s)
  BY <1>1, SetsStay DEF sliceVars
<1>3. ASSUME NEW s \in Streams
      PROVE  /\ ToSet(queue[s]) \subseteq ToSet(queue'[s])
             /\ evict'[s] = evict[s] \/ evict'[s] = evict[s] + 1
  <2>1. CASE UNCHANGED <<queue, evict>>
    BY <2>1
  <2>2. CASE BroadcastSend(m)
    <3> DEFINE t == Head(todo[m])
    <3>1. t \in Streams
      BY <1>1, <2>2 DEF BroadcastSend
    <3>2. \/ queue' = [queue EXCEPT ![t] = Append(@, m)] /\ evict' = evict
          \/ evict' = [evict EXCEPT ![t] = @ + 1] /\ queue' = queue
      BY <2>2 DEF BroadcastSend
    <3> HIDE DEF t
    <3>3. queue'[s] = queue[s] \/ queue'[s] = Append(queue[s], m)
      BY <1>1, <3>1, <3>2
    <3>4. evict'[s] = evict[s] \/ evict'[s] = evict[s] + 1
      BY <1>1, <3>1, <3>2
    <3>5. ToSet(queue[s]) \subseteq ToSet(Append(queue[s], m))
      BY <1>1, QueueKeeps
    <3> QED
      BY <3>3, <3>4, <3>5
  <2> QED
    BY <2>1, <2>2 DEF CreateMessage, Insert, BroadcastStep, BroadcastLock, BroadcastPanic,
                      BroadcastUnlock
<1>4. SUFFICES ASSUME NEW s \in Streams \ closed', NEW n \in Messages,
                      Reading(s)', ~Evicting(s)', MessageKey[n] = StreamKey[s],
                      n \notin Held(s)', Kept(s)'
               PROVE  /\ mpc'[n] # "acked"
                      /\ mpc'[n] = "broadcasting" => InSeq(todo'[n], s)
  BY <1>2 DEF MissInv, InSeq
<1>5. /\ s \in Streams \ closed /\ Reading(s) /\ ~Evicting(s) /\ n \notin Held(s) /\ Kept(s)
  <2>1. evict[s] \in Nat /\ (evict'[s] = evict[s] \/ evict'[s] = evict[s] + 1)
    BY <1>1, <1>3
  <2>2. evict[s] > 0 => evict'[s] > 0
    BY <2>1
  <2>3. ~Evicting(s)
    BY <1>1, <1>4, <2>2 DEF Evicting
  <2>4. n \notin Held(s)
    BY <1>1, <1>3, <1>4 DEF Held
  <2> QED
    BY <1>1, <1>2, <1>4, <2>3, <2>4 DEF Reading
<1>6. mpc[n] # "acked" /\ (mpc[n] = "broadcasting" => InSeq(todo[n], s))
  BY <1>4, <1>5 DEF MissInv
<1>7. CASE n # m
  <2>1. /\ mpc' = mpc \/ \E at : mpc' = [mpc EXCEPT ![m] = at]
        /\ todo' = todo \/ \E q : todo' = [todo EXCEPT ![m] = q]
    <3>1. CASE Insert(m)
      BY <3>1 DEF Insert
    <3>2. CASE BroadcastLock(m)
      BY <3>2 DEF BroadcastLock
    <3>3. CASE BroadcastSend(m)
      BY <3>3 DEF BroadcastSend
    <3>4. CASE BroadcastPanic(m) \/ BroadcastUnlock(m)
      BY <3>4 DEF BroadcastPanic, BroadcastUnlock
    <3> QED
      BY <3>1, <3>2, <3>3, <3>4 DEF CreateMessage, BroadcastStep
  <2>2. mpc'[n] = mpc[n] /\ todo'[n] = todo[n]
    BY <1>1, <1>7, <2>1
  <2> QED
    BY <1>6, <2>2 DEF InSeq
<1>8. CASE n = m
  <2>1. CASE Insert(m) \/ BroadcastPanic(m)
    <3>1. \E at \in {"stored", "unsent", "failed"} : mpc' = [mpc EXCEPT ![m] = at]
      BY <2>1 DEF Insert, BroadcastPanic
    <3> QED
      BY <1>1, <1>8, <3>1
  <2>2. CASE BroadcastLock(m)
    <3>1. /\ writer = NoWriter /\ mpc'[m] = "broadcasting"
          /\ todo'[m] = Elements(reg[MessageKey[m]])
      BY <1>1, <2>2 DEF BroadcastLock, CanRLock
    <3>2. InHeader(heap, reg[MessageKey[m]], s)
      BY <1>4, <1>5, <1>8, <3>1 DEF Kept, Busy, NoWriter, InReg
    <3>3. InSeq(Elements(reg[MessageKey[m]]), s)
      BY <3>2, InElements, HeadersTyped, HubAssumption DEF Context
    <3> QED
      BY <1>8, <3>1, <3>3 DEF InSeq
  <2>3. CASE BroadcastSend(m)
    <3> DEFINE t == Head(todo[m])
    <3>1. /\ todo[m] \in Seq(Streams) /\ todo[m] # <<>> /\ mpc[m] = "broadcasting"
          /\ mpc' = mpc /\ todo'[m] = Tail(todo[m])
          /\ \/ queue' = [queue EXCEPT ![t] = Append(@, m)]
             \/ evict' = [evict EXCEPT ![t] = @ + 1]
      BY <1>1, <2>3 DEF BroadcastSend
    <3>2. s # t
      <4>1. ASSUME s = t PROVE m \in ToSet(queue'[s]) \/ evict'[s] > 0
        <5> HIDE DEF t
        <5>1. CASE queue' = [queue EXCEPT ![t] = Append(@, m)]
          BY <1>1, <4>1, <5>1, QueueKeeps
        <5>2. CASE evict' = [evict EXCEPT ![t] = @ + 1]
          BY <1>1, <4>1, <5>2
        <5> QED
          BY <3>1, <5>1, <5>2
      <4> QED
        BY <1>4, <1>8, <4>1 DEF Held, Evicting
    <3>3. PICK i \in 1 .. Len(todo[m]) : todo[m][i] = s
      BY <1>6, <1>8, <3>1 DEF InSeq
    <3>4. i - 1 \in 1 .. Len(Tail(todo[m])) /\ Tail(todo[m])[i - 1] = s
      BY <3>1, <3>2, <3>3
    <3> QED
      BY <1>8, <3>1, <3>4 DEF InSeq
  <2>4. CASE BroadcastUnlock(m)
    <3>1. mpc[m] = "broadcasting" /\ todo[m] = <<>>
      BY <2>4 DEF BroadcastUnlock
    <3> QED
      BY <1>6, <1>8, <3>1 DEF InSeq
  <2> QED
    BY <2>1, <2>2, <2>3, <2>4 DEF CreateMessage, BroadcastStep
<1> QED
  BY <1>7, <1>8

\* What a handler has, or has in its buffer, does not get less; the query of
\* the history finds every message that is being broadcast.
LEMMA MissStream ==
  ASSUME Context, SetInv, MissInv, NEW t \in Streams, StreamLoop(t)
  PROVE  SetInv' /\ MissInv'
<1>1. /\ UNCHANGED <<reg, heap, closed, writer, cleaner, evict, mpc, todo>>
      /\ pc \in [Streams -> {"start", "adding", "query", "live", "sending", "leaving",
                             "removing", "ended"}]
      /\ queue \in [Streams -> Seq(Messages)]
      /\ sent \in [Streams -> SUBSET (Messages \cup {NoMessage})]
  BY DEF StreamLoop, Replay, Forward, ForwardNil, Deliver, SendReturns, ServerCancel,
         ClientCancel, hubVars, messageVars, Context, HandlerTypes
<1>2. SetInv' /\ \A s \in Streams : Kept(s)' => Kept(s)
  BY <1>1, SetsStay DEF sliceVars
<1>3. ASSUME NEW s \in Streams, ~(Replay(t) /\ s = t)
      PROVE  Held(s) \subseteq Held(s)' /\ (Reading(s)' => Reading(s))
  <2>1. CASE Replay(t)
    BY <1>1, <1>3, <2>1 DEF Replay, Held, Reading
  <2>2. CASE Forward(t)
    <3>1. /\ queue[t] \in Seq(Messages) /\ queue[t] # <<>> /\ pc[t] = "live"
          /\ queue' = [queue EXCEPT ![t] = Tail(@)]
          /\ sent' = [sent EXCEPT ![t] = @ \cup {Head(queue[t])}]
          /\ pc' = [pc EXCEPT ![t] = "sending"]
      BY <1>1, <2>2 DEF Forward, Deliver
    <3>2. ToSet(queue[t]) \subseteq {Head(queue[t])} \cup ToSet(Tail(queue[t]))
      BY <3>1, QueueKeeps
    <3> QED
      BY <1>1, <3>1, <3>2 DEF Held, Reading
  <2>3. CASE ForwardNil(t)
    BY <1>1, <2>3 DEF ForwardNil, Deliver, Held, Reading
  <2>4. CASE SendReturns(t) \/ ServerCancel(t) \/ ClientCancel(t)
    BY <1>1, <2>4 DEF SendReturns, ServerCancel, ClientCancel, Held, Reading
  <2> QED
    BY <2>1, <2>2, <2>3, <2>4 DEF StreamLoop
<1>4. SUFFICES ASSUME NEW s \in Streams \ closed', NEW m \in Messages,
                      Reading(s)', ~Evicting(s)', MessageKey[m] = StreamKey[s],
                      m \notin Held(s)', Kept(s)'
               PROVE  /\ mpc'[m] # "acked"
                      /\ mpc'[m] = "broadcasting" => InSeq(todo'[m], s)
  BY <1>2 DEF MissInv, InSeq
<1>5. CASE Replay(t) /\ s = t
  <2>1. sent'[s] = {n \in stored : MessageKey[n] = Canon[StreamKey[s]]}
    BY <1>1, <1>5 DEF Replay
  <2>2. Canon[StreamKey[s]] = MessageKey[m]
    BY <1>4, HubAssumption
  <2>3. m \notin stored
    BY <1>4, <2>1, <2>2 DEF Held
  <2> QED
    BY <1>1, <2>3 DEF Context, BroadcastInv
<1>6. CASE ~(Replay(t) /\ s = t)
  <2>1. s \in Streams \ closed /\ Reading(s) /\ ~Evicting(s) /\ m \notin Held(s) /\ Kept(s)
    BY <1>1, <1>2, <1>3, <1>4, <1>6 DEF Evicting
  <2> QED
    BY <1>1, <1>4, <2>1 DEF MissInv
<1> QED
  BY <1>5, <1>6

------------------------------------------------------------------------------
\* The theorem

GapInv == SetInv /\ MissInv

LEMMA GapInit == Init => GapInv
<1> SUFFICES ASSUME Init PROVE GapInv
  OBVIOUS
<1>1. /\ \A s \in Streams : StreamKey[s] \in Keys /\ reg[StreamKey[s]] = Nil
      /\ writer.at = "none" /\ cleaner.at = "idle"
      /\ \A s \in Streams : pc[s] = "start"
  BY HubAssumption DEF Init, NoWriter, NoScan
<1>2. \A s \in Streams : ~InReg(s) /\ ~InHand(s) /\ ~Reading(s)
  BY <1>1, Empty DEF InReg, InHand, Reading
<1> QED
  BY <1>1, <1>2 DEF GapInv, SetInv, RegKept, HandKept, Shifting, MissInv

LEMMA GapNext == Context /\ GapInv /\ [Next]_vars => GapInv'
<1> SUFFICES ASSUME Context, GapInv, [Next]_vars PROVE GapInv'
  OBVIOUS
<1> USE DEF GapInv
<1>1. CASE UNCHANGED vars
  <2>1. UNCHANGED <<sliceVars, closed, pc, evict, mpc, todo, queue, sent>>
    BY <1>1 DEF vars, hubVars, streamVars, messageVars, sliceVars
  <2>2. SetInv' /\ \A s \in Streams : Kept(s)' => Kept(s)
    BY <2>1, SetsStay
  <2>3. MissInv'
    BY <2>1, <2>2, MissHub DEF Settled, Reading, Evicting, sliceVars
  <2> QED
    BY <2>2, <2>3
<1> QED
  BY <1>1, MissWriter, MissCleanup, MissMessage, MissStream DEF Next

\* The sets and what the streams miss, in every state.
THEOREM GapInvariant == Spec => [](Context /\ GapInv)
<1>1. Spec => []HandlerTypes
  BY HandlerTypesInit, HandlerTypesNext, SlicesInvariant, PTL DEF Spec
<1>2. Spec => []DeliveryInv
  BY <1>1, DeliveryInit, DeliveryNext, SlicesInvariant, KeysInvariant, PTL DEF Spec
<1>3. SliceInv /\ HandlerTypes /\ KeyInv /\ DeliveryInv => Context
  BY DEF Context, DeliveryInv
<1>4. Spec => []Context
  BY <1>1, <1>2, <1>3, SlicesInvariant, KeysInvariant, PTL
<1>5. Spec => []GapInv
  BY <1>4, GapInit, GapNext, PTL DEF Spec
<1> QED
  BY <1>4, <1>5, PTL

\* No gap between the history and the live messages, for every number of
\* streams and calls and every interleaving, the unlocked cleanup included: an
\* open registered stream has or will be sent every acknowledged message.
THEOREM NoGapEver == Spec => []NoGap
<1>1. Context /\ GapInv => NoGap
  <2> SUFFICES ASSUME Context, GapInv, NEW s \in Streams, NEW m \in Messages,
                      Reading(s), Registered(s), s \notin closed, ~Evicting(s),
                      mpc[m] = "acked", MessageKey[m] = StreamKey[s]
               PROVE  m \in Held(s)
    BY DEF NoGap, Reading
  <2>1. InReg(s)
    BY InElements, HeadersTyped, HubAssumption DEF Context, Registered, InReg
  <2>2. Kept(s)
    BY <2>1 DEF GapInv, SetInv, RegKept
  <2> QED
    BY <2>2 DEF GapInv, MissInv
<1> QED
  BY <1>1, GapInvariant, PTL
==============================================================================
