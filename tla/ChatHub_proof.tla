---------------------------- MODULE ChatHub_proof ----------------------------
(***************************************************************************)
(* Theorems about ChatHub, for any number of streams, messages and keys.   *)
(*                                                                         *)
(* A slice in use (in the map, in the hands of the call that holds s.mu,   *)
(* or of the cleanup, which holds nothing) keeps pointing at cells with a  *)
(* subscriber in them, although its backing array is shared and written.   *)
(* That needs the inductive SliceInv: what the writer is about to store is *)
(* sound before it stores it, and the capacity that the cleanup reserved   *)
(* is enough for the slice it builds.  That there is always an array left  *)
(* for an allocation holds in every state.                                 *)
(***************************************************************************)
EXTENDS ChatHub, FiniteSetTheorems, TLAPS

\* What the holder of s.mu knows: which subscriber it works for, and, once it
\* has found it, that the slice is not empty and which cells are left to move.
WriterSane ==
  /\ writer.at # "none" => writer.stream \in Streams
  /\ writer.at = "shift" =>
       /\ writer.slice.len > 0
       /\ Len(writer.old) = writer.slice.len
       /\ \A j \in writer.moves : j < writer.slice.len

\* The slice that the cleanup builds fits its backing array.
CleanerSane == Len(cleaner.active) <= cleaner.cap

SliceInv == SliceTypes /\ SlicesSound /\ WriterSane /\ CleanerSane

------------------------------------------------------------------------------
\* Slices and arrays

\* The types inside a record-typed header.
LEMMA SliceFields ==
  ASSUME NEW sl \in Slices
  PROVE  sl.arr \in 0 .. MaxArrays /\ sl.len \in Nat
BY DEF Slices

\* The elements of a sound header are subscribers.
LEMMA ElementsType ==
  ASSUME SliceTypes, NEW sl \in Slices, SoundIn(heap, sl)
  PROVE  /\ Elements(sl) \in Seq(Streams)
         /\ Len(Elements(sl)) = sl.len
         /\ \A i \in 1 .. sl.len : Elements(sl)[i] = heap[sl.arr][i]
<1>1. sl.arr \in 0 .. MaxArrays /\ sl.len \in Nat
  BY SliceFields
<1>2. heap[sl.arr] \in Seq(Streams \cup {NoStream})
  BY <1>1 DEF SliceTypes
<1>3. \A i \in 1 .. sl.len : heap[sl.arr][i] \in Streams
  BY <1>1, <1>2 DEF SoundIn
<1>4. Elements(sl) = [i \in 1 .. sl.len |-> heap[sl.arr][i]]
  BY <1>1, <1>2 DEF Elements
<1> QED
  BY <1>1, <1>3, <1>4

\* Padding keeps the elements and has room for all of them.
LEMMA PaddedType ==
  ASSUME NEW s \in Seq(Streams), NEW c \in Nat, Len(s) <= c
  PROVE  /\ Padded(s, c) \in Seq(Streams \cup {NoStream})
         /\ Len(Padded(s, c)) = c
         /\ \A i \in 1 .. Len(s) : Padded(s, c)[i] = s[i]
<1>1. \A i \in 1 .. c : (IF i <= Len(s) THEN s[i] ELSE NoStream) \in Streams \cup {NoStream}
  OBVIOUS
<1> QED
  BY <1>1 DEF Padded

\* Allocation gives the fresh array its cells and leaves the arrays in use.
LEMMA AllocatedCells ==
  ASSUME SliceTypes, FreeArrays # {}, NEW cells \in Seq(Streams \cup {NoStream})
  PROVE  /\ Fresh \in 1 .. MaxArrays
         /\ Allocated(cells) \in [0 .. MaxArrays -> Seq(Streams \cup {NoStream})]
         /\ Allocated(cells)[Fresh] = cells
         /\ \A a \in LiveArrays : Allocated(cells)[a] = heap[a]
<1>1. Fresh \in FreeArrays
  BY DEF Fresh
<1>2. Fresh \in 1 .. MaxArrays /\ Fresh \notin LiveArrays
  BY <1>1 DEF FreeArrays
<1>3. LiveArrays \subseteq 0 .. MaxArrays
  BY DEF LiveArrays, SliceTypes, Slices
<1>4. \A a \in 0 .. MaxArrays : heap[a] \in Seq(Streams \cup {NoStream})
  BY DEF SliceTypes
<1>5. <<>> \in Seq(Streams \cup {NoStream})
  OBVIOUS
<1> HIDE DEF Fresh, LiveArrays
<1>6. Allocated(cells) \in [0 .. MaxArrays -> Seq(Streams \cup {NoStream})]
  BY <1>4, <1>5 DEF Allocated
<1>7. Allocated(cells)[Fresh] = cells
  BY <1>2, HubAssumption DEF Allocated
<1>8. \A a \in LiveArrays : Allocated(cells)[a] = heap[a]
  BY <1>2, <1>3 DEF Allocated
<1> QED
  BY <1>2, <1>6, <1>7, <1>8

------------------------------------------------------------------------------
\* The slices stay sound

sliceVars == <<reg, heap, writer, cleaner>>

LEMMA SliceInit == Init => SliceInv
<1> SUFFICES ASSUME Init PROVE SliceInv
  OBVIOUS
<1> USE HubAssumption
<1>1. Nil \in Slices /\ Nil.arr = 0 /\ Nil.len = 0
  BY DEF Nil, Slices
<1>2. heap \in [0 .. MaxArrays -> Seq(Streams \cup {NoStream})] /\ Len(heap[0]) = 0
  BY DEF Init
<1>3. SliceTypes
  BY <1>1, <1>2 DEF Init, SliceTypes, NoWriter, NoScan, WriterAt
<1>4. SlicesSound
  BY <1>1, <1>2 DEF Init, SlicesSound, SoundIn, NoWriter, NoScan
<1>5. WriterSane /\ CleanerSane
  BY DEF Init, WriterSane, CleanerSane, NoWriter, NoScan
<1> QED
  BY <1>3, <1>4, <1>5 DEF SliceInv

\* A step that leaves the slices and their holders alone.
LEMMA SliceStutter == SliceInv /\ UNCHANGED sliceVars => SliceInv'
BY DEF SliceInv, sliceVars, SliceTypes, SlicesSound, SoundIn, WriterSane, CleanerSane

\* The nil slice is sound in a heap that the types hold for.
LEMMA NilSound ==
  ASSUME NEW h \in [0 .. MaxArrays -> Seq(Streams \cup {NoStream})]
  PROVE  Nil \in Slices /\ SoundIn(h, Nil)
<1>1. h[0] \in Seq(Streams \cup {NoStream})
  BY HubAssumption
<1> QED
  BY <1>1, HubAssumption DEF Nil, Slices, SoundIn

Writers == [at : WriterAt, stream : Streams \cup {NoStream}, spawned : BOOLEAN,
            slice : Slices, old : Seq(Streams), moves : SUBSET (Nat \ {0})]

LEMMA WriterRecord ==
  ASSUME NEW at \in WriterAt, NEW s \in Streams \cup {NoStream}, NEW spawned \in BOOLEAN,
         NEW sl \in Slices, NEW old \in Seq(Streams), NEW moves \in SUBSET (Nat \ {0})
  PROVE  [at |-> at, stream |-> s, spawned |-> spawned, slice |-> sl, old |-> old,
          moves |-> moves] \in Writers
BY Zenon DEF Writers

LEMMA NoWriterType == NoWriter \in Writers
BY HubAssumption DEF NoWriter, WriterAt, Nil, Slices, Writers

\* The step of a call that takes s.mu: it holds the slice of its key.
LEMMA SliceLock ==
  ASSUME SliceInv, UNCHANGED <<reg, heap, cleaner>>,
         NEW s \in Streams, NEW spawned \in BOOLEAN, NEW at \in {"append", "close"},
         writer' = Holding(at, s, spawned)
  PROVE  SliceInv'
<1> USE HubAssumption
<1>1. StreamKey[s] \in Keys
  OBVIOUS
<1>2. reg[StreamKey[s]] \in Slices /\ SoundIn(heap, reg[StreamKey[s]])
  BY <1>1 DEF SliceInv, SliceTypes, SlicesSound
<1>3. writer' = [at |-> at, stream |-> s, spawned |-> spawned,
                 slice |-> reg[StreamKey[s]], old |-> <<>>, moves |-> {}]
  BY DEF Holding
<1>4. /\ at \in WriterAt /\ s \in Streams \cup {NoStream}
      /\ <<>> \in Seq(Streams) /\ {} \in SUBSET (Nat \ {0})
  BY DEF WriterAt
<1>5. writer' \in Writers
  <2>1. ASSUME NEW r \in Slices
        PROVE  [at |-> at, stream |-> s, spawned |-> spawned, slice |-> r,
                old |-> <<>>, moves |-> {}] \in Writers
    BY <1>4, WriterRecord
  <2> QED
    BY <1>2, <1>3, <2>1
<1>6. SliceTypes'
  BY <1>5 DEF SliceInv, SliceTypes, Writers
<1>7. SlicesSound'
  BY <1>2, <1>3 DEF SliceInv, SlicesSound, SoundIn
<1>8. WriterSane' /\ CleanerSane'
  BY <1>3 DEF SliceInv, WriterSane, CleanerSane
<1> QED
  BY <1>6, <1>7, <1>8 DEF SliceInv

\* The step that stores a sound slice and releases s.mu.
LEMMA SliceUnlock ==
  ASSUME SliceInv, UNCHANGED cleaner, writer.at # "none",
         NEW sl \in Slices,
         heap' \in [0 .. MaxArrays -> Seq(Streams \cup {NoStream})],
         SoundIn(heap', sl),
         \A k \in Keys : SoundIn(heap', reg[k]),
         SoundIn(heap', cleaner.slice),
         reg' = [reg EXCEPT ![StreamKey[writer.stream]] = sl],
         writer' = NoWriter
  PROVE  SliceInv'
<1> USE HubAssumption
<1>1. NoWriter \in Writers
  BY NoWriterType
<1>2. SliceTypes'
  BY <1>1 DEF SliceInv, SliceTypes, Writers
<1>3. SoundIn(heap', NoWriter.slice)
  BY NilSound DEF NoWriter
<1>4. \A k \in Keys : SoundIn(heap', reg'[k])
  BY DEF SliceInv, SliceTypes
<1>5. SlicesSound'
  BY <1>3, <1>4 DEF SlicesSound
<1>6. WriterSane' /\ CleanerSane'
  BY DEF SliceInv, WriterSane, CleanerSane, NoWriter
<1> QED
  BY <1>2, <1>5, <1>6 DEF SliceInv

\* A write of a subscriber to one cell leaves every sound slice sound.
LEMMA CellWritten ==
  ASSUME SliceTypes, NEW a \in 0 .. MaxArrays, NEW i \in 1 .. Len(heap[a]), NEW s \in Streams,
         heap' = [heap EXCEPT ![a] = [heap[a] EXCEPT ![i] = s]]
  PROVE  /\ heap' \in [0 .. MaxArrays -> Seq(Streams \cup {NoStream})]
         /\ Len(heap'[a]) = Len(heap[a])
         /\ heap'[a][i] = s
         /\ \A j \in 1 .. Len(heap[a]) : j # i => heap'[a][j] = heap[a][j]
         /\ \A o \in Slices : SoundIn(heap, o) => SoundIn(heap', o)
<1> DEFINE Cells == Streams \cup {NoStream}
           new == [heap[a] EXCEPT ![i] = s]
<1>1. heap \in [0 .. MaxArrays -> Seq(Cells)]
  BY DEF SliceTypes
<1>2. heap[a] \in Seq(Cells) /\ s \in Cells /\ s # NoStream
  BY <1>1, HubAssumption
<1>3. /\ new \in Seq(Cells) /\ Len(new) = Len(heap[a]) /\ new[i] = s
      /\ \A j \in 1 .. Len(heap[a]) : j # i => new[j] = heap[a][j]
  BY <1>2
<1>4. /\ heap'[a] = new
      /\ \A b \in 0 .. MaxArrays : b # a => heap'[b] = heap[b]
  BY <1>1
<1>5. heap' \in [0 .. MaxArrays -> Seq(Cells)]
  <2> HIDE DEF Cells, new
  <2> QED BY <1>1, <1>3 DEF new
<1>6. ASSUME NEW o \in Slices, SoundIn(heap, o) PROVE SoundIn(heap', o)
  <2>1. o.arr \in 0 .. MaxArrays /\ o.len \in Nat
    BY SliceFields
  <2>2. CASE o.arr # a
    BY <1>4, <1>6, <2>1, <2>2 DEF SoundIn
  <2>3. CASE o.arr = a
    <3> HIDE DEF new
    <3>1. o.len <= Len(new)
      BY <1>3, <1>6, <2>3 DEF SoundIn
    <3>2. \A j \in 1 .. o.len : j \in 1 .. Len(heap[a])
      BY <1>2, <1>3, <2>1, <3>1
    <3>3. \A j \in 1 .. o.len : new[j] # NoStream
      BY <1>2, <1>3, <1>6, <2>3, <3>2 DEF SoundIn
    <3> QED
      BY <1>4, <2>3, <3>1, <3>3 DEF SoundIn
  <2> QED
    BY <2>2, <2>3
<1> QED
  BY <1>3, <1>4, <1>5, <1>6

LEMMA SliceAppendInPlace == SliceInv /\ AppendInPlace => SliceInv'
<1> SUFFICES ASSUME SliceInv, AppendInPlace PROVE SliceInv'
  OBVIOUS
<1> USE HubAssumption
<1> DEFINE sl == writer.slice
           new == [arr |-> sl.arr, len |-> sl.len + 1]
<1>1. sl \in Slices /\ SoundIn(heap, sl) /\ writer.stream \in Streams
  BY DEF AppendInPlace, SliceInv, SliceTypes, SlicesSound, WriterSane
<1>2. sl.arr \in 0 .. MaxArrays /\ sl.len \in Nat
  BY <1>1, SliceFields
<1>3. heap[sl.arr] \in Seq(Streams \cup {NoStream}) /\ sl.len < Len(heap[sl.arr])
  BY <1>2 DEF AppendInPlace, SliceInv, SliceTypes
<1>4. heap' = [heap EXCEPT ![sl.arr] = [heap[sl.arr] EXCEPT ![sl.len + 1] = writer.stream]]
  BY DEF AppendInPlace
<1>5. sl.len + 1 \in 1 .. Len(heap[sl.arr])
  BY <1>2, <1>3
<1>6. /\ heap' \in [0 .. MaxArrays -> Seq(Streams \cup {NoStream})]
      /\ Len(heap'[sl.arr]) = Len(heap[sl.arr])
      /\ heap'[sl.arr][sl.len + 1] = writer.stream
      /\ \A j \in 1 .. Len(heap[sl.arr]) : j # sl.len + 1 => heap'[sl.arr][j] = heap[sl.arr][j]
      /\ \A o \in Slices : SoundIn(heap, o) => SoundIn(heap', o)
  <2> HIDE DEF sl
  <2> SliceTypes
    BY DEF SliceInv
  <2> QED
    BY <1>1, <1>2, <1>4, <1>5, CellWritten
<1>7. new \in Slices /\ SoundIn(heap', new)
  <2>1. new \in Slices /\ new.arr = sl.arr /\ new.len = sl.len + 1
    BY <1>2 DEF Slices
  <2> HIDE DEF sl, new
  <2>2. \A j \in 1 .. sl.len : heap'[sl.arr][j] # NoStream
    BY <1>1, <1>6 DEF SoundIn
  <2>3. \A j \in 1 .. new.len : heap'[sl.arr][j] # NoStream
    BY <1>1, <1>2, <1>6, <2>1, <2>2
  <2>4. new.len <= Len(heap'[sl.arr])
    BY <1>2, <1>3, <1>6, <2>1
  <2> QED
    BY <2>1, <2>3, <2>4 DEF SoundIn
<1>8. \A k \in Keys : SoundIn(heap', reg[k])
  BY <1>6 DEF SliceInv, SliceTypes, SlicesSound
<1>9. SoundIn(heap', cleaner.slice)
  BY <1>6 DEF SliceInv, SliceTypes, SlicesSound
<1>10. UNCHANGED cleaner /\ writer.at # "none" /\ writer' = NoWriter
  BY DEF AppendInPlace, AddReturns
<1>11. reg' = [reg EXCEPT ![StreamKey[writer.stream]] = new]
  BY DEF AppendInPlace, AddReturns
<1> QED
  <2> HIDE DEF new
  <2> QED BY <1>6, <1>7, <1>8, <1>9, <1>10, <1>11, SliceUnlock

\* Allocation leaves every slice in use sound.
LEMMA AllocatedSound ==
  ASSUME SliceTypes, FreeArrays # {}, NEW cells \in Seq(Streams \cup {NoStream}),
         NEW o \in Slices, o.arr \in LiveArrays, SoundIn(heap, o)
  PROVE  SoundIn(Allocated(cells), o)
BY AllocatedCells DEF SoundIn

\* A new array that starts with the elements of a sequence, and the header of
\* these elements.
LEMMA AllocatedSlice ==
  ASSUME SliceTypes, FreeArrays # {}, NEW s \in Seq(Streams), NEW c \in Nat, Len(s) <= c
  PROVE  LET new == [arr |-> Fresh, len |-> Len(s)]
         IN  /\ new \in Slices
             /\ SoundIn(Allocated(Padded(s, c)), new)
             /\ Allocated(Padded(s, c)) \in [0 .. MaxArrays -> Seq(Streams \cup {NoStream})]
<1> DEFINE new == [arr |-> Fresh, len |-> Len(s)]
           cells == Padded(s, c)
<1>1. /\ cells \in Seq(Streams \cup {NoStream}) /\ Len(cells) = c
      /\ \A i \in 1 .. Len(s) : cells[i] = s[i]
  BY PaddedType
<1> HIDE DEF cells
<1>2. /\ Fresh \in 1 .. MaxArrays
      /\ Allocated(cells) \in [0 .. MaxArrays -> Seq(Streams \cup {NoStream})]
      /\ Allocated(cells)[Fresh] = cells
  BY <1>1, AllocatedCells
<1>3. \A i \in 1 .. Len(s) : cells[i] # NoStream
  BY <1>1, HubAssumption
<1> HIDE DEF Fresh
<1>4. new \in Slices /\ SoundIn(Allocated(cells), new)
  BY <1>1, <1>2, <1>3 DEF Slices, SoundIn
<1> QED
  BY <1>2, <1>4 DEF cells

LEMMA SliceAppendGrow == SliceInv /\ AppendGrow => SliceInv'
<1> SUFFICES ASSUME SliceInv, AppendGrow PROVE SliceInv'
  OBVIOUS
<1> DEFINE sl == writer.slice
           s == Append(Elements(sl), writer.stream)
           new == [arr |-> Fresh, len |-> Len(s)]
<1>1. sl \in Slices /\ SoundIn(heap, sl) /\ writer.stream \in Streams /\ SliceTypes
  BY DEF AppendGrow, SliceInv, SliceTypes, SlicesSound, WriterSane
<1>2. Elements(sl) \in Seq(Streams) /\ Len(Elements(sl)) = sl.len
  BY <1>1, ElementsType
<1>3. s \in Seq(Streams) /\ Len(s) = sl.len + 1 /\ sl.len \in Nat
  BY <1>1, <1>2, SliceFields
<1>4. Grow(sl.len) \in Nat /\ Len(s) <= Grow(sl.len)
  BY <1>3 DEF Grow
<1>5. /\ FreeArrays # {}
      /\ heap' = Allocated(Padded(s, Grow(sl.len)))
      /\ reg' = [reg EXCEPT ![StreamKey[writer.stream]] = new]
      /\ UNCHANGED cleaner /\ writer.at # "none" /\ writer' = NoWriter
  BY <1>3 DEF AppendGrow, AddReturns
<1> HIDE DEF s
<1>6. /\ new \in Slices /\ SoundIn(heap', new)
      /\ heap' \in [0 .. MaxArrays -> Seq(Streams \cup {NoStream})]
  BY <1>1, <1>3, <1>4, <1>5, AllocatedSlice
<1>7. Padded(s, Grow(sl.len)) \in Seq(Streams \cup {NoStream})
  BY <1>3, <1>4, PaddedType
<1>8. \A o \in Slices : o.arr \in LiveArrays /\ SoundIn(heap, o) => SoundIn(heap', o)
  BY <1>1, <1>5, <1>7, AllocatedSound
<1>9. \A k \in Keys : SoundIn(heap', reg[k])
  BY <1>8 DEF SliceInv, SliceTypes, SlicesSound, LiveArrays
<1>10. SoundIn(heap', cleaner.slice)
  BY <1>8 DEF SliceInv, SliceTypes, SlicesSound, LiveArrays
<1> HIDE DEF new
<1> QED
  BY <1>5, <1>6, <1>9, <1>10, SliceUnlock

LEMMA SliceRemoveLock ==
  ASSUME SliceInv, NEW s \in Streams, NEW spawned \in BOOLEAN, RemoveLock(s, spawned)
  PROVE  SliceInv'
<1>1. UNCHANGED <<reg, heap, cleaner>>
  BY DEF RemoveLock
<1>2. CASE UNCHANGED writer
  BY <1>1, <1>2, SliceStutter DEF sliceVars
<1>3. CASE writer' = Holding("close", s, spawned)
  BY <1>1, <1>3, SliceLock
<1> QED
  BY <1>2, <1>3 DEF RemoveLock

\* Releasing s.mu without a change of the map.
LEMMA SliceRelease ==
  ASSUME SliceInv, UNCHANGED <<reg, heap, cleaner>>, writer' = NoWriter
  PROVE  SliceInv'
<1>1. NoWriter \in Writers
  BY NoWriterType
<1>2. SoundIn(heap, NoWriter.slice)
  BY NilSound DEF NoWriter, SliceInv, SliceTypes
<1>3. SliceTypes'
  BY <1>1 DEF SliceInv, SliceTypes, Writers
<1>4. SlicesSound'
  BY <1>2 DEF SliceInv, SlicesSound, SoundIn
<1>5. WriterSane' /\ CleanerSane'
  BY DEF SliceInv, WriterSane, CleanerSane, NoWriter
<1> QED
  BY <1>3, <1>4, <1>5 DEF SliceInv

LEMMA SliceRemoveClose == SliceInv /\ RemoveClose => SliceInv'
<1> SUFFICES ASSUME SliceInv, RemoveClose PROVE SliceInv'
  OBVIOUS
<1> DEFINE sl == writer.slice
<1>1. sl \in Slices /\ SoundIn(heap, sl) /\ SliceTypes /\ writer \in Writers
  BY DEF SliceInv, SliceTypes, SlicesSound, Writers
<1>2. Elements(sl) \in Seq(Streams) /\ Len(Elements(sl)) = sl.len /\ sl.len \in Nat
  BY <1>1, ElementsType, SliceFields
<1>3. PICK i \in 1 .. sl.len :
        writer' = [writer EXCEPT !.at = "shift", !.old = Elements(sl), !.moves = i .. sl.len - 1]
  BY DEF RemoveClose
<1>4. /\ writer'.at = "shift" /\ writer'.stream = writer.stream
      /\ writer'.slice = sl /\ writer'.old = Elements(sl) /\ writer'.moves = i .. sl.len - 1
  BY <1>1, <1>3 DEF Writers
<1>5. writer' \in Writers
  <2>1. i .. sl.len - 1 \in SUBSET (Nat \ {0}) /\ "shift" \in WriterAt
    BY <1>2 DEF WriterAt
  <2>2. writer' = [at |-> "shift", stream |-> writer.stream, spawned |-> writer.spawned,
                   slice |-> sl, old |-> Elements(sl), moves |-> i .. sl.len - 1]
    BY <1>1, <1>3 DEF Writers
  <2> QED
    BY <1>1, <1>2, <2>1, <2>2 DEF Writers
<1>6. UNCHANGED <<reg, heap, cleaner>> /\ writer.at = "close"
  BY DEF RemoveClose
<1>7. SliceTypes'
  BY <1>5, <1>6 DEF SliceInv, SliceTypes, Writers
<1>8. SlicesSound'
  BY <1>4, <1>6 DEF SliceInv, SlicesSound, SoundIn
<1>9. WriterSane' /\ CleanerSane'
  BY <1>2, <1>4, <1>6 DEF SliceInv, WriterSane, CleanerSane
<1> QED
  BY <1>7, <1>8, <1>9 DEF SliceInv

LEMMA SliceRemovePanic == SliceInv /\ RemovePanic => SliceInv'
BY SliceRelease DEF RemovePanic

LEMMA SliceRemoveShift == SliceInv /\ RemoveShift => SliceInv'
<1> SUFFICES ASSUME SliceInv, RemoveShift PROVE SliceInv'
  OBVIOUS
<1> DEFINE sl == writer.slice
<1>1. sl \in Slices /\ SoundIn(heap, sl) /\ SliceTypes /\ writer \in Writers
  BY DEF SliceInv, SliceTypes, SlicesSound, Writers
<1>2. PICK j \in writer.moves :
        /\ heap' = [heap EXCEPT ![sl.arr] = [heap[sl.arr] EXCEPT ![j] = writer.old[j + 1]]]
        /\ writer' = [writer EXCEPT !.moves = @ \ {j}]
  BY DEF RemoveShift
<1>3. /\ sl.arr \in 0 .. MaxArrays /\ sl.len \in Nat
      /\ heap[sl.arr] \in Seq(Streams \cup {NoStream})
      /\ writer.moves \subseteq Nat \ {0}
  BY <1>1, SliceFields DEF SliceTypes, Writers
<1>4. j \in 1 .. sl.len - 1 /\ Len(writer.old) = sl.len /\ writer.old \in Seq(Streams)
  BY <1>1, <1>3 DEF RemoveShift, SliceInv, WriterSane, Writers
<1>5. writer.old[j + 1] \in Streams
  BY <1>3, <1>4
<1>6. j \in 1 .. Len(heap[sl.arr])
  BY <1>1, <1>3, <1>4 DEF SoundIn
<1>7. /\ heap' \in [0 .. MaxArrays -> Seq(Streams \cup {NoStream})]
      /\ \A o \in Slices : SoundIn(heap, o) => SoundIn(heap', o)
  <2> HIDE DEF sl
  <2> QED
    BY <1>1, <1>2, <1>3, <1>5, <1>6, CellWritten
<1>8. /\ writer'.at = writer.at /\ writer'.stream = writer.stream
      /\ writer'.slice = sl /\ writer'.old = writer.old
      /\ writer'.moves = writer.moves \ {j}
  BY <1>1, <1>2 DEF Writers
<1>9. writer' \in Writers
  <2>1. writer' = [at |-> writer.at, stream |-> writer.stream, spawned |-> writer.spawned,
                   slice |-> sl, old |-> writer.old, moves |-> writer.moves \ {j}]
    BY <1>1, <1>2 DEF Writers
  <2> QED
    BY <1>1, <1>3, <2>1 DEF Writers
<1>10. UNCHANGED <<reg, cleaner>>
  BY DEF RemoveShift
<1>11. SliceTypes'
  BY <1>7, <1>9, <1>10 DEF SliceInv, SliceTypes, Writers
<1>12. SlicesSound'
  <2>1. \A k \in Keys : SoundIn(heap', reg[k])
    BY <1>7 DEF SliceInv, SliceTypes, SlicesSound
  <2>2. SoundIn(heap', cleaner.slice)
    BY <1>7 DEF SliceInv, SliceTypes, SlicesSound
  <2> QED
    BY <1>1, <1>7, <1>8, <1>10, <2>1, <2>2 DEF SlicesSound
<1>13. WriterSane' /\ CleanerSane'
  BY <1>8, <1>10 DEF SliceInv, WriterSane, CleanerSane
<1> QED
  BY <1>11, <1>12, <1>13 DEF SliceInv

\* What removeSubscriber stores is the loaded slice or a shorter one.
LEMMA SliceRemoveStores ==
  ASSUME SliceInv, writer.at # "none", NEW sl \in Slices,
         sl.arr = writer.slice.arr, sl.len <= writer.slice.len,
         UNCHANGED <<heap, cleaner>>, RemoveStores(sl)
  PROVE  SliceInv'
<1>1. writer.slice \in Slices /\ SoundIn(heap, writer.slice) /\ SliceTypes
  BY DEF SliceInv, SliceTypes, SlicesSound
<1>2. writer.slice.len \in Nat /\ sl.len \in Nat
  BY <1>1, SliceFields
<1>3. SoundIn(heap, sl)
  BY <1>1, <1>2, SliceFields DEF SoundIn, SliceTypes
<1> DEFINE new == IF sl.len = 0 THEN Nil ELSE sl
<1>4. new \in Slices /\ SoundIn(heap, new)
  BY <1>1, <1>3, NilSound DEF SliceTypes
<1>5. /\ reg' = [reg EXCEPT ![StreamKey[writer.stream]] = new]
      /\ writer' = NoWriter
  BY DEF RemoveStores
<1> HIDE DEF new
<1>6. /\ heap' = heap /\ UNCHANGED cleaner
      /\ \A k \in Keys : SoundIn(heap, reg[k])
      /\ SoundIn(heap, cleaner.slice)
  BY DEF SliceInv, SlicesSound
<1>7. /\ heap' \in [0 .. MaxArrays -> Seq(Streams \cup {NoStream})]
      /\ SoundIn(heap', new)
      /\ \A k \in Keys : SoundIn(heap', reg[k])
      /\ SoundIn(heap', cleaner.slice)
  BY <1>1, <1>4, <1>6 DEF SliceTypes
<1> QED
  BY <1>4, <1>5, <1>6, <1>7, SliceUnlock

LEMMA SliceRemoveStore == SliceInv /\ RemoveStore => SliceInv'
<1> SUFFICES ASSUME SliceInv, RemoveStore PROVE SliceInv'
  OBVIOUS
<1> DEFINE sl == [writer.slice EXCEPT !.len = @ - 1]
<1>1. writer.slice \in Slices
  BY DEF SliceInv, SliceTypes
<1>2. writer.slice.len \in Nat /\ writer.slice.len > 0
  BY <1>1, SliceFields DEF RemoveStore, SliceInv, WriterSane
<1>3. sl \in Slices /\ sl.arr = writer.slice.arr /\ sl.len <= writer.slice.len
  BY <1>1, <1>2 DEF Slices
<1>4. writer.at # "none" /\ RemoveStores(sl) /\ UNCHANGED <<heap, cleaner>>
  BY DEF RemoveStore, RemoveStores
<1> HIDE DEF sl
<1> QED
  BY <1>3, <1>4, SliceRemoveStores

LEMMA SliceRemoveMissing == SliceInv /\ RemoveMissing => SliceInv'
<1> SUFFICES ASSUME SliceInv, RemoveMissing PROVE SliceInv'
  OBVIOUS
<1>1. writer.slice \in Slices /\ writer.slice.len <= writer.slice.len
  BY SliceFields DEF SliceInv, SliceTypes
<1>2. writer.at # "none" /\ RemoveStores(writer.slice) /\ UNCHANGED <<heap, cleaner>>
  BY DEF RemoveMissing, RemoveStores
<1> QED
  BY <1>1, <1>2, SliceRemoveStores

Cleaners == [at : {"idle", "range", "scan"}, left : SUBSET Keys, key : Keys,
             slice : Slices, idx : Nat \ {0}, active : Seq(Streams), cap : Nat]

\* A step of the cleanup that writes no slice: the header it holds is the old
\* one, or one of the map.
LEMMA SliceCleanerStep ==
  ASSUME SliceInv, UNCHANGED <<reg, heap, writer>>,
         cleaner' \in Cleaners,
         SoundIn(heap, cleaner'.slice),
         Len(cleaner'.active) <= cleaner'.cap
  PROVE  SliceInv'
<1>1. SliceTypes'
  BY DEF SliceInv, SliceTypes, Cleaners
<1>2. SlicesSound'
  BY DEF SliceInv, SlicesSound, SoundIn
<1>3. WriterSane' /\ CleanerSane'
  BY DEF SliceInv, WriterSane, CleanerSane
<1> QED
  BY <1>1, <1>2, <1>3 DEF SliceInv

LEMMA NoScanType ==
  /\ NoScan \in Cleaners /\ NoScan.slice = Nil
  /\ Len(NoScan.active) <= NoScan.cap
BY HubAssumption DEF NoScan, Nil, Slices, Cleaners

LEMMA SliceTick == SliceInv /\ Tick => SliceInv'
<1> SUFFICES ASSUME SliceInv, Tick PROVE SliceInv'
  OBVIOUS
<1>1. cleaner \in Cleaners /\ SoundIn(heap, cleaner.slice) /\ Len(cleaner.active) <= cleaner.cap
  BY DEF SliceInv, SliceTypes, SlicesSound, CleanerSane, Cleaners
<1>2. /\ cleaner' \in Cleaners /\ cleaner'.slice = cleaner.slice
      /\ cleaner'.active = cleaner.active /\ cleaner'.cap = cleaner.cap
  BY <1>1 DEF Tick, Cleaners
<1>3. UNCHANGED <<reg, heap, writer>>
  BY DEF Tick, hubVars
<1> QED
  BY <1>1, <1>2, <1>3, SliceCleanerStep

LEMMA SliceVisit ==
  ASSUME SliceInv, NEW k \in Keys, Visit(k)
  PROVE  SliceInv'
<1>1. /\ cleaner \in Cleaners /\ SoundIn(heap, cleaner.slice)
      /\ Len(cleaner.active) <= cleaner.cap
      /\ reg[k] \in Slices /\ SoundIn(heap, reg[k])
  BY DEF SliceInv, SliceTypes, SlicesSound, CleanerSane, Cleaners
<1>2. /\ cleaner' \in Cleaners /\ cleaner'.slice \in {cleaner.slice, reg[k]}
      /\ cleaner'.active = cleaner.active /\ cleaner'.cap = cleaner.cap
  BY <1>1 DEF Visit, Cleaners
<1>3. UNCHANGED <<reg, heap, writer>>
  BY DEF Visit, hubVars
<1> QED
  BY <1>1, <1>2, <1>3, SliceCleanerStep

\* The cell that the cleanup looks at holds a subscriber.
LEMMA ScannedStream ==
  ASSUME SliceInv, cleaner.idx <= cleaner.slice.len
  PROVE  Scanned \in Streams
<1>1. /\ cleaner.slice \in Slices /\ SoundIn(heap, cleaner.slice)
      /\ cleaner.idx \in Nat \ {0}
  BY DEF SliceInv, SliceTypes, SlicesSound
<1>2. cleaner.slice.arr \in 0 .. MaxArrays /\ cleaner.slice.len \in Nat
  BY <1>1, SliceFields
<1>3. heap[cleaner.slice.arr] \in Seq(Streams \cup {NoStream})
  BY <1>2 DEF SliceInv, SliceTypes
<1>4. cleaner.idx \in 1 .. cleaner.slice.len
  BY <1>1, <1>2
<1> QED
  BY <1>1, <1>2, <1>3, <1>4 DEF Scanned, SoundIn

LEMMA SliceScanKeep == SliceInv /\ ScanKeep => SliceInv'
<1> SUFFICES ASSUME SliceInv, ScanKeep PROVE SliceInv'
  OBVIOUS
<1>1. /\ cleaner \in Cleaners /\ SoundIn(heap, cleaner.slice)
      /\ Len(cleaner.active) <= cleaner.cap
  BY DEF SliceInv, SliceTypes, SlicesSound, CleanerSane, Cleaners
<1>2. Scanned \in Streams
  BY ScannedStream DEF ScanKeep
<1> DEFINE cap == IF Len(cleaner.active) < cleaner.cap THEN cleaner.cap ELSE Grow(cleaner.cap)
           active == Append(cleaner.active, Scanned)
<1>3. /\ cleaner.active \in Seq(Streams) /\ cleaner.cap \in Nat
      /\ cleaner.idx \in Nat \ {0} /\ cleaner.at = "scan"
  BY <1>1 DEF Cleaners, ScanKeep
<1>4. active \in Seq(Streams) /\ cap \in Nat /\ Len(active) <= cap
  BY <1>1, <1>2, <1>3 DEF Grow
<1>5. cleaner' = [at |-> "scan", left |-> cleaner.left, key |-> cleaner.key,
                  slice |-> cleaner.slice, idx |-> cleaner.idx + 1,
                  active |-> active, cap |-> cap]
  BY <1>1, <1>3 DEF ScanKeep, Cleaners
<1> HIDE DEF cap, active
<1>6. cleaner' \in Cleaners
  BY <1>1, <1>3, <1>4, <1>5 DEF Cleaners
<1>7. UNCHANGED <<reg, heap, writer>>
  BY DEF ScanKeep, hubVars
<1> QED
  BY <1>1, <1>4, <1>5, <1>6, <1>7, SliceCleanerStep

LEMMA SliceScanClose == SliceInv /\ ScanClose => SliceInv'
<1> SUFFICES ASSUME SliceInv, ScanClose PROVE SliceInv'
  OBVIOUS
<1>1. cleaner \in Cleaners /\ SoundIn(heap, cleaner.slice) /\ Len(cleaner.active) <= cleaner.cap
  BY DEF SliceInv, SliceTypes, SlicesSound, CleanerSane, Cleaners
<1>2. /\ cleaner' \in Cleaners /\ cleaner'.slice = cleaner.slice
      /\ cleaner'.active = cleaner.active /\ cleaner'.cap = cleaner.cap
  BY <1>1 DEF ScanClose, Cleaners
<1>3. UNCHANGED <<reg, heap, writer>>
  BY DEF ScanClose
<1> QED
  BY <1>1, <1>2, <1>3, SliceCleanerStep

\* The cleanup puts a sound slice under its key and goes on.
LEMMA SliceEndVisit ==
  ASSUME SliceInv, EndVisit, UNCHANGED writer,
         NEW sl \in Slices,
         heap' \in [0 .. MaxArrays -> Seq(Streams \cup {NoStream})],
         SoundIn(heap', sl),
         \A k \in Keys : SoundIn(heap', reg[k]),
         SoundIn(heap', writer.slice),
         reg' = [reg EXCEPT ![cleaner.key] = sl]
  PROVE  SliceInv'
<1>1. cleaner \in Cleaners
  BY DEF SliceInv, SliceTypes, Cleaners
<1>2. /\ cleaner' \in Cleaners /\ cleaner'.slice = Nil
      /\ Len(cleaner'.active) <= cleaner'.cap
  BY <1>1, NoScanType DEF EndVisit, Cleaners
<1>3. SliceTypes'
  BY <1>2 DEF SliceInv, SliceTypes, Cleaners
<1>4. \A k \in Keys : SoundIn(heap', reg'[k])
  BY DEF SliceInv, SliceTypes
<1>5. SoundIn(heap', cleaner'.slice)
  BY <1>2, NilSound
<1>6. SlicesSound'
  BY <1>4, <1>5 DEF SlicesSound
<1>7. WriterSane' /\ CleanerSane'
  BY <1>2 DEF SliceInv, WriterSane, CleanerSane
<1> QED
  BY <1>3, <1>6, <1>7 DEF SliceInv

LEMMA SliceScanDelete == SliceInv /\ ScanDelete => SliceInv'
<1> SUFFICES ASSUME SliceInv, ScanDelete PROVE SliceInv'
  OBVIOUS
<1>1. heap' = heap /\ UNCHANGED writer /\ EndVisit /\ reg' = [reg EXCEPT ![cleaner.key] = Nil]
  BY DEF ScanDelete
<1>2. /\ heap' \in [0 .. MaxArrays -> Seq(Streams \cup {NoStream})]
      /\ \A k \in Keys : SoundIn(heap', reg[k])
      /\ SoundIn(heap', writer.slice)
  BY <1>1 DEF SliceInv, SliceTypes, SlicesSound
<1>3. Nil \in Slices /\ SoundIn(heap', Nil)
  BY <1>2, NilSound
<1> QED
  BY <1>1, <1>2, <1>3, SliceEndVisit

LEMMA SliceScanStore == SliceInv /\ ScanStore => SliceInv'
<1> SUFFICES ASSUME SliceInv, ScanStore PROVE SliceInv'
  OBVIOUS
<1> DEFINE s == cleaner.active
           new == [arr |-> Fresh, len |-> Len(s)]
           cells == Padded(s, cleaner.cap)
<1>1. SliceTypes /\ s \in Seq(Streams) /\ cleaner.cap \in Nat /\ Len(s) <= cleaner.cap
  BY DEF SliceInv, SliceTypes, CleanerSane
<1>2. /\ FreeArrays # {} /\ heap' = Allocated(cells)
      /\ reg' = [reg EXCEPT ![cleaner.key] = new]
      /\ EndVisit /\ UNCHANGED writer
  BY DEF ScanStore
<1>3. /\ new \in Slices /\ SoundIn(heap', new)
      /\ heap' \in [0 .. MaxArrays -> Seq(Streams \cup {NoStream})]
  BY <1>1, <1>2, AllocatedSlice
<1>4. cells \in Seq(Streams \cup {NoStream})
  BY <1>1, PaddedType
<1> HIDE DEF cells, new
<1>5. \A o \in Slices : o.arr \in LiveArrays /\ SoundIn(heap, o) => SoundIn(heap', o)
  BY <1>1, <1>2, <1>4, AllocatedSound
<1>6. (\A k \in Keys : SoundIn(heap', reg[k])) /\ SoundIn(heap', writer.slice)
  BY <1>5 DEF SliceInv, SliceTypes, SlicesSound, LiveArrays
<1> QED
  BY <1>2, <1>3, <1>6, SliceEndVisit

LEMMA SliceEndPass == SliceInv /\ EndPass => SliceInv'
<1> SUFFICES ASSUME SliceInv, EndPass PROVE SliceInv'
  OBVIOUS
<1>1. UNCHANGED <<reg, heap, writer>> /\ cleaner' = NoScan
  BY DEF EndPass, hubVars
<1>2. SoundIn(heap, NoScan.slice)
  BY NoScanType, NilSound DEF SliceInv, SliceTypes
<1> QED
  BY <1>1, <1>2, NoScanType, SliceCleanerStep

LEMMA SliceAddLock ==
  ASSUME SliceInv, NEW s \in Streams, AddLock(s)
  PROVE  SliceInv'
<1>1. writer' = Holding("append", s, FALSE)
  BY DEF AddLock
<1>2. UNCHANGED <<reg, heap, cleaner>>
  BY DEF AddLock
<1> QED
  BY <1>1, <1>2, SliceLock

\* The steps of the calls and streams that hold no slice.
LEMMA SliceIdle ==
  ASSUME SliceInv,
         \/ \E m \in Messages : CreateMessage(m)
         \/ \E s \in Streams : StreamLoop(s)
         \/ ScanPanic
  PROVE  SliceInv'
<1>1. ASSUME NEW m \in Messages, CreateMessage(m) PROVE UNCHANGED sliceVars
  BY <1>1 DEF CreateMessage, Insert, BroadcastStep, BroadcastLock, BroadcastSend,
     BroadcastPanic, BroadcastUnlock, hubVars, sliceVars
<1>2. ASSUME NEW s \in Streams, StreamLoop(s) PROVE UNCHANGED sliceVars
  BY <1>2 DEF StreamLoop, Replay, Forward, ForwardNil, Deliver, SendReturns,
     ServerCancel, ClientCancel, hubVars, sliceVars
<1>3. ASSUME ScanPanic PROVE UNCHANGED sliceVars
  BY <1>3 DEF ScanPanic, hubVars, sliceVars
<1> QED
  BY <1>1, <1>2, <1>3, SliceStutter

LEMMA SliceNext == SliceInv /\ [Next]_vars => SliceInv'
<1> SUFFICES ASSUME SliceInv, [Next]_vars PROVE SliceInv'
  OBVIOUS
<1>1. CASE UNCHANGED vars
  BY <1>1, SliceStutter DEF vars, hubVars, sliceVars
<1>2. CASE AddSubscriber
  BY <1>2, SliceAddLock, SliceAppendInPlace, SliceAppendGrow DEF AddSubscriber
<1>3. CASE RemoveSubscriber
  BY <1>3, SliceRemoveLock, SliceRemoveClose, SliceRemovePanic, SliceRemoveShift,
     SliceRemoveStore, SliceRemoveMissing DEF RemoveSubscriber, RemoveBody
<1>4. CASE \E m \in Messages : CreateMessage(m)
  BY <1>4, SliceIdle
<1>5. CASE \E s \in Streams : StreamLoop(s)
  BY <1>5, SliceIdle
<1>6. CASE Cleanup
  BY <1>6, SliceTick, SliceVisit, SliceScanKeep, SliceScanClose, SliceScanDelete,
     SliceScanStore, SliceEndPass, SliceIdle DEF Cleanup, CleanupVisit
<1> QED
  BY <1>1, <1>2, <1>3, <1>4, <1>5, <1>6 DEF Next

\* The inductive invariant holds in every execution.
THEOREM SlicesInvariant == Spec => []SliceInv
BY SliceInit, SliceNext, PTL DEF Spec

\* No header in use, the one of the cleanup that takes no lock included, ever
\* reaches past its array or to a cell without a subscriber.
THEOREM SlicesStaySound == Spec => []SlicesSound
<1>1. SliceInv => SlicesSound
  BY DEF SliceInv
<1> QED
  BY <1>1, SlicesInvariant, PTL

------------------------------------------------------------------------------
\* Type correctness

LEMMA HandlerTypesInit == Init => HandlerTypes
<1> SUFFICES ASSUME Init PROVE HandlerTypes
  OBVIOUS
<1>1. /\ queue \in [Streams -> Seq(Messages)]
      /\ \A s \in Streams : Len(queue[s]) <= QueueCap
  BY HubAssumption DEF Init
<1>2. todo \in [Messages -> Seq(Streams)]
  BY DEF Init
<1> QED
  BY <1>1, <1>2 DEF Init, HandlerTypes

\* Where the handler and the calls stand, apart from the buffers.
LEMMA HandlerTypesNext == SliceInv /\ HandlerTypes /\ [Next]_vars => HandlerTypes'
<1> SUFFICES ASSUME SliceInv, HandlerTypes, [Next]_vars PROVE HandlerTypes'
  OBVIOUS
<1> USE HubAssumption
<1>1. CASE UNCHANGED vars
  BY <1>1 DEF HandlerTypes, vars, hubVars, streamVars, messageVars
<1>2. CASE AddSubscriber
  <2>1. ASSUME NEW s \in Streams, AddLock(s) PROVE HandlerTypes'
    BY <2>1 DEF AddLock, HandlerTypes, messageVars
  <2>2. ASSUME AppendInPlace \/ AppendGrow PROVE HandlerTypes'
    BY <2>2 DEF AppendInPlace, AppendGrow, AddReturns, HandlerTypes, messageVars
  <2> QED
    BY <1>2, <2>1, <2>2 DEF AddSubscriber
<1>3. CASE RemoveSubscriber
  <2>1. ASSUME NEW s \in Streams, NEW spawned \in BOOLEAN, RemoveLock(s, spawned)
        PROVE  HandlerTypes'
    <3>1. pc' \in {pc, [pc EXCEPT ![s] = "ended"], [pc EXCEPT ![s] = "removing"]}
      BY <2>1 DEF RemoveLock, RemoveReturns
    <3>2. \/ evict' = evict
          \/ evict[s] > 0 /\ evict' = [evict EXCEPT ![s] = @ - 1]
      BY <2>1 DEF RemoveLock
    <3>3. evict' \in [Streams -> Nat]
      <4>1. evict \in [Streams -> Nat]
        BY DEF HandlerTypes
      <4> QED
        BY <3>2, <4>1
    <3>4. UNCHANGED <<closed, sent, live, queue, mpc, todo, stored, expired, crashed>>
      BY <2>1 DEF RemoveLock, messageVars
    <3> QED
      BY <3>1, <3>3, <3>4 DEF HandlerTypes
  <2>2. CASE RemoveClose
    BY <2>2 DEF RemoveClose, HandlerTypes, streamVars, messageVars, SliceInv, WriterSane
  <2>3. CASE RemovePanic
    BY <2>3 DEF RemovePanic, RemoveReturns, HandlerTypes, messageVars, SliceInv, SliceTypes
  <2>4. CASE RemoveShift
    BY <2>4 DEF RemoveShift, HandlerTypes, streamVars, messageVars
  <2>5. CASE RemoveStore \/ RemoveMissing
    BY <2>5 DEF RemoveStore, RemoveMissing, RemoveStores, RemoveReturns, HandlerTypes, messageVars
  <2> QED
    BY <1>3, <2>1, <2>2, <2>3, <2>4, <2>5 DEF RemoveSubscriber, RemoveBody
<1>4. ASSUME NEW m \in Messages, CreateMessage(m) PROVE HandlerTypes'
  <2>1. CASE Insert(m)
    <3>1. stored' \in SUBSET Messages
      BY <2>1 DEF Insert, HandlerTypes
    <3>2. \E after \in {"stored", "unsent", "failed"} : mpc' = [mpc EXCEPT ![m] = after]
      BY <2>1 DEF Insert
    <3> QED
      BY <2>1, <3>1, <3>2 DEF Insert, HandlerTypes, hubVars, streamVars
  <2>2. CASE BroadcastLock(m)
    <3>1. reg[MessageKey[m]] \in Slices /\ SoundIn(heap, reg[MessageKey[m]]) /\ SliceTypes
      BY DEF SliceInv, SliceTypes, SlicesSound
    <3>2. Elements(reg[MessageKey[m]]) \in Seq(Streams)
      BY <3>1, ElementsType
    <3> QED
      BY <2>2, <3>2 DEF BroadcastLock, HandlerTypes, hubVars, streamVars
  <2>3. CASE BroadcastSend(m)
    <3> DEFINE s == Head(todo[m])
    <3>1. todo[m] \in Seq(Streams) /\ todo[m] # <<>>
      BY <2>3 DEF BroadcastSend, HandlerTypes
    <3>2. s \in Streams /\ Tail(todo[m]) \in Seq(Streams)
      BY <3>1
    <3>3. todo' \in [Messages -> Seq(Streams)]
      BY <2>3, <3>2 DEF BroadcastSend, HandlerTypes
    <3>4. queue[s] \in Seq(Messages) /\ Append(queue[s], m) \in Seq(Messages)
          /\ Len(Append(queue[s], m)) = Len(queue[s]) + 1
      BY <3>2 DEF HandlerTypes
    <3> HIDE DEF s
    <3>5. UNCHANGED <<pc, closed, sent, live, mpc, stored, expired, crashed>>
      BY <2>3 DEF BroadcastSend, hubVars, streamVars
    <3>6. CASE /\ Len(queue[s]) < QueueCap
               /\ queue' = [queue EXCEPT ![s] = Append(@, m)]
               /\ UNCHANGED evict
      <4>1. queue' \in [Streams -> Seq(Messages)]
        BY <3>2, <3>4, <3>6 DEF HandlerTypes
      <4>2. \A r \in Streams : Len(queue'[r]) <= QueueCap
        BY <3>2, <3>4, <3>6 DEF HandlerTypes
      <4> QED
        BY <3>3, <3>5, <3>6, <4>1, <4>2 DEF HandlerTypes
    <3>7. CASE evict' = [evict EXCEPT ![s] = @ + 1] /\ UNCHANGED queue
      <4>1. evict' \in [Streams -> Nat]
        BY <3>2, <3>7 DEF HandlerTypes
      <4> QED
        BY <3>3, <3>5, <3>7, <4>1 DEF HandlerTypes
    <3> QED
      BY <2>3, <3>6, <3>7 DEF BroadcastSend, s
  <2>4. CASE BroadcastPanic(m)
    BY <2>4 DEF BroadcastPanic, HandlerTypes, hubVars, streamVars
  <2>5. CASE BroadcastUnlock(m)
    BY <2>5 DEF BroadcastUnlock, HandlerTypes, hubVars, streamVars
  <2> QED
    BY <1>4, <2>1, <2>2, <2>3, <2>4, <2>5 DEF CreateMessage, BroadcastStep
<1>5. ASSUME NEW s \in Streams, StreamLoop(s) PROVE HandlerTypes'
  <2>1. CASE Replay(s)
    BY <2>1 DEF Replay, HandlerTypes, hubVars, messageVars
  <2>2. CASE Forward(s)
    <3>1. queue[s] \in Seq(Messages) /\ queue[s] # <<>>
      BY <2>2 DEF Forward, HandlerTypes
    <3>2. Head(queue[s]) \in Messages /\ Tail(queue[s]) \in Seq(Messages)
          /\ Len(Tail(queue[s])) <= Len(queue[s]) /\ Len(Tail(queue[s])) \in Nat
      BY <3>1
    <3>3. Len(Tail(queue[s])) <= QueueCap
      BY <3>1, <3>2 DEF HandlerTypes
    <3>4. live[s] \in Seq(Messages) /\ Append(live[s], Head(queue[s])) \in Seq(Messages)
      BY <3>2 DEF HandlerTypes
    <3>5. Head(queue[s]) # NoMessage
      BY <3>2, HubAssumption
    <3>6. live' \in [Streams -> Seq(Messages)]
      BY <2>2, <3>4, <3>5 DEF Forward, Deliver, HandlerTypes
    <3>7. queue' \in [Streams -> Seq(Messages)] /\ \A r \in Streams : Len(queue'[r]) <= QueueCap
      BY <2>2, <3>2, <3>3 DEF Forward, HandlerTypes
    <3> QED
      BY <2>2, <3>2, <3>6, <3>7 DEF Forward, Deliver, HandlerTypes, hubVars, messageVars
  <2>3. CASE ForwardNil(s)
    BY <2>3 DEF ForwardNil, Deliver, HandlerTypes, hubVars, messageVars
  <2>4. CASE SendReturns(s) \/ ServerCancel(s) \/ ClientCancel(s)
    BY <2>4 DEF SendReturns, ServerCancel, ClientCancel, HandlerTypes, hubVars, messageVars
  <2> QED
    BY <1>5, <2>1, <2>2, <2>3, <2>4 DEF StreamLoop
<1>6. CASE Cleanup
  <2>1. CASE Tick
    BY <2>1 DEF Tick, HandlerTypes, hubVars, streamVars, messageVars
  <2>2. ASSUME NEW k \in Keys, Visit(k) PROVE HandlerTypes'
    BY <2>2 DEF Visit, HandlerTypes, hubVars, streamVars, messageVars
  <2>3. CASE ScanKeep \/ ScanPanic \/ EndPass
    BY <2>3 DEF ScanKeep, ScanPanic, EndPass, HandlerTypes, hubVars, streamVars, messageVars
  <2>4. CASE ScanClose
    BY <2>4 DEF ScanClose, HandlerTypes, streamVars, messageVars
  <2>5. CASE ScanDelete \/ ScanStore
    BY <2>5 DEF ScanDelete, ScanStore, HandlerTypes, streamVars, messageVars
  <2> QED
    BY <1>6, <2>1, <2>2, <2>3, <2>4, <2>5 DEF Cleanup, CleanupVisit
<1> QED
  BY <1>1, <1>2, <1>3, <1>4, <1>5, <1>6 DEF Next

\* The variables keep their types, and no buffer ever holds more messages than
\* its capacity.
THEOREM TypeCorrect == Spec => []TypeOK
<1>1. HandlerTypes /\ SliceInv /\ [Next]_vars => HandlerTypes'
  BY HandlerTypesNext
<1>2. Spec => []HandlerTypes
  BY <1>1, HandlerTypesInit, SlicesInvariant, PTL DEF Spec
<1>3. SliceInv /\ HandlerTypes => TypeOK
  BY DEF SliceInv, TypeOK
<1> QED
  BY <1>2, <1>3, SlicesInvariant, PTL
------------------------------------------------------------------------------
\* The bound on the arrays

LEMMA OneMore ==
  ASSUME NEW S, IsFiniteSet(S), NEW n \in Nat, Cardinality(S) <= n, NEW x
  PROVE  IsFiniteSet(S \cup {x}) /\ Cardinality(S \cup {x}) <= n + 1
<1>1. Cardinality(S) \in Nat
  BY FS_CardinalityType
<1>2. /\ IsFiniteSet(S \cup {x})
      /\ Cardinality(S \cup {x}) \in {Cardinality(S), Cardinality(S) + 1}
  BY FS_AddElement
<1> QED
  BY <1>1, <1>2

\* Each header refers to one array, and besides those of the keys there are two,
\* in the hands of a call and of the cleanup: MaxArrays never keeps an append
\* or the cleanup waiting for an array, as nothing does in the code.
THEOREM ArraysSuffice == FreeArrays # {}
<1> DEFINE rows == {reg[k].arr : k \in Keys}
           most == rows \cup {writer.slice.arr}
<1>1. Cardinality(Keys) \in Nat
  BY FS_CardinalityType, HubAssumption
<1>2. IsFiniteSet(rows) /\ Cardinality(rows) <= Cardinality(Keys)
  <2> DEFINE arr == [k \in Keys |-> reg[k].arr]
  <2>1. arr \in Surjection(Keys, rows)
    BY DEF Surjection
  <2> QED
    BY <2>1, FS_Surjection, HubAssumption
<1>3. LiveArrays = most \cup {cleaner.slice.arr}
  BY DEF LiveArrays
<1> HIDE DEF rows
<1>4. IsFiniteSet(most) /\ Cardinality(most) <= Cardinality(Keys) + 1
  BY <1>1, <1>2, OneMore
<1> HIDE DEF most
<1>5. IsFiniteSet(LiveArrays) /\ Cardinality(LiveArrays) <= Cardinality(Keys) + 1 + 1
  <2>1. Cardinality(Keys) + 1 \in Nat
    BY <1>1
  <2>2. /\ IsFiniteSet(most \cup {cleaner.slice.arr})
        /\ Cardinality(most \cup {cleaner.slice.arr}) <= Cardinality(Keys) + 1 + 1
    BY <1>4, <2>1, OneMore
  <2> QED
    BY <1>3, <2>2
<1>6. IsFiniteSet(1 .. MaxArrays) /\ Cardinality(1 .. MaxArrays) = MaxArrays
  BY FS_Interval, HubAssumption
<1>7. Cardinality(LiveArrays) \in Nat
  BY <1>5, FS_CardinalityType
<1>8. 1 .. MaxArrays \subseteq LiveArrays => MaxArrays <= Cardinality(LiveArrays)
  <2> DEFINE all == 1 .. MaxArrays
  <2>1. all \subseteq LiveArrays => Cardinality(all) <= Cardinality(LiveArrays)
    BY <1>5, FS_Subset
  <2> QED
    BY <1>6, <2>1
<1>9. ~(1 .. MaxArrays \subseteq LiveArrays)
  BY <1>1, <1>5, <1>7, <1>8, HubAssumption
<1> QED
  BY <1>9 DEF FreeArrays
==============================================================================
