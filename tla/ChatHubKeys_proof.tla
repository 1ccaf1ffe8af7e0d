-------------------------- MODULE ChatHubKeys_proof --------------------------
(***************************************************************************)
(* Theorems about the event ids of ChatHub: whatever the cleanup overlaps, *)
(* no subscriber ever turns up under the event of another, and a client is *)
(* sent committed messages of the event it asked for and nothing else.     *)
(*                                                                         *)
(* The backing arrays carry no key, but every array in use belongs to one: *)
(* the key of the header that was allocated with it.  A rigid function     *)
(* owner names that key; the inductive invariant is that one such function *)
(* fits all headers and all cells.                                         *)
(***************************************************************************)
EXTENDS ChatHub_proof

Owners == [1 .. MaxArrays -> Keys]

\* Every header of a key points at an array of that key.
HeadersOwned(owner) ==
  /\ \A k \in Keys : reg[k].arr # 0 => owner[reg[k].arr] = k
  /\ writer.slice.arr # 0 => owner[writer.slice.arr] = StreamKey[writer.stream]
  /\ cleaner.slice.arr # 0 => owner[cleaner.slice.arr] = cleaner.key

\* The subscribers in an array, up to its capacity, are of its key.
CellsOwned(owner) ==
  /\ heap[0] = <<>>
  /\ \A a \in 1 .. MaxArrays : \A i \in 1 .. Len(heap[a]) :
       heap[a][i] \in Streams => StreamKey[heap[a][i]] = owner[a]

\* The subscribers in a sequence are of one key.
AllOf(s, k) == \A i \in 1 .. Len(s) : StreamKey[s[i]] = k

\* What the writer has read and what the cleanup has collected so far, which is
\* nothing between two visits.
CopiesOwned ==
  /\ AllOf(writer.old, StreamKey[writer.stream])
  /\ AllOf(cleaner.active, cleaner.key)
  /\ cleaner.at # "scan" => cleaner.active = <<>>

Owned(owner) == HeadersOwned(owner) /\ CellsOwned(owner) /\ CopiesOwned

KeyInv == \E owner \in Owners : Owned(owner)

------------------------------------------------------------------------------
\* Headers and cells of one key

\* The cells that a sound header of a key covers hold subscribers of that key.
LEMMA HeaderKey ==
  ASSUME SliceInv, NEW owner \in Owners, CellsOwned(owner),
         NEW sl \in Slices, SoundIn(heap, sl), NEW k \in Keys,
         sl.arr # 0 => owner[sl.arr] = k
  PROVE  \A i \in 1 .. sl.len :
           heap[sl.arr][i] \in Streams /\ StreamKey[heap[sl.arr][i]] = k
<1>1. sl.arr \in 0 .. MaxArrays /\ sl.len \in Nat
  BY SliceFields
<1>2. heap[sl.arr] \in Seq(Streams \cup {NoStream}) /\ sl.len <= Len(heap[sl.arr])
  BY <1>1 DEF SliceInv, SliceTypes, SoundIn
<1>3. CASE sl.arr = 0
  BY <1>1, <1>2, <1>3 DEF CellsOwned
<1>4. CASE sl.arr # 0
  <2>1. sl.arr \in 1 .. MaxArrays
    BY <1>1, <1>4, HubAssumption
  <2> TAKE i \in 1 .. sl.len
  <2>2. i \in 1 .. Len(heap[sl.arr])
    BY <1>1, <1>2
  <2>3. heap[sl.arr][i] \in Streams
    BY <1>2, <2>2 DEF SoundIn
  <2> QED
    BY <1>4, <2>1, <2>2, <2>3 DEF CellsOwned
<1> QED
  BY <1>3, <1>4

LEMMA ElementsKey ==
  ASSUME SliceInv, NEW owner \in Owners, CellsOwned(owner),
         NEW sl \in Slices, SoundIn(heap, sl), NEW k \in Keys,
         sl.arr # 0 => owner[sl.arr] = k
  PROVE  AllOf(Elements(sl), k)
<1>1. /\ Len(Elements(sl)) = sl.len
      /\ \A i \in 1 .. sl.len : Elements(sl)[i] = heap[sl.arr][i]
  BY ElementsType DEF SliceInv
<1>2. \A i \in 1 .. sl.len : StreamKey[heap[sl.arr][i]] = k
  BY HeaderKey
<1> QED
  BY <1>1, <1>2 DEF AllOf

\* A subscriber is written only to an array of its key.
LEMMA KeyCell ==
  ASSUME SliceInv, NEW owner \in Owners, CellsOwned(owner),
         NEW a \in 1 .. MaxArrays, NEW i \in 1 .. Len(heap[a]), NEW s \in Streams,
         StreamKey[s] = owner[a],
         heap' = [heap EXCEPT ![a] = [heap[a] EXCEPT ![i] = s]]
  PROVE  CellsOwned(owner)'
<1> USE HubAssumption
<1>1. a \in 0 .. MaxArrays /\ 0 \in 0 .. MaxArrays /\ a # 0
  OBVIOUS
<1>2. heap \in [0 .. MaxArrays -> Seq(Streams \cup {NoStream})] /\ SliceTypes
  BY DEF SliceInv, SliceTypes
<1>3. /\ Len(heap'[a]) = Len(heap[a])
      /\ heap'[a][i] = s
      /\ \A j \in 1 .. Len(heap[a]) : j # i => heap'[a][j] = heap[a][j]
  BY <1>1, <1>2, CellWritten
<1>4. \A b \in 0 .. MaxArrays : b # a => heap'[b] = heap[b]
  BY <1>2
<1>5. heap'[0] = <<>>
  BY <1>1, <1>4 DEF CellsOwned
<1>6. ASSUME NEW b \in 1 .. MaxArrays, NEW j \in 1 .. Len(heap'[b]), heap'[b][j] \in Streams
      PROVE  StreamKey[heap'[b][j]] = owner[b]
  <2>1. CASE b # a
    <3>1. heap'[b] = heap[b]
      BY <1>4, <2>1
    <3> QED
      BY <1>6, <3>1 DEF CellsOwned
  <2>2. CASE b = a
    BY <1>3, <1>6, <2>2 DEF CellsOwned
  <2> QED
    BY <2>1, <2>2
<1> QED
  BY <1>5, <1>6 DEF CellsOwned

LEMMA LiveType ==
  ASSUME SliceTypes
  PROVE  LiveArrays \subseteq 0 .. MaxArrays
BY DEF LiveArrays, SliceTypes, Slices

\* What is in an array after an allocation.
LEMMA AllocatedCell ==
  ASSUME FreeArrays # {}, NEW cells, NEW a \in 0 .. MaxArrays
  PROVE  Allocated(cells)[a] =
           IF a = Fresh THEN cells ELSE IF a \in LiveArrays THEN heap[a] ELSE <<>>
<1>1. Fresh \notin LiveArrays
  BY DEF Fresh, FreeArrays
<1> QED
  BY <1>1 DEF Allocated

\* A new array is given to the key of the subscribers it is filled with; the
\* arrays in use keep their keys.
LEMMA KeyAllocated ==
  ASSUME SliceInv, NEW owner \in Owners, CellsOwned(owner), FreeArrays # {},
         NEW s \in Seq(Streams), NEW c \in Nat, Len(s) <= c,
         NEW k \in Keys, AllOf(s, k),
         NEW f, f = Fresh,
         heap' = Allocated(Padded(s, c))
  PROVE  LET new == [owner EXCEPT ![f] = k] IN
         /\ new \in Owners
         /\ new[f] = k
         /\ \A a \in LiveArrays \ {0} : new[a] = owner[a]
         /\ CellsOwned(new)'
<1> DEFINE cells == Padded(s, c)
           new == [owner EXCEPT ![f] = k]
<1> USE HubAssumption
<1>1. cells \in Seq(Streams \cup {NoStream}) /\ Len(cells) = c
      /\ \A i \in 1 .. Len(s) : cells[i] = s[i]
  BY PaddedType
<1>2. \A i \in 1 .. Len(cells) : cells[i] \in Streams => StreamKey[cells[i]] = k
  <2> TAKE i \in 1 .. Len(cells)
  <2>1. CASE i <= Len(s)
    BY <1>1, <2>1 DEF AllOf
  <2>2. CASE ~(i <= Len(s))
    BY <1>1, <2>2 DEF Padded
  <2> QED
    BY <2>1, <2>2
<1>3. f \in FreeArrays
  BY DEF Fresh
<1>4. f \in 1 .. MaxArrays /\ f \notin LiveArrays
  BY <1>3 DEF FreeArrays
<1>5. LiveArrays \subseteq 0 .. MaxArrays
  BY LiveType DEF SliceInv
<1> HIDE DEF cells
<1>6. \A a \in 0 .. MaxArrays :
        heap'[a] = IF a = f THEN cells ELSE IF a \in LiveArrays THEN heap[a] ELSE <<>>
  BY AllocatedCell DEF cells
<1>7. new \in Owners /\ new[f] = k /\ \A a \in 1 .. MaxArrays : a # f => new[a] = owner[a]
  BY <1>4 DEF Owners
<1>8. \A a \in LiveArrays \ {0} : new[a] = owner[a]
  <2> HIDE DEF LiveArrays, new
  <2> QED BY <1>4, <1>5, <1>7
<1> HIDE DEF new
<1>9. heap'[0] = <<>>
  <2>1. 0 \in 0 .. MaxArrays /\ f # 0
    BY <1>4
  <2> QED
    BY <1>6, <2>1 DEF CellsOwned
<1>10. ASSUME NEW a \in 1 .. MaxArrays, NEW i \in 1 .. Len(heap'[a]), heap'[a][i] \in Streams
       PROVE  StreamKey[heap'[a][i]] = new[a]
  <2>1. a \in 0 .. MaxArrays
    OBVIOUS
  <2>2. CASE a = f
    BY <1>2, <1>6, <1>7, <1>10, <2>1, <2>2
  <2>3. CASE a # f /\ a \in LiveArrays
    <3>1. heap'[a] = heap[a] /\ new[a] = owner[a]
      BY <1>6, <1>7, <2>1, <2>3
    <3> QED
      BY <1>10, <3>1, SMTT(20) DEF CellsOwned
  <2>4. CASE a # f /\ a \notin LiveArrays
    <3>1. heap'[a] = <<>>
      BY <1>6, <2>1, <2>4
    <3>2. Len(heap'[a]) = 0
      BY <3>1
    <3> QED
      BY <1>10, <3>2
  <2> QED
    BY <2>2, <2>3, <2>4
<1>11. CellsOwned(new)'
  BY <1>9, <1>10 DEF CellsOwned
<1> QED
  BY <1>7, <1>8, <1>11 DEF new

------------------------------------------------------------------------------
\* Steps of the calls that take s.mu

LEMMA KeyInit == Init => KeyInv
<1> SUFFICES ASSUME Init PROVE KeyInv
  OBVIOUS
<1> USE HubAssumption
<1>1. PICK k \in Keys : TRUE
  OBVIOUS
<1> DEFINE owner == [a \in 1 .. MaxArrays |-> k]
<1>2. owner \in Owners
  BY DEF Owners
<1>3. heap = [a \in 0 .. MaxArrays |-> <<>>] /\ 0 \in 0 .. MaxArrays
  BY DEF Init
<1>4. \A a \in 0 .. MaxArrays : heap[a] = <<>> /\ Len(heap[a]) = 0
  BY <1>3
<1>5. CellsOwned(owner)
  BY <1>3, <1>4 DEF CellsOwned
<1>6. HeadersOwned(owner)
  BY DEF Init, HeadersOwned, Nil, NoWriter, NoScan
<1>7. CopiesOwned
  BY DEF Init, CopiesOwned, AllOf, NoWriter, NoScan
<1> HIDE DEF owner
<1> QED
  BY <1>2, <1>5, <1>6, <1>7 DEF KeyInv, Owned

LEMMA KeyStutter ==
  ASSUME KeyInv, UNCHANGED sliceVars
  PROVE  KeyInv'
<1>1. PICK owner \in Owners : Owned(owner)
  BY DEF KeyInv
<1>2. Owned(owner)'
  BY <1>1 DEF Owned, HeadersOwned, CellsOwned, CopiesOwned, sliceVars
<1> QED
  BY <1>2 DEF KeyInv, Owners

\* A call takes s.mu and loads the slice of its key.
LEMMA KeyLock ==
  ASSUME SliceInv, NEW owner \in Owners, Owned(owner), UNCHANGED <<reg, heap, cleaner>>,
         NEW s \in Streams, NEW spawned \in BOOLEAN, NEW at,
         writer' = Holding(at, s, spawned)
  PROVE  Owned(owner)'
<1>1. StreamKey[s] \in Keys
  BY HubAssumption
<1>2. writer'.slice = reg[StreamKey[s]] /\ writer'.stream = s /\ writer'.old = <<>>
  BY DEF Holding
<1>3. HeadersOwned(owner)'
  BY <1>1, <1>2 DEF Owned, HeadersOwned
<1>4. CopiesOwned'
  <2>1. Len(writer'.old) = 0
    BY <1>2
  <2> QED
    BY <2>1 DEF Owned, CopiesOwned, AllOf
<1> QED
  BY <1>3, <1>4 DEF Owned, CellsOwned

\* The call puts a slice of its key into the map and releases s.mu.
LEMMA KeyUnlock ==
  ASSUME SliceInv, NEW owner \in Owners, UNCHANGED cleaner, writer.at # "none",
         \A k \in Keys : reg[k].arr # 0 => owner[reg[k].arr] = k,
         cleaner.slice.arr # 0 => owner[cleaner.slice.arr] = cleaner.key,
         CopiesOwned, CellsOwned(owner)',
         NEW sl, sl.arr # 0 => owner[sl.arr] = StreamKey[writer.stream],
         reg' = [reg EXCEPT ![StreamKey[writer.stream]] = sl],
         writer' = NoWriter
  PROVE  Owned(owner)'
<1>1. writer.stream \in Streams /\ StreamKey[writer.stream] \in Keys /\ reg \in [Keys -> Slices]
  BY HubAssumption DEF SliceInv, SliceTypes, WriterSane
<1>2. \A k \in Keys : reg'[k].arr # 0 => owner[reg'[k].arr] = k
  BY <1>1
<1>3. writer'.slice.arr = 0 /\ Len(writer'.old) = 0
  BY DEF NoWriter, Nil
<1>4. HeadersOwned(owner)'
  BY <1>2, <1>3 DEF HeadersOwned
<1>5. CopiesOwned'
  BY <1>3 DEF CopiesOwned, AllOf
<1> QED
  BY <1>4, <1>5 DEF Owned

LEMMA KeyAppendInPlace ==
  ASSUME SliceInv, NEW owner \in Owners, Owned(owner), AppendInPlace
  PROVE  Owned(owner)'
<1> DEFINE sl == writer.slice
           new == [arr |-> sl.arr, len |-> sl.len + 1]
<1>1. sl \in Slices /\ SoundIn(heap, sl) /\ writer.stream \in Streams
  BY DEF AppendInPlace, SliceInv, SliceTypes, SlicesSound, WriterSane
<1>2. sl.arr \in 0 .. MaxArrays /\ sl.len \in Nat
  BY <1>1, SliceFields
<1>3. heap[sl.arr] \in Seq(Streams \cup {NoStream}) /\ sl.len < Len(heap[sl.arr])
  BY <1>2 DEF AppendInPlace, SliceInv, SliceTypes
<1>4. sl.len + 1 \in 1 .. Len(heap[sl.arr])
  BY <1>2, <1>3
<1>5. sl.arr \in 1 .. MaxArrays /\ sl.arr # 0
  <2>1. Len(heap[0]) = 0
    BY DEF Owned, CellsOwned
  <2> QED
    BY <1>2, <1>3, <2>1, HubAssumption
<1>6. heap' = [heap EXCEPT ![sl.arr] = [heap[sl.arr] EXCEPT ![sl.len + 1] = writer.stream]]
  BY DEF AppendInPlace
<1>7. owner[sl.arr] = StreamKey[writer.stream]
  BY <1>5 DEF Owned, HeadersOwned
<1>8. CellsOwned(owner)'
  <2> HIDE DEF sl
  <2> QED
    BY <1>1, <1>4, <1>5, <1>6, <1>7, KeyCell DEF Owned
<1>9. /\ UNCHANGED cleaner /\ writer.at # "none" /\ writer' = NoWriter
      /\ reg' = [reg EXCEPT ![StreamKey[writer.stream]] = new]
  BY DEF AppendInPlace, AddReturns
<1>10. new.arr = sl.arr
  OBVIOUS
<1> QED
  <2> HIDE DEF new
  <2> QED BY <1>7, <1>8, <1>9, <1>10, KeyUnlock DEF Owned, HeadersOwned

LEMMA KeyAppendGrow ==
  ASSUME SliceInv, KeyInv, AppendGrow
  PROVE  KeyInv'
<1>1. PICK owner \in Owners : Owned(owner)
  BY DEF KeyInv
<1> DEFINE sl == writer.slice
           s == Append(Elements(sl), writer.stream)
           c == Grow(sl.len)
           new == [arr |-> Fresh, len |-> sl.len + 1]
<1>2. /\ sl \in Slices /\ SoundIn(heap, sl) /\ writer.stream \in Streams
      /\ StreamKey[writer.stream] \in Keys /\ SliceTypes
  BY HubAssumption DEF AppendGrow, SliceInv, SliceTypes, SlicesSound, WriterSane
<1>3. sl.len \in Nat
  BY <1>2, SliceFields
<1>4. PICK k \in Keys : k = StreamKey[writer.stream]
  BY <1>2
<1>5. Elements(sl) \in Seq(Streams) /\ Len(Elements(sl)) = sl.len
  BY <1>2, ElementsType
<1>6. AllOf(Elements(sl), k)
  BY <1>1, <1>2, <1>4, ElementsKey DEF Owned, HeadersOwned
<1>7. s \in Seq(Streams) /\ Len(s) = sl.len + 1 /\ AllOf(s, k)
  <2> HIDE DEF sl
  <2>1. \A i \in 1 .. sl.len : s[i] = Elements(sl)[i]
    BY <1>5
  <2>2. s[sl.len + 1] = writer.stream /\ s \in Seq(Streams) /\ Len(s) = sl.len + 1
    BY <1>2, <1>5
  <2> HIDE DEF s
  <2>3. ASSUME NEW i \in 1 .. Len(s) PROVE StreamKey[s[i]] = k
    <3>1. i \in 1 .. sl.len \/ i = sl.len + 1
      BY <1>3, <2>2
    <3> QED
      BY <1>4, <1>5, <1>6, <2>1, <2>2, <3>1 DEF AllOf
  <2> QED
    BY <2>2, <2>3 DEF AllOf
<1>8. c \in Nat /\ sl.len + 1 <= c
  BY <1>3 DEF Grow
<1>9. /\ FreeArrays # {} /\ heap' = Allocated(Padded(s, c))
      /\ UNCHANGED cleaner /\ writer.at # "none" /\ writer' = NoWriter
      /\ reg' = [reg EXCEPT ![StreamKey[writer.stream]] = new]
  BY DEF AppendGrow, AddReturns
<1>10. Fresh \in FreeArrays
  BY <1>9 DEF Fresh
<1>11. PICK f \in 1 .. MaxArrays : f = Fresh
  BY <1>10 DEF FreeArrays
<1> DEFINE owner2 == [owner EXCEPT ![f] = k]
<1> HIDE DEF s, c
<1>12. /\ owner2 \in Owners /\ owner2[f] = k
       /\ \A a \in LiveArrays \ {0} : owner2[a] = owner[a]
       /\ CellsOwned(owner2)'
  BY <1>1, <1>7, <1>8, <1>9, <1>11, KeyAllocated DEF Owned
<1>13. new.arr = f
  BY <1>11
<1> HIDE DEF owner2, new, sl
<1>14. /\ \A h \in Keys : reg[h].arr # 0 => owner2[reg[h].arr] = h
       /\ cleaner.slice.arr # 0 => owner2[cleaner.slice.arr] = cleaner.key
  BY <1>1, <1>12 DEF Owned, HeadersOwned, LiveArrays
<1>15. Owned(owner2)'
  BY <1>1, <1>4, <1>9, <1>12, <1>13, <1>14, KeyUnlock DEF Owned
<1> QED
  BY <1>12, <1>15 DEF KeyInv, Owners

LEMMA KeyRemoveLock ==
  ASSUME SliceInv, NEW owner \in Owners, Owned(owner),
         NEW s \in Streams, NEW spawned \in BOOLEAN, RemoveLock(s, spawned)
  PROVE  Owned(owner)'
<1>1. UNCHANGED <<reg, heap, cleaner>>
  BY DEF RemoveLock
<1>2. CASE UNCHANGED writer
  BY <1>1, <1>2 DEF Owned, HeadersOwned, CellsOwned, CopiesOwned
<1>3. CASE writer' = Holding("close", s, spawned)
  BY <1>1, <1>3, KeyLock
<1> QED
  BY <1>2, <1>3 DEF RemoveLock

LEMMA KeyRemoveClose ==
  ASSUME SliceInv, NEW owner \in Owners, Owned(owner), RemoveClose
  PROVE  Owned(owner)'
<1> DEFINE sl == writer.slice
<1>1. /\ sl \in Slices /\ SoundIn(heap, sl) /\ writer \in Writers
      /\ StreamKey[writer.stream] \in Keys
  BY HubAssumption DEF RemoveClose, SliceInv, SliceTypes, SlicesSound, Writers, WriterSane
<1>2. PICK i \in 1 .. sl.len :
        writer' = [writer EXCEPT !.at = "shift", !.old = Elements(sl), !.moves = i .. sl.len - 1]
  BY DEF RemoveClose
<1>3. writer'.stream = writer.stream /\ writer'.slice = sl /\ writer'.old = Elements(sl)
  BY <1>1, <1>2 DEF Writers
<1>4. AllOf(Elements(sl), StreamKey[writer.stream])
  BY <1>1, ElementsKey DEF Owned, HeadersOwned
<1>5. UNCHANGED <<reg, heap, cleaner>>
  BY DEF RemoveClose
<1> HIDE DEF sl
<1>6. HeadersOwned(owner)'
  BY <1>3, <1>5 DEF Owned, HeadersOwned, sl
<1>7. CopiesOwned'
  BY <1>3, <1>4, <1>5 DEF Owned, CopiesOwned, AllOf
<1> QED
  BY <1>5, <1>6, <1>7 DEF Owned, CellsOwned

LEMMA KeyRemovePanic ==
  ASSUME SliceInv, NEW owner \in Owners, Owned(owner), RemovePanic
  PROVE  Owned(owner)'
<1>1. UNCHANGED <<reg, heap, cleaner>> /\ writer' = NoWriter
  BY DEF RemovePanic
<1>2. writer'.slice.arr = 0 /\ Len(writer'.old) = 0
  BY <1>1 DEF NoWriter, Nil
<1> QED
  BY <1>1, <1>2 DEF Owned, HeadersOwned, CellsOwned, CopiesOwned, AllOf

LEMMA KeyRemoveShift ==
  ASSUME SliceInv, NEW owner \in Owners, Owned(owner), RemoveShift
  PROVE  Owned(owner)'
<1> DEFINE sl == writer.slice
<1>1. sl \in Slices /\ SoundIn(heap, sl) /\ SliceTypes /\ writer \in Writers
  BY DEF SliceInv, SliceTypes, SlicesSound, Writers
<1>2. PICK j \in writer.moves :
        /\ heap' = [heap EXCEPT ![sl.arr] = [heap[sl.arr] EXCEPT ![j] = writer.old[j + 1]]]
        /\ writer' = [writer EXCEPT !.moves = @ \ {j}]
  BY DEF RemoveShift
<1>3. /\ sl.arr \in 0 .. MaxArrays /\ sl.len \in Nat
      /\ heap[sl.arr] \in Seq(Streams \cup {NoStream})
      /\ writer.moves \subseteq Nat \ {0}
  BY <1>1, SliceFields DEF SliceTypes, Writers
<1>4. j \in 1 .. sl.len - 1 /\ Len(writer.old) = sl.len /\ writer.old \in Seq(Streams)
  BY <1>1, <1>3 DEF RemoveShift, SliceInv, WriterSane, Writers
<1>5. writer.old[j + 1] \in Streams /\ StreamKey[writer.old[j + 1]] = StreamKey[writer.stream]
  <2>1. j + 1 \in 1 .. Len(writer.old)
    BY <1>3, <1>4
  <2>2. AllOf(writer.old, StreamKey[writer.stream])
    BY DEF Owned, CopiesOwned
  <2> QED
    BY <1>4, <2>1, <2>2 DEF AllOf
<1>6. j \in 1 .. Len(heap[sl.arr])
  BY <1>1, <1>3, <1>4 DEF SoundIn
<1>7. sl.arr \in 1 .. MaxArrays /\ sl.arr # 0
  <2>1. Len(heap[0]) = 0
    BY DEF Owned, CellsOwned
  <2> QED
    BY <1>3, <1>6, <2>1, HubAssumption
<1>8. owner[sl.arr] = StreamKey[writer.stream]
  BY <1>7 DEF Owned, HeadersOwned
<1>9. /\ writer'.stream = writer.stream /\ writer'.slice = sl /\ writer'.old = writer.old
      /\ UNCHANGED <<reg, cleaner>>
  BY <1>1, <1>2 DEF Writers, RemoveShift
<1> HIDE DEF sl
<1>10. CellsOwned(owner)'
  BY <1>2, <1>5, <1>6, <1>7, <1>8, KeyCell DEF Owned
<1>11. HeadersOwned(owner)'
  BY <1>9 DEF Owned, HeadersOwned, sl
<1>12. CopiesOwned'
  BY <1>9 DEF Owned, CopiesOwned, AllOf
<1> QED
  BY <1>10, <1>11, <1>12 DEF Owned

\* What removeSubscriber stores keeps the array it has loaded, or is nil.
LEMMA KeyRemoveStores ==
  ASSUME SliceInv, NEW owner \in Owners, Owned(owner), writer.at # "none",
         NEW sl, sl.arr = writer.slice.arr, UNCHANGED <<heap, cleaner>>, RemoveStores(sl)
  PROVE  Owned(owner)'
<1> DEFINE new == IF sl.len = 0 THEN Nil ELSE sl
<1>1. new.arr # 0 => owner[new.arr] = StreamKey[writer.stream]
  BY DEF Owned, HeadersOwned, Nil
<1>2. reg' = [reg EXCEPT ![StreamKey[writer.stream]] = new] /\ writer' = NoWriter
  BY DEF RemoveStores
<1>3. CellsOwned(owner)'
  BY DEF Owned, CellsOwned
<1> HIDE DEF new
<1> QED
  BY <1>1, <1>2, <1>3, KeyUnlock DEF Owned, HeadersOwned

LEMMA KeyRemoveStore ==
  ASSUME SliceInv, NEW owner \in Owners, Owned(owner), RemoveStore \/ RemoveMissing
  PROVE  Owned(owner)'
<1>1. writer.slice \in Slices /\ writer.at # "none" /\ UNCHANGED <<heap, cleaner>>
  BY DEF RemoveStore, RemoveMissing, RemoveStores, SliceInv, SliceTypes
<1>2. CASE RemoveStore
  <2> DEFINE sl == [writer.slice EXCEPT !.len = @ - 1]
  <2>1. sl.arr = writer.slice.arr
    BY <1>1 DEF Slices
  <2>2. RemoveStores(sl)
    BY <1>2 DEF RemoveStore
  <2> HIDE DEF sl
  <2> QED
    BY <1>1, <2>1, <2>2, KeyRemoveStores
<1>3. CASE RemoveMissing
  BY <1>1, <1>3, KeyRemoveStores DEF RemoveMissing
<1> QED
  BY <1>2, <1>3

------------------------------------------------------------------------------
\* Steps of the cleanup

\* The header the cleanup holds, and what it has collected, stay of one key.
LEMMA KeyCleanerStep ==
  ASSUME NEW owner \in Owners, Owned(owner), UNCHANGED <<reg, heap, writer>>,
         cleaner'.slice.arr # 0 => owner[cleaner'.slice.arr] = cleaner'.key,
         AllOf(cleaner'.active, cleaner'.key),
         cleaner'.at # "scan" => cleaner'.active = <<>>
  PROVE  Owned(owner)'
<1>1. HeadersOwned(owner)' /\ CellsOwned(owner)'
  BY DEF Owned, HeadersOwned, CellsOwned
<1>2. CopiesOwned'
  BY DEF Owned, CopiesOwned, AllOf
<1> QED
  BY <1>1, <1>2 DEF Owned

LEMMA NothingOf == ASSUME NEW k PROVE AllOf(<<>>, k)
BY DEF AllOf

LEMMA KeyTick ==
  ASSUME SliceInv, NEW owner \in Owners, Owned(owner), Tick
  PROVE  Owned(owner)'
<1>1. cleaner \in Cleaners
  BY DEF SliceInv, SliceTypes, Cleaners
<1>2. /\ cleaner'.slice = cleaner.slice /\ cleaner'.key = cleaner.key
      /\ cleaner'.active = cleaner.active /\ cleaner.active = <<>>
  BY <1>1 DEF Tick, Cleaners, Owned, CopiesOwned
<1>3. UNCHANGED <<reg, heap, writer>>
  BY DEF Tick, hubVars
<1> QED
  BY <1>2, <1>3, KeyCleanerStep DEF Owned, HeadersOwned, CopiesOwned

LEMMA KeyVisit ==
  ASSUME SliceInv, NEW owner \in Owners, Owned(owner), NEW k \in Keys, Visit(k)
  PROVE  Owned(owner)'
<1>1. cleaner \in Cleaners /\ cleaner.active = <<>>
  BY DEF SliceInv, SliceTypes, Cleaners, Visit, Owned, CopiesOwned
<1>2. /\ cleaner'.active = <<>>
      /\ \/ cleaner'.slice = cleaner.slice /\ cleaner'.key = cleaner.key
         \/ cleaner'.slice = reg[k] /\ cleaner'.key = k
  BY <1>1 DEF Visit, Cleaners
<1>3. UNCHANGED <<reg, heap, writer>>
  BY DEF Visit, hubVars
<1>4. cleaner'.slice.arr # 0 => owner[cleaner'.slice.arr] = cleaner'.key
  BY <1>2 DEF Owned, HeadersOwned
<1> QED
  BY <1>2, <1>3, <1>4, NothingOf, KeyCleanerStep

LEMMA KeyScanKeep ==
  ASSUME SliceInv, NEW owner \in Owners, Owned(owner), ScanKeep
  PROVE  Owned(owner)'
<1>1. /\ cleaner \in Cleaners /\ cleaner.slice \in Slices /\ SoundIn(heap, cleaner.slice)
      /\ cleaner.key \in Keys /\ cleaner.active \in Seq(Streams)
  BY DEF SliceInv, SliceTypes, SlicesSound, Cleaners
<1>2. cleaner.idx \in 1 .. cleaner.slice.len
  BY <1>1, SliceFields DEF ScanKeep, Cleaners
<1>3. StreamKey[Scanned] = cleaner.key
  BY <1>1, <1>2, HeaderKey DEF Owned, HeadersOwned, Scanned
<1>4. /\ cleaner'.slice = cleaner.slice /\ cleaner'.key = cleaner.key
      /\ cleaner'.active = Append(cleaner.active, Scanned) /\ cleaner'.at = "scan"
  BY <1>1 DEF ScanKeep, Cleaners
<1>5. AllOf(cleaner'.active, cleaner'.key)
  <2>1. AllOf(cleaner.active, cleaner.key)
    BY DEF Owned, CopiesOwned
  <2> QED
    BY <1>1, <1>3, <1>4, <2>1 DEF AllOf
<1>6. UNCHANGED <<reg, heap, writer>>
  BY DEF ScanKeep, hubVars
<1> QED
  BY <1>4, <1>5, <1>6, KeyCleanerStep DEF Owned, HeadersOwned

LEMMA KeyScanClose ==
  ASSUME SliceInv, NEW owner \in Owners, Owned(owner), ScanClose
  PROVE  Owned(owner)'
<1>1. cleaner \in Cleaners
  BY DEF SliceInv, SliceTypes, Cleaners
<1>2. /\ cleaner'.slice = cleaner.slice /\ cleaner'.key = cleaner.key
      /\ cleaner'.active = cleaner.active /\ cleaner'.at = "scan"
  BY <1>1 DEF ScanClose, Cleaners
<1>3. UNCHANGED <<reg, heap, writer>>
  BY DEF ScanClose
<1> QED
  BY <1>2, <1>3, KeyCleanerStep DEF Owned, HeadersOwned, CopiesOwned

\* The cleanup puts a slice of its key into the map and goes on.
LEMMA KeyEndVisit ==
  ASSUME SliceInv, NEW owner \in Owners, EndVisit, UNCHANGED writer,
         \A k \in Keys : reg[k].arr # 0 => owner[reg[k].arr] = k,
         writer.slice.arr # 0 => owner[writer.slice.arr] = StreamKey[writer.stream],
         CopiesOwned, CellsOwned(owner)',
         NEW sl, sl.arr # 0 => owner[sl.arr] = cleaner.key,
         reg' = [reg EXCEPT ![cleaner.key] = sl]
  PROVE  Owned(owner)'
<1>1. cleaner.key \in Keys /\ reg \in [Keys -> Slices]
  BY DEF SliceInv, SliceTypes
<1>2. \A k \in Keys : reg'[k].arr # 0 => owner[reg'[k].arr] = k
  BY <1>1
<1>3. cleaner'.slice.arr = 0 /\ cleaner'.active = <<>>
  BY DEF EndVisit, NoScan, Nil
<1>4. HeadersOwned(owner)'
  BY <1>2, <1>3 DEF HeadersOwned
<1>5. CopiesOwned'
  BY <1>3, NothingOf DEF CopiesOwned, AllOf
<1> QED
  BY <1>4, <1>5 DEF Owned

LEMMA KeyScanDelete ==
  ASSUME SliceInv, NEW owner \in Owners, Owned(owner), ScanDelete
  PROVE  Owned(owner)'
<1>1. UNCHANGED <<heap, writer>> /\ EndVisit /\ reg' = [reg EXCEPT ![cleaner.key] = Nil]
  BY DEF ScanDelete
<1>2. CellsOwned(owner)'
  BY <1>1 DEF Owned, CellsOwned
<1>3. Nil.arr = 0
  BY DEF Nil
<1> QED
  BY <1>1, <1>2, <1>3, KeyEndVisit DEF Owned, HeadersOwned

LEMMA KeyScanStore ==
  ASSUME SliceInv, KeyInv, ScanStore
  PROVE  KeyInv'
<1>1. PICK owner \in Owners : Owned(owner)
  BY DEF KeyInv
<1> DEFINE s == cleaner.active
           new == [arr |-> Fresh, len |-> Len(s)]
<1>2. /\ s \in Seq(Streams) /\ cleaner.cap \in Nat /\ Len(s) <= cleaner.cap
      /\ cleaner.key \in Keys
  BY DEF SliceInv, SliceTypes, CleanerSane
<1>3. PICK k \in Keys : k = cleaner.key
  BY <1>2
<1>4. AllOf(s, k)
  BY <1>1, <1>3 DEF Owned, CopiesOwned
<1>5. /\ FreeArrays # {} /\ heap' = Allocated(Padded(s, cleaner.cap))
      /\ reg' = [reg EXCEPT ![cleaner.key] = new] /\ EndVisit /\ UNCHANGED writer
  BY DEF ScanStore
<1>6. Fresh \in FreeArrays
  BY <1>5 DEF Fresh
<1>7. PICK f \in 1 .. MaxArrays : f = Fresh
  BY <1>6 DEF FreeArrays
<1> DEFINE owner2 == [owner EXCEPT ![f] = k]
<1> HIDE DEF s
<1>8. /\ owner2 \in Owners /\ owner2[f] = k
      /\ \A a \in LiveArrays \ {0} : owner2[a] = owner[a]
      /\ CellsOwned(owner2)'
  BY <1>1, <1>2, <1>4, <1>5, <1>7, KeyAllocated DEF Owned
<1>9. new.arr = f
  BY <1>7
<1> HIDE DEF owner2, new
<1>10. /\ \A h \in Keys : reg[h].arr # 0 => owner2[reg[h].arr] = h
       /\ writer.slice.arr # 0 => owner2[writer.slice.arr] = StreamKey[writer.stream]
  BY <1>1, <1>8 DEF Owned, HeadersOwned, LiveArrays
<1>11. Owned(owner2)'
  BY <1>1, <1>3, <1>5, <1>8, <1>9, <1>10, KeyEndVisit DEF Owned
<1> QED
  BY <1>8, <1>11 DEF KeyInv, Owners

LEMMA KeyEndPass ==
  ASSUME SliceInv, NEW owner \in Owners, Owned(owner), EndPass
  PROVE  Owned(owner)'
<1>1. UNCHANGED <<reg, heap, writer>> /\ cleaner' = NoScan
  BY DEF EndPass, hubVars
<1>2. cleaner'.slice.arr = 0 /\ cleaner'.active = <<>>
  BY <1>1 DEF NoScan, Nil
<1> QED
  BY <1>1, <1>2, NothingOf, KeyCleanerStep

LEMMA KeyNext == SliceInv /\ KeyInv /\ [Next]_vars => KeyInv'
<1> SUFFICES ASSUME SliceInv, KeyInv, [Next]_vars PROVE KeyInv'
  OBVIOUS
<1> DEFINE Kept == \E owner \in Owners : Owned(owner)'
<1>1. Kept => KeyInv'
  BY DEF KeyInv, Owners
<1> HIDE DEF Kept
<1>2. PICK owner \in Owners : Owned(owner)
  BY DEF KeyInv
<1>3. Owned(owner)' => Kept
  BY DEF Kept
<1>4. CASE UNCHANGED sliceVars
  BY <1>4, KeyStutter
<1>5. CASE AddSubscriber
  <2>1. ASSUME NEW s \in Streams, AddLock(s) PROVE Owned(owner)'
    BY <1>2, <2>1, KeyLock DEF AddLock
  <2> QED
    BY <1>1, <1>2, <1>3, <1>5, <2>1, KeyAppendInPlace, KeyAppendGrow DEF AddSubscriber
<1>6. CASE RemoveSubscriber
  BY <1>1, <1>2, <1>3, <1>6, KeyRemoveLock, KeyRemoveClose, KeyRemovePanic, KeyRemoveShift,
     KeyRemoveStore DEF RemoveSubscriber, RemoveBody
<1>7. CASE Tick \/ (\E k \in Keys : Visit(k)) \/ EndPass
  BY <1>1, <1>2, <1>3, <1>7, KeyTick, KeyVisit, KeyEndPass
<1>8. CASE CleanupVisit
  <2>1. CASE ScanPanic
    BY <1>4, <2>1 DEF ScanPanic, hubVars, sliceVars
  <2> QED
    BY <1>1, <1>2, <1>3, <1>8, <2>1, KeyScanKeep, KeyScanClose, KeyScanDelete, KeyScanStore
    DEF CleanupVisit
<1>9. ASSUME NEW m \in Messages, CreateMessage(m) PROVE UNCHANGED sliceVars
  BY <1>9 DEF CreateMessage, Insert, BroadcastStep, BroadcastLock, BroadcastSend,
     BroadcastPanic, BroadcastUnlock, hubVars, sliceVars
<1>10. ASSUME NEW s \in Streams, StreamLoop(s) PROVE UNCHANGED sliceVars
  BY <1>10 DEF StreamLoop, Replay, Forward, ForwardNil, Deliver, SendReturns,
     ServerCancel, ClientCancel, hubVars, sliceVars
<1>11. UNCHANGED vars => UNCHANGED sliceVars
  BY DEF vars, hubVars, sliceVars
<1> QED
  BY <1>4, <1>5, <1>6, <1>7, <1>8, <1>9, <1>10, <1>11 DEF Next, Cleanup

\* No header and no cell is ever of two events.
THEOREM KeysInvariant == Spec => []KeyInv
BY KeyInit, KeyNext, SlicesInvariant, PTL DEF Spec

\* The registry holds a subscriber only under the event its client asked for,
\* in every execution: addSubscriber, removeSubscriber and the unlocked cleanup
\* write through headers that share arrays, but never across events.
RegistryKeys == \A k \in Keys : AllOf(Elements(reg[k]), k)

THEOREM RegistryNeverMixes == Spec => []RegistryKeys
<1>1. SliceInv /\ KeyInv => RegistryKeys
  <2> SUFFICES ASSUME SliceInv, KeyInv, NEW k \in Keys PROVE AllOf(Elements(reg[k]), k)
    BY DEF RegistryKeys
  <2>1. PICK owner \in Owners : Owned(owner)
    BY DEF KeyInv
  <2>2. reg[k] \in Slices /\ SoundIn(heap, reg[k])
    BY DEF SliceInv, SliceTypes, SlicesSound
  <2> QED
    BY <2>1, <2>2, ElementsKey DEF Owned, HeadersOwned
<1> QED
  BY <1>1, KeysInvariant, SlicesInvariant, PTL

------------------------------------------------------------------------------
\* What clients are sent

\* A broadcast still has subscribers of its event only, and the insert of what
\* it sends is committed.
BroadcastInv ==
  \A m \in Messages :
    /\ AllOf(todo[m], MessageKey[m])
    /\ mpc[m] \in {"stored", "unsent", "broadcasting", "acked"} => m \in stored

DeliveryInv == BroadcastInv /\ OnlyStored

LEMMA QueueSets ==
  ASSUME NEW q \in Seq(Messages), NEW m \in Messages
  PROVE  /\ ToSet(Append(q, m)) \subseteq ToSet(q) \cup {m}
         /\ q # <<>> => Head(q) \in ToSet(q) /\ ToSet(Tail(q)) \subseteq ToSet(q)
BY DEF ToSet

\* OnlyStored survives a step that adds to a stream's messages only committed
\* ones of its event, and an empty one only if the stream is closed.
LEMMA OnlyStoredGrows ==
  ASSUME OnlyStored, stored \subseteq stored', closed \subseteq closed',
         \A s \in Streams : \A m \in Held(s)' :
           \/ m \in Held(s)
           \/ m = NoMessage
           \/ m \in stored' /\ MessageKey[m] = Canon[StreamKey[s]],
         \A s \in Streams : NoMessage \in sent'[s] => NoMessage \in sent[s] \/ s \in closed'
  PROVE  OnlyStored'
BY DEF OnlyStored

LEMMA DeliveryInit == Init => DeliveryInv
<1> SUFFICES ASSUME Init PROVE DeliveryInv
  OBVIOUS
<1>1. \A s \in Streams : Held(s) = {}
  BY DEF Init, Held, ToSet
<1>2. OnlyStored
  BY <1>1 DEF OnlyStored, Init
<1>3. BroadcastInv
  BY DEF Init, BroadcastInv, AllOf
<1> QED
  BY <1>2, <1>3 DEF DeliveryInv

LEMMA DeliveryCreate ==
  ASSUME SliceInv, HandlerTypes, KeyInv, DeliveryInv, NEW m \in Messages, CreateMessage(m)
  PROVE  DeliveryInv'
<1> USE HubAssumption
<1> USE DEF DeliveryInv
<1>1. CASE Insert(m)
  <2>1. UNCHANGED <<queue, sent, closed, todo>> /\ stored \subseteq stored'
    BY <1>1 DEF Insert, hubVars, streamVars
  <2>2. OnlyStored'
    BY <2>1, OnlyStoredGrows DEF Held
  <2>3. BroadcastInv'
    BY <1>1, <2>1 DEF Insert, BroadcastInv, HandlerTypes, AllOf
  <2> QED
    BY <2>2, <2>3
<1>2. CASE BroadcastLock(m)
  <2>1. UNCHANGED <<queue, sent, closed, stored>>
    BY <1>2 DEF BroadcastLock, hubVars, streamVars
  <2>2. OnlyStored'
    BY <2>1 DEF OnlyStored, Held
  <2>3. AllOf(Elements(reg[MessageKey[m]]), MessageKey[m])
    <3>1. PICK owner \in Owners : Owned(owner)
      BY DEF KeyInv
    <3>2. reg[MessageKey[m]] \in Slices /\ SoundIn(heap, reg[MessageKey[m]])
      BY DEF SliceInv, SliceTypes, SlicesSound
    <3> QED
      BY <3>1, <3>2, ElementsKey DEF Owned, HeadersOwned
  <2>4. /\ todo' = [todo EXCEPT ![m] = Elements(reg[MessageKey[m]])]
        /\ mpc[m] = "stored" /\ mpc' = [mpc EXCEPT ![m] = "broadcasting"]
    BY <1>2 DEF BroadcastLock
  <2>5. BroadcastInv'
    BY <2>1, <2>3, <2>4 DEF BroadcastInv, HandlerTypes, AllOf
  <2> QED
    BY <2>2, <2>5
<1>3. CASE BroadcastSend(m)
  <2> DEFINE s == Head(todo[m])
  <2>1. todo[m] \in Seq(Streams) /\ todo[m] # <<>> /\ mpc[m] = "broadcasting"
    BY <1>3 DEF BroadcastSend, HandlerTypes
  <2>2. s \in Streams /\ StreamKey[s] = MessageKey[m] /\ m \in stored
    BY <2>1 DEF BroadcastInv, AllOf
  <2>3. Canon[StreamKey[s]] = MessageKey[m]
    BY <2>2
  <2>4. AllOf(Tail(todo[m]), MessageKey[m])
    BY <2>1 DEF BroadcastInv, AllOf
  <2>5. UNCHANGED <<sent, closed, stored, mpc>> /\ todo' = [todo EXCEPT ![m] = Tail(@)]
    BY <1>3 DEF BroadcastSend, hubVars, streamVars
  <2>6. BroadcastInv'
    BY <2>4, <2>5, ZenonT(30) DEF BroadcastInv, HandlerTypes, AllOf
  <2>7. queue' = queue \/ queue' = [queue EXCEPT ![s] = Append(@, m)]
    BY <1>3 DEF BroadcastSend
  <2> HIDE DEF s
  <2>8. ASSUME NEW r \in Streams, NEW x \in Held(r)'
        PROVE  x \in Held(r) \/ (x \in stored' /\ MessageKey[x] = Canon[StreamKey[r]])
    <3>1. CASE queue'[r] = queue[r]
      BY <2>5, <2>8, <3>1 DEF Held
    <3>2. CASE r = s /\ queue'[r] = Append(queue[r], m)
      <4>1. queue[r] \in Seq(Messages)
        BY DEF HandlerTypes
      <4> QED
        BY <2>2, <2>3, <2>5, <2>8, <3>2, <4>1, QueueSets DEF Held
    <3> QED
      BY <2>2, <2>7, <3>1, <3>2 DEF HandlerTypes
  <2>9. OnlyStored'
    BY <2>5, <2>8, OnlyStoredGrows
  <2> QED
    BY <2>6, <2>9
<1>4. CASE BroadcastPanic(m) \/ BroadcastUnlock(m)
  <2>1. UNCHANGED <<queue, sent, closed, stored>>
    BY <1>4 DEF BroadcastPanic, BroadcastUnlock, hubVars, streamVars
  <2>2. OnlyStored'
    BY <2>1 DEF OnlyStored, Held
  <2>3. mpc' \in {[mpc EXCEPT ![m] = "failed"], [mpc EXCEPT ![m] = "acked"]} /\ mpc[m] = "broadcasting"
        /\ todo' \in {todo, [todo EXCEPT ![m] = <<>>]}
    BY <1>4 DEF BroadcastPanic, BroadcastUnlock
  <2>4. BroadcastInv'
    <3>1. ASSUME NEW n \in Messages PROVE AllOf(todo'[n], MessageKey[n])
      <4>1. todo'[n] = todo[n] \/ todo'[n] = <<>>
        BY <2>3 DEF HandlerTypes
      <4>2. AllOf(todo[n], MessageKey[n])
        BY DEF BroadcastInv
      <4> QED
        BY <4>1, <4>2, NothingOf
    <3>2. ASSUME NEW n \in Messages,
                 mpc'[n] \in {"stored", "unsent", "broadcasting", "acked"}
          PROVE  n \in stored
      BY <2>3, <3>2 DEF BroadcastInv, HandlerTypes
    <3> QED
      BY <2>1, <3>1, <3>2 DEF BroadcastInv
  <2> QED
    BY <2>2, <2>4
<1> QED
  BY <1>1, <1>2, <1>3, <1>4 DEF CreateMessage, BroadcastStep

LEMMA DeliveryStream ==
  ASSUME HandlerTypes, DeliveryInv, NEW s \in Streams, StreamLoop(s)
  PROVE  DeliveryInv'
<1> USE HubAssumption
<1> USE DEF DeliveryInv
<1>1. UNCHANGED <<mpc, todo, stored, closed>>
  BY DEF StreamLoop, Replay, Forward, ForwardNil, Deliver, SendReturns, ServerCancel,
     ClientCancel, hubVars, messageVars
<1>2. BroadcastInv'
  BY <1>1 DEF BroadcastInv, AllOf
<1>3. CASE Replay(s)
  <2>1. /\ queue' = queue
        /\ sent' = [sent EXCEPT ![s] = {m \in stored : MessageKey[m] = Canon[StreamKey[s]]}]
    BY <1>3 DEF Replay
  <2>2. \A r \in Streams : sent'[r] = sent[r] \/ sent'[r] = {m \in stored : MessageKey[m] = Canon[StreamKey[r]]}
    BY <2>1 DEF HandlerTypes
  <2>3. NoMessage \notin stored
    BY DEF HandlerTypes
  <2>4. OnlyStored'
    BY <1>1, <2>1, <2>2, <2>3, OnlyStoredGrows DEF Held
  <2> QED
    BY <1>2, <2>4
<1>4. CASE Forward(s)
  <2>1. queue[s] \in Seq(Messages) /\ queue[s] # <<>>
    BY <1>4 DEF Forward, HandlerTypes
  <2>2. Head(queue[s]) \in Messages
    BY <2>1
  <2>3. Head(queue[s]) \in ToSet(queue[s]) /\ ToSet(Tail(queue[s])) \subseteq ToSet(queue[s])
    BY <2>1, <2>2, QueueSets
  <2>4. /\ queue' = [queue EXCEPT ![s] = Tail(@)]
        /\ sent' = [sent EXCEPT ![s] = @ \cup {Head(queue[s])}]
    BY <1>4 DEF Forward, Deliver
  <2>5. \A r \in Streams : Held(r)' \subseteq Held(r)
    BY <2>3, <2>4 DEF Held, HandlerTypes
  <2>6. \A r \in Streams : NoMessage \in sent'[r] => NoMessage \in sent[r]
    BY <2>2, <2>4 DEF HandlerTypes
  <2>7. OnlyStored'
    BY <1>1, <2>5, <2>6, OnlyStoredGrows
  <2> QED
    BY <1>2, <2>7
<1>5. CASE ForwardNil(s)
  <2>1. /\ queue' = queue /\ s \in closed
        /\ sent' = [sent EXCEPT ![s] = @ \cup {NoMessage}]
    BY <1>5 DEF ForwardNil, Deliver
  <2>2. \A r \in Streams : Held(r)' \subseteq Held(r) \cup {NoMessage}
    BY <2>1 DEF Held, HandlerTypes
  <2>3. \A r \in Streams : NoMessage \in sent'[r] => NoMessage \in sent[r] \/ r \in closed'
    BY <1>1, <2>1 DEF HandlerTypes
  <2>4. OnlyStored'
    BY <1>1, <2>2, <2>3, OnlyStoredGrows
  <2> QED
    BY <1>2, <2>4
<1>6. CASE SendReturns(s) \/ ServerCancel(s) \/ ClientCancel(s)
  <2>1. UNCHANGED <<queue, sent>>
    BY <1>6 DEF SendReturns, ServerCancel, ClientCancel
  <2>2. OnlyStored'
    BY <1>1, <2>1 DEF OnlyStored, Held
  <2> QED
    BY <1>2, <2>2
<1> QED
  BY <1>3, <1>4, <1>5, <1>6 DEF StreamLoop

LEMMA DeliveryNext ==
  SliceInv /\ HandlerTypes /\ KeyInv /\ DeliveryInv /\ [Next]_vars => DeliveryInv'
<1> SUFFICES ASSUME SliceInv, HandlerTypes, KeyInv, DeliveryInv, [Next]_vars
             PROVE  DeliveryInv'
  OBVIOUS
<1>1. ASSUME UNCHANGED <<queue, sent, mpc, todo, stored>>, closed \subseteq closed'
      PROVE  DeliveryInv'
  BY <1>1 DEF DeliveryInv, BroadcastInv, OnlyStored, Held, AllOf
<1>2. CASE UNCHANGED vars
  BY <1>1, <1>2 DEF vars, hubVars, streamVars, messageVars
<1>3. CASE AddSubscriber
  BY <1>1, <1>3 DEF AddSubscriber, AddLock, AppendInPlace, AppendGrow, AddReturns, messageVars
<1>4. CASE RemoveSubscriber
  BY <1>1, <1>4 DEF RemoveSubscriber, RemoveLock, RemoveBody, RemoveClose, RemovePanic, RemoveShift,
     RemoveStore, RemoveMissing, RemoveStores, streamVars, messageVars
<1>5. CASE Cleanup
  BY <1>1, <1>5 DEF Cleanup, CleanupVisit, Tick, Visit, ScanKeep, ScanClose, ScanPanic, ScanDelete,
     ScanStore, EndPass, hubVars, streamVars, messageVars
<1> QED
  BY <1>2, <1>3, <1>4, <1>5, DeliveryCreate, DeliveryStream DEF Next

\* Streams are sent committed messages of their own event only, and an empty
\* message only when the server has closed them, in every execution, those in
\* which the cleanup overlaps everything included.
THEOREM OnlyStoredDelivered == Spec => []OnlyStored
<1>1. DeliveryInv => OnlyStored
  BY DEF DeliveryInv
<1>2. Spec => []HandlerTypes
  BY HandlerTypesInit, HandlerTypesNext, SlicesInvariant, PTL DEF Spec
<1>3. Spec => []DeliveryInv
  BY <1>2, DeliveryInit, DeliveryNext, SlicesInvariant, KeysInvariant, PTL DEF Spec
<1> QED
  BY <1>1, <1>3, PTL
==============================================================================
