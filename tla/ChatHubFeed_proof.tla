-------------------------- MODULE ChatHubFeed_proof --------------------------
(***************************************************************************)
(* The serial executions of ChatHub implement ChatFeed, for clients that   *)
(* ask by 16-byte ids: whoever asks by another form is registered under a  *)
(* key no broadcast looks at, and reads on without the live messages.      *)
(*                                                                         *)
(* Each step of the hub is a step of ChatFeed or leaves it alone.  A call  *)
(* of addSubscriber is Join when it returns, the history query is          *)
(* ReadHistory, a send to a buffer Publish, and the end of a broadcast     *)
(* Acknowledge; whatever closes a subscription, or sends a goroutine to do *)
(* so, is CutOff.  No live message comes to a stream twice, whatever the   *)
(* form of its id; and ChatFeed promises what it is meant to.              *)
(***************************************************************************)
EXTENDS ChatHubSerial_proof, SequenceTheorems

\* What ChatFeed calls got and feed.
Got(s) == Held(s) \ {NoMessage}

Feeding(s) == live[s] \o queue[s]

\* No client has more of ChatFeed's variables changed than where it stands.
SameFeeds ==
  /\ UNCHANGED stored
  /\ \A m \in Messages : Call(m)' = Call(m)
  /\ \A s \in Streams : Got(s)' = Got(s) /\ Feeding(s)' = Feeding(s)

\* Most steps are a stutter of ChatFeed, or cut one client off.
LEMMA FeedCutOff ==
  ASSUME SameFeeds, NEW t \in Streams,
         \A s \in Streams : s # t => Client(s)' = Client(s),
         Client(t)' = Client(t) \/ (Client(t) \in {"joined", "reading"} /\ Client(t)' = "cut")
  PROVE  [Feed!Next]_(Feed!feedVars)
<1>1. CASE Client(t)' = Client(t)
  <2>1. \A s \in Streams : Client(s)' = Client(s)
    BY <1>1
  <2> QED
    BY <2>1 DEF SameFeeds, Got, Feeding, Feed!feedVars
<1>2. CASE Client(t) \in {"joined", "reading"} /\ Client(t)' = "cut"
  <2>1. Feed!CutOff(t)
    BY <1>2 DEF SameFeeds, Got, Feeding, Feed!CutOff
  <2> QED
    BY <2>1 DEF Feed!Next
<1> QED
  BY <1>1, <1>2

LEMMA FeedStutter ==
  ASSUME SameFeeds, \A s \in Streams : Client(s)' = Client(s)
  PROVE  [Feed!Next]_(Feed!feedVars)
BY DEF SameFeeds, Got, Feeding, Feed!feedVars

LEMMA FeedJoin ==
  ASSUME SameFeeds, NEW t \in Streams, Client(t) = "away", Client(t)' = "joined",
         \A s \in Streams : s # t => Client(s)' = Client(s)
  PROVE  Feed!Join(t)
BY DEF SameFeeds, Got, Feeding, Feed!Join

LEMMA FeedHistory ==
  ASSUME NEW s \in Streams
  PROVE  Feed!History(s) = {m \in stored : MessageKey[m] = Canon[StreamKey[s]]}
BY DEF Feed!History

LEMMA FeedReadHistory ==
  ASSUME NEW t \in Streams, UNCHANGED stored,
         \A m \in Messages : Call(m)' = Call(m),
         \A s \in Streams : Feeding(s)' = Feeding(s),
         \A s \in Streams : s # t => Client(s)' = Client(s) /\ Got(s)' = Got(s),
         Client(t) = "joined", Client(t)' \in {"reading", "cut"},
         Got(t)' = Got(t) \cup {m \in stored : MessageKey[m] = Canon[StreamKey[t]]}
  PROVE  Feed!ReadHistory(t)
BY FeedHistory DEF Got, Feeding, Feed!ReadHistory

LEMMA FeedSave ==
  ASSUME NEW m \in Messages, Call(m) = "new",
         \A n \in Messages : n # m => Call(n)' = Call(n),
         \/ stored' = stored \cup {m} /\ Call(m)' = "pending"
         \/ stored' \in {stored, stored \cup {m}} /\ Call(m)' = "failed",
         \A s \in Streams : Client(s)' = Client(s) /\ Got(s)' = Got(s) /\ Feeding(s)' = Feeding(s)
  PROVE  Feed!Save(m)
BY DEF Got, Feeding, Feed!Save

LEMMA FeedPublish ==
  ASSUME NEW m \in Messages, NEW t \in Streams, UNCHANGED stored,
         \A n \in Messages : Call(n)' = Call(n),
         \A s \in Streams : Client(s)' = Client(s),
         \A s \in Streams : s # t => Got(s)' = Got(s) /\ Feeding(s)' = Feeding(s),
         Call(m) = "pending", Client(t) # "away", MessageKey[m] = Canon[StreamKey[t]],
         m \notin ToSet(Feeding(t)), Feeding(t)' = Append(Feeding(t), m),
         Got(t)' = Got(t) \cup {m}
  PROVE  Feed!Publish(m, t)
BY DEF Got, Feeding, Feed!Publish, ToSet, Feed!ToSet

LEMMA FeedAcknowledge ==
  ASSUME NEW m \in Messages, UNCHANGED stored, Call(m) = "pending", Call(m)' = "acked",
         \A n \in Messages : n # m => Call(n)' = Call(n),
         \A s \in Streams : Client(s)' = Client(s) /\ Got(s)' = Got(s) /\ Feeding(s)' = Feeding(s),
         \A s \in Streams : Client(s) = "reading" /\ MessageKey[m] = Canon[StreamKey[s]]
                              => m \in Got(s)
  PROVE  Feed!Acknowledge(m)
BY DEF Got, Feeding, Feed!Acknowledge
------------------------------------------------------------------------------
\* What the map to ChatFeed needs to know of streams and broadcasts

Waiting == {"start", "adding", "query"}

\* Nothing is sent before the history; a broadcast reaches a subscriber once,
\* after its registration; what is in a feed came from a call that has begun to
\* broadcast and has that subscriber behind it.
FeedInv ==
  /\ \A s \in Streams : pc[s] \in Waiting => sent[s] = {}
  /\ \A m \in Readers :
       /\ Distinct(todo[m])
       /\ \A s \in Streams : InSeq(todo[m], s) => pc[s] \notin {"start", "adding"}
  /\ \A s \in Streams, m \in Messages :
       InSeq(Feeding(s), m) =>
         /\ mpc[m] \in {"broadcasting", "acked"}
         /\ mpc[m] = "broadcasting" => ~InSeq(todo[m], s)

FeedContext == SerialContext /\ MissInv /\ FeedInv

LEMMA FeedTypes ==
  ASSUME SerialContext
  PROVE  /\ pc \in [Streams -> Stands] /\ evict \in [Streams -> Nat] /\ writer \in Writers
         /\ queue \in [Streams -> Seq(Messages)] /\ live \in [Streams -> Seq(Messages)]
         /\ sent \in [Streams -> SUBSET (Messages \cup {NoMessage})]
         /\ todo \in [Messages -> Seq(Streams)]
         /\ \A s \in Streams : Feeding(s) \in Seq(Messages)
         /\ NoMessage \notin Messages
BY SerialTypes, HubAssumption DEF SerialContext, Context, HandlerTypes, Feeding

\* Steps that leave the broadcasts and the feeds alone.
LEMMA FeedSettled ==
  ASSUME FeedInv, UNCHANGED <<mpc, todo>>,
         \A s \in Streams : pc'[s] \in Waiting => pc[s] \in Waiting /\ sent'[s] = sent[s],
         \A s \in Streams : pc'[s] \in {"start", "adding"} => pc[s] \in {"start", "adding"},
         \A s \in Streams : Feeding(s)' = Feeding(s)
  PROVE  FeedInv'
<1>1. Readers' = Readers
  BY DEF Readers
<1>2. \A m \in Readers : Distinct(todo'[m])
  BY DEF FeedInv, Distinct
<1>3. \A m \in Readers, s \in Streams : InSeq(todo'[m], s) => pc'[s] \notin {"start", "adding"}
  BY DEF FeedInv, InSeq
<1>4. \A s \in Streams, m \in Messages : InSeq(Feeding(s), m)' <=> InSeq(Feeding(s), m)
  BY DEF InSeq
<1>5. \A s \in Streams, m \in Messages : InSeq(todo[m], s)' <=> InSeq(todo[m], s)
  BY DEF InSeq
<1> QED
  BY <1>1, <1>2, <1>3, <1>4, <1>5 DEF FeedInv, Distinct, InSeq, Readers

LEMMA FeedInsert ==
  ASSUME FeedContext, NEW m \in Messages, Insert(m)
  PROVE  FeedInv'
<1>1. /\ UNCHANGED <<pc, sent, live, queue, todo>> /\ mpc[m] = "start"
      /\ mpc'[m] \notin {"start", "broadcasting", "acked"}
      /\ \A n \in Messages : n # m => mpc'[n] = mpc[n]
  BY SerialTypes DEF FeedContext, Insert, streamVars
<1>2. Readers' = Readers
  BY <1>1 DEF Readers
<1>3. \A s \in Streams : ~InSeq(Feeding(s), m)
  BY <1>1 DEF FeedContext, FeedInv
<1>4. \A s \in Streams : Feeding(s)' = Feeding(s)
  BY <1>1 DEF Feeding
<1>5. \A s \in Streams, n \in Messages : InSeq(Feeding(s), n)' <=> InSeq(Feeding(s), n)
  BY <1>4 DEF InSeq
<1> QED
  BY <1>1, <1>2, <1>3, <1>5 DEF FeedContext, FeedInv, Distinct, InSeq

\* A broadcast begins with the open subscribers of the key, each once, none of
\* which has the message.
LEMMA FeedLock ==
  ASSUME FeedContext, NEW m \in Messages, BroadcastLock(m), ~Overlap'
  PROVE  FeedInv'
<1> DEFINE k == MessageKey[m]
           q == Elements(reg[k])
<1>1. /\ UNCHANGED <<pc, sent, live, queue, writer, cleaner>>
      /\ mpc[m] = "stored" /\ writer.at = "none"
      /\ mpc'[m] = "broadcasting" /\ todo'[m] = q
      /\ \A n \in Messages : n # m => mpc'[n] = mpc[n] /\ todo'[n] = todo[n]
  BY SerialTypes DEF FeedContext, BroadcastLock, CanRLock, NoWriter, streamVars, hubVars
<1>2. k \in Keys /\ AtRest(k)
  BY <1>1, HubAssumption DEF AtRest, Overlap, Readers
<1>3. RowExact(k)
  BY <1>2, SerialTypes DEF FeedContext, Exact, RestExact
<1>4. /\ reg[k] \in Slices /\ SoundIn(heap, reg[k]) /\ SliceInv
  BY <1>2, HeadersTyped DEF FeedContext, SerialContext, Context
<1>5. /\ q \in Seq(Streams) /\ Len(q) = reg[k].len
      /\ \A i \in 1 .. reg[k].len : q[i] = heap[reg[k].arr][i]
  BY <1>4, ElementsType DEF SliceInv
<1> HIDE DEF q
<1>6. Distinct(q)
  BY <1>3, <1>5 DEF Distinct, RowExact, DistinctIn, DistinctTo
<1>7. ASSUME NEW s \in Streams, InSeq(q, s) PROVE pc[s] \notin {"start", "adding"}
  <2>1. InHeader(heap, reg[k], s)
    BY <1>5, <1>7 DEF InSeq, InHeader
  <2>2. StreamKey[s] = k
    <3>1. PICK owner \in Owners : Owned(owner)
      BY DEF FeedContext, SerialContext, Context, KeyInv
    <3> QED
      BY <1>2, <1>4, <2>1, <3>1, HeaderKey DEF Owned, HeadersOwned, InHeader
  <2>3. Open(s)
    BY <1>3, <2>1, <2>2 DEF RowExact
  <2> QED
    BY <1>1, <2>3 DEF Open, Member, Subscribed
<1>8. \A s \in Streams : ~InSeq(Feeding(s), m)
  BY <1>1 DEF FeedContext, FeedInv
<1>9. \A n \in Readers' : n = m \/ (n \in Readers /\ n # m)
  BY <1>1 DEF Readers
<1>10. \A n \in Readers' : Distinct(todo'[n])
  BY <1>1, <1>6, <1>9 DEF FeedContext, FeedInv, Readers, Distinct, DistinctTo
<1>11. \A n \in Readers', s \in Streams : InSeq(todo'[n], s) => pc'[s] \notin {"start", "adding"}
  BY <1>1, <1>7, <1>9 DEF FeedContext, FeedInv, Readers, InSeq
<1>12. \A s \in Streams : Feeding(s)' = Feeding(s)
  BY <1>1 DEF Feeding
<1>13. \A s \in Streams, n \in Messages : InSeq(Feeding(s), n)' <=> InSeq(Feeding(s), n)
  BY <1>12 DEF InSeq
<1>14. \A s \in Streams, n \in Messages : n # m => (InSeq(todo[n], s)' <=> InSeq(todo[n], s))
  BY <1>1 DEF InSeq
<1> QED
  BY <1>1, <1>8, <1>10, <1>11, <1>13, <1>14 DEF FeedContext, FeedInv, Distinct, InSeq, Readers

LEMMA ConcatAppend ==
  ASSUME NEW p \in Seq(Messages), NEW q \in Seq(Messages), NEW m \in Messages
  PROVE  p \o Append(q, m) = Append(p \o q, m)
<1>1. <<m>> \in Seq(Messages) /\ Append(q, m) = q \o <<m>> /\ p \o q \in Seq(Messages)
  BY AppendIsConcat
<1> QED
  BY <1>1, ConcatAssociative, AppendIsConcat

LEMMA ConcatMove ==
  ASSUME NEW p \in Seq(Messages), NEW q \in Seq(Messages), q # <<>>
  PROVE  Append(p, Head(q)) \o Tail(q) = p \o q
<1>1. /\ Head(q) \in Messages /\ Tail(q) \in Seq(Messages) /\ <<Head(q)>> \in Seq(Messages)
      /\ q = <<Head(q)>> \o Tail(q)
  BY HeadTailProperties
<1> QED
  BY <1>1, ConcatAssociative, AppendIsConcat

LEMMA InAppend ==
  ASSUME NEW q \in Seq(Messages), NEW m \in Messages
  PROVE  /\ Append(q, m) \in Seq(Messages)
         /\ \A n : InSeq(Append(q, m), n) <=> InSeq(q, n) \/ n = m
         /\ \A n : InSeq(q, n) <=> n \in ToSet(q)
<1>1. /\ Len(Append(q, m)) = Len(q) + 1 /\ Append(q, m)[Len(q) + 1] = m
      /\ \A i \in 1 .. Len(q) : Append(q, m)[i] = q[i]
      /\ 1 .. Len(q) + 1 = (1 .. Len(q)) \cup {Len(q) + 1}
  OBVIOUS
<1>2. \A n : InSeq(Append(q, m), n) <=> InSeq(q, n) \/ n = m
  BY <1>1 DEF InSeq
<1>3. \A n : InSeq(q, n) <=> n \in ToSet(q)
  BY DEF InSeq, ToSet
<1> QED
  BY <1>2, <1>3

\* What a send of the broadcast changes.
LEMMA SendChanges ==
  ASSUME FeedContext, NEW m \in Messages, BroadcastSend(m)
  PROVE  \E t \in Streams :
           /\ mpc[m] = "broadcasting" /\ InSeq(todo[m], t) /\ pc[t] \notin {"start", "adding"}
           /\ MessageKey[m] = StreamKey[t]
           /\ UNCHANGED <<reg, heap, writer, closed, pc, sent, live, mpc, stored>>
           /\ ~InSeq(todo'[m], t)
           /\ \A s : InSeq(todo'[m], s) => InSeq(todo[m], s)
           /\ Distinct(todo'[m])
           /\ \A n \in Messages : n # m => todo'[n] = todo[n]
           /\ \A s \in Streams : s # t => queue'[s] = queue[s] /\ evict'[s] = evict[s]
           /\ \/ queue'[t] = Append(queue[t], m) /\ evict' = evict
              \/ queue' = queue /\ evict'[t] = evict[t] + 1
<1> DEFINE q == todo[m]
<1>1. q \in Seq(Streams) /\ q # <<>> /\ mpc[m] = "broadcasting" /\ m \in Readers
  BY FeedTypes DEF FeedContext, BroadcastSend, Readers
<1>2. PICK t \in Streams : t = Head(q)
  BY <1>1
<1>3. /\ UNCHANGED <<reg, heap, writer, closed, pc, sent, live, mpc, stored>>
      /\ todo' = [todo EXCEPT ![m] = Tail(@)]
      /\ \/ queue' = [queue EXCEPT ![t] = Append(@, m)] /\ evict' = evict
         \/ queue' = queue /\ evict' = [evict EXCEPT ![t] = @ + 1]
  BY <1>2 DEF BroadcastSend, hubVars, streamVars
<1>4. todo'[m] = Tail(q) /\ \A n \in Messages : n # m => todo'[n] = todo[n]
  BY <1>3, FeedTypes DEF FeedContext
<1>5. Distinct(q) /\ q[1] = t
  BY <1>1, <1>2 DEF FeedContext, FeedInv
<1> HIDE DEF q
<1>6. /\ Len(Tail(q)) = Len(q) - 1 /\ 1 \in 1 .. Len(q)
      /\ \A i \in 1 .. Len(q) - 1 : Tail(q)[i] = q[i + 1] /\ i + 1 \in 1 .. Len(q) /\ i + 1 # 1
  BY <1>1
<1>7. Distinct(Tail(q))
  BY <1>5, <1>6 DEF Distinct, DistinctTo
<1>8. ~InSeq(Tail(q), t) /\ \A s : InSeq(Tail(q), s) => InSeq(q, s)
  BY <1>5, <1>6 DEF Distinct, DistinctTo, InSeq
<1>9. InSeq(q, t)
  BY <1>5, <1>6 DEF InSeq
<1>10. pc[t] \notin {"start", "adding"} /\ MessageKey[m] = StreamKey[t]
  <2>1. AllOf(q, MessageKey[m])
    BY DEF FeedContext, SerialContext, Context, BroadcastInv, q
  <2> QED
    BY <1>1, <1>9, <2>1 DEF FeedContext, FeedInv, AllOf, InSeq, q
<1>11. /\ \A s \in Streams : s # t => queue'[s] = queue[s] /\ evict'[s] = evict[s]
       /\ \/ queue'[t] = Append(queue[t], m) /\ evict' = evict
          \/ queue' = queue /\ evict'[t] = evict[t] + 1
  BY <1>3, FeedTypes DEF FeedContext
<1> QED
  BY <1>1, <1>3, <1>4, <1>7, <1>8, <1>9, <1>10, <1>11 DEF q

LEMMA FeedSend ==
  ASSUME FeedContext, NEW m \in Messages, BroadcastSend(m)
  PROVE  FeedInv' /\ [Feed!Next]_(Feed!feedVars)
<1>1. PICK t \in Streams :
        /\ mpc[m] = "broadcasting" /\ InSeq(todo[m], t) /\ pc[t] \notin {"start", "adding"}
        /\ MessageKey[m] = StreamKey[t]
        /\ UNCHANGED <<reg, heap, writer, closed, pc, sent, live, mpc, stored>>
        /\ ~InSeq(todo'[m], t)
        /\ \A s : InSeq(todo'[m], s) => InSeq(todo[m], s)
        /\ Distinct(todo'[m])
        /\ \A n \in Messages : n # m => todo'[n] = todo[n]
        /\ \A s \in Streams : s # t => queue'[s] = queue[s] /\ evict'[s] = evict[s]
        /\ \/ queue'[t] = Append(queue[t], m) /\ evict' = evict
           \/ queue' = queue /\ evict'[t] = evict[t] + 1
  BY SendChanges
<1>2. /\ queue[t] \in Seq(Messages) /\ live[t] \in Seq(Messages) /\ Feeding(t) \in Seq(Messages)
      /\ m # NoMessage /\ evict[t] \in Nat
  BY FeedTypes DEF FeedContext
<1>3. \A s \in Streams : s # t => Feeding(s)' = Feeding(s)
  BY <1>1 DEF Feeding
<1>4. \/ Feeding(t)' = Append(Feeding(t), m)
      \/ Feeding(t)' = Feeding(t)
  <2>1. CASE queue'[t] = Append(queue[t], m)
    <3>1. live[t] \o Append(queue[t], m) = Append(live[t] \o queue[t], m)
      BY <1>2, ConcatAppend
    <3> QED
      BY <1>1, <2>1, <3>1 DEF Feeding
  <2>2. CASE queue' = queue
    BY <1>1, <2>2 DEF Feeding
  <2> QED
    BY <1>1, <2>1, <2>2
<1>5. /\ \A s \in Streams, n \in Messages :
           InSeq(Feeding(s), n)' => InSeq(Feeding(s), n) \/ (s = t /\ n = m)
      /\ ~InSeq(Feeding(t), m)
  <2>1. ASSUME NEW s \in Streams, NEW n \in Messages, InSeq(Feeding(s)', n)
        PROVE  InSeq(Feeding(s), n) \/ (s = t /\ n = m)
    <3>1. CASE Feeding(s)' = Feeding(s)
      BY <2>1, <3>1
    <3>2. CASE s = t /\ Feeding(t)' = Append(Feeding(t), m)
      <4>1. InSeq(Append(Feeding(t), m), n)
        BY <2>1, <3>2
      <4> QED
        BY <1>2, <3>2, <4>1, InAppend
    <3> QED
      BY <1>3, <1>4, <3>1, <3>2
  <2>2. \A s \in Streams, n \in Messages : InSeq(Feeding(s), n)' <=> InSeq(Feeding(s)', n)
    BY DEF InSeq
  <2> QED
    BY <1>1, <2>1, <2>2 DEF FeedContext, FeedInv
<1>6. FeedInv'
  <2>1. Readers' = Readers /\ m \in Readers
    BY <1>1 DEF Readers
  <2>2. \A n \in Messages, s \in Streams : InSeq(todo'[n], s) => InSeq(todo[n], s)
    BY <1>1
  <2>3. \A n \in Readers : Distinct(todo'[n])
    BY <1>1 DEF FeedContext, FeedInv, Readers, Distinct
  <2>4. \A n \in Readers, s \in Streams : InSeq(todo'[n], s) => pc'[s] \notin {"start", "adding"}
    BY <1>1, <2>2 DEF FeedContext, FeedInv, Readers
  <2>5. ASSUME NEW s \in Streams, NEW n \in Messages, InSeq(Feeding(s), n)'
        PROVE  /\ mpc'[n] \in {"broadcasting", "acked"}
               /\ mpc'[n] = "broadcasting" => ~InSeq(todo'[n], s)
    BY <1>1, <1>5, <2>2, <2>5 DEF FeedContext, FeedInv
  <2> QED
    BY <1>1, <2>1, <2>3, <2>4, <2>5 DEF FeedContext, FeedInv, Distinct, InSeq
<1>7. \A n \in Messages : Call(n)' = Call(n)
  BY <1>1 DEF Call
<1>8. \A s \in Streams : s # t => Client(s)' = Client(s) /\ Got(s)' = Got(s)
  BY <1>1 DEF Client, Evicting, Got, Held
<1>9. CASE queue'[t] = Append(queue[t], m) /\ evict' = evict
  <2>1. Feeding(t)' = Append(Feeding(t), m)
    <3>1. live[t] \o Append(queue[t], m) = Append(live[t] \o queue[t], m)
      BY <1>2, ConcatAppend
    <3> QED
      BY <1>1, <1>9, <3>1 DEF Feeding
  <2>2. Client(t)' = Client(t) /\ Client(t) # "away"
    BY <1>1, <1>9 DEF Client, Evicting
  <2>3. Got(t)' = Got(t) \cup {m}
    <3>1. ToSet(Append(queue[t], m)) = ToSet(queue[t]) \cup {m}
      BY <1>2, QueueSets, QueueKeeps
    <3> QED
      BY <1>1, <1>2, <1>9, <3>1 DEF Got, Held
  <2>4. m \notin ToSet(Feeding(t))
    BY <1>2, <1>5, InAppend
  <2>5. Call(m) = "pending" /\ MessageKey[m] = Canon[StreamKey[t]]
    BY <1>1, HubAssumption DEF Call
  <2>6. Feed!Publish(m, t)
    BY <1>1, <1>3, <1>7, <1>8, <2>1, <2>2, <2>3, <2>4, <2>5, FeedPublish
  <2> QED
    BY <1>6, <2>6 DEF Feed!Next
<1>10. CASE queue' = queue /\ evict'[t] = evict[t] + 1
  <2>1. SameFeeds
    BY <1>1, <1>7, <1>10 DEF SameFeeds, Got, Held, Feeding
  <2>2. Client(t)' = Client(t) \/ (Client(t) = "reading" /\ Client(t)' = "cut")
    BY <1>1, <1>2, <1>10 DEF Client, Evicting
  <2> QED
    BY <1>6, <1>8, <2>1, <2>2, FeedCutOff
<1> QED
  BY <1>1, <1>9, <1>10

\* Clients ask by the ids the server has sent them, which are 16 bytes long.
StreamsCanonical == \A s \in Streams : Canon[StreamKey[s]] = StreamKey[s]

\* What is a step of ChatFeed or leaves it alone; a call that is acknowledged
\* before a client of another form has its message changes no feed.
FeedStep ==
  \/ [Feed!Next]_(Feed!feedVars)
  \/ ~StreamsCanonical /\ \A s \in Streams : Feeding(s)' = Feeding(s)

\* An acknowledged message has reached every client that reads.
LEMMA FeedUnlock ==
  ASSUME FeedContext, NEW m \in Messages, BroadcastUnlock(m)
  PROVE  FeedInv' /\ FeedStep
<1>1. /\ UNCHANGED <<pc, closed, evict, writer, sent, live, queue, todo, stored>>
      /\ mpc[m] = "broadcasting" /\ todo[m] = <<>> /\ mpc'[m] = "acked"
      /\ \A n \in Messages : n # m => mpc'[n] = mpc[n]
  BY SerialTypes DEF FeedContext, BroadcastUnlock, streamVars, hubVars
<1>2. \A s \in Streams : Client(s)' = Client(s) /\ Got(s)' = Got(s) /\ Feeding(s)' = Feeding(s)
  BY <1>1 DEF Client, Evicting, Got, Held, Feeding
<1>3. FeedInv'
  <2>1. \A s \in Streams, n \in Messages : InSeq(Feeding(s), n)' <=> InSeq(Feeding(s), n)
    BY <1>2 DEF InSeq
  <2>2. Readers' \subseteq Readers
    BY <1>1 DEF Readers
  <2> QED
    BY <1>1, <2>1, <2>2 DEF FeedContext, FeedInv, Distinct, InSeq
<1>4. ASSUME StreamsCanonical, NEW s \in Streams, Client(s) = "reading", MessageKey[m] = Canon[StreamKey[s]]
      PROVE  m \in Got(s)
  <2>1. /\ Reading(s) /\ s \notin closed /\ ~Evicting(s) /\ MessageKey[m] = StreamKey[s]
    BY <1>4 DEF Client, Reading, StreamsCanonical
  <2>2. Kept(s)
    BY <2>1, OpenKept DEF FeedContext, Open, Member, Subscribed, Reading
  <2>3. ~InSeq(todo[m], s)
    BY <1>1 DEF InSeq
  <2> QED
    BY <1>1, <2>1, <2>2, <2>3, FeedTypes DEF FeedContext, MissInv, Got
<1>5. Call(m) = "pending" /\ Call(m)' = "acked" /\ \A n \in Messages : n # m => Call(n)' = Call(n)
  BY <1>1 DEF Call
<1>6. StreamsCanonical => Feed!Acknowledge(m)
  BY <1>1, <1>2, <1>4, <1>5, FeedAcknowledge
<1> QED
  BY <1>2, <1>3, <1>6 DEF FeedStep, Feed!Next

LEMMA FeedMessage ==
  ASSUME FeedContext, NEW m \in Messages, CreateMessage(m), ~Overlap'
  PROVE  FeedInv' /\ FeedStep
<1>1. CASE Insert(m)
  <2>1. /\ UNCHANGED <<pc, closed, evict, writer, sent, live, queue>> /\ mpc[m] = "start"
        /\ \A n \in Messages : n # m => mpc'[n] = mpc[n]
        /\ \/ mpc'[m] = "stored" /\ stored' = stored \cup {m}
           \/ mpc'[m] = "unsent" /\ stored' = stored \cup {m}
           \/ mpc'[m] = "failed" /\ stored' = stored
    BY <1>1, SerialTypes DEF FeedContext, Insert, streamVars, hubVars
  <2>2. \A s \in Streams : Client(s)' = Client(s) /\ Got(s)' = Got(s) /\ Feeding(s)' = Feeding(s)
    BY <2>1 DEF Client, Evicting, Got, Held, Feeding
  <2>3. /\ Call(m) = "new" /\ \A n \in Messages : n # m => Call(n)' = Call(n)
        /\ \/ stored' = stored \cup {m} /\ Call(m)' = "pending"
           \/ stored' \in {stored, stored \cup {m}} /\ Call(m)' = "failed"
    BY <2>1 DEF Call
  <2>4. Feed!Save(m)
    BY <2>2, <2>3, FeedSave
  <2> QED
    BY <1>1, <2>4, FeedInsert DEF Feed!Next, FeedStep
<1>2. CASE BroadcastLock(m)
  <2>1. /\ UNCHANGED <<pc, closed, evict, writer, sent, live, queue, stored>>
        /\ mpc[m] = "stored" /\ mpc'[m] = "broadcasting"
        /\ \A n \in Messages : n # m => mpc'[n] = mpc[n]
    BY <1>2, SerialTypes DEF FeedContext, BroadcastLock, streamVars, hubVars
  <2>2. SameFeeds /\ \A s \in Streams : Client(s)' = Client(s)
    BY <2>1 DEF SameFeeds, Call, Client, Evicting, Got, Held, Feeding
  <2> QED
    BY <1>2, <2>2, FeedLock, FeedStutter DEF FeedStep
<1>3. CASE BroadcastSend(m)
  BY <1>3, FeedSend DEF FeedStep
<1>4. CASE BroadcastPanic(m)
  <2>1. /\ m \in Readers /\ todo[m] \in Seq(Streams) /\ todo[m] # <<>>
        /\ Head(todo[m]) \in closed
    BY <1>4, SerialTypes DEF FeedContext, BroadcastPanic, Readers
  <2>2. InSeq(todo[m], Head(todo[m]))
    BY <2>1 DEF InSeq
  <2> QED
    BY <2>1, <2>2, SerialTypes DEF FeedContext, Broadcasts
<1>5. CASE BroadcastUnlock(m)
  BY <1>5, FeedUnlock
<1> QED
  BY <1>1, <1>2, <1>3, <1>4, <1>5 DEF CreateMessage, BroadcastStep

\* A handler passes on what its feed has already.
LEMMA FeedForward ==
  ASSUME FeedContext, NEW t \in Streams, Forward(t) \/ ForwardNil(t)
  PROVE  FeedInv' /\ [Feed!Next]_(Feed!feedVars)
<1>1. /\ UNCHANGED <<closed, evict, writer, mpc, todo, stored>>
      /\ pc[t] = "live" /\ pc' = [pc EXCEPT ![t] = "sending"]
  BY DEF Forward, ForwardNil, Deliver, hubVars, messageVars
<1>2. pc'[t] = "sending" /\ \A s \in Streams : s # t => pc'[s] = pc[s]
  BY <1>1, FeedTypes DEF FeedContext
<1>3. \A s \in Streams : s # t => queue'[s] = queue[s] /\ live'[s] = live[s] /\ sent'[s] = sent[s]
  BY FeedTypes DEF FeedContext, Forward, ForwardNil, Deliver
<1>4. queue[t] \in Seq(Messages) /\ live[t] \in Seq(Messages) /\ NoMessage \notin Messages
  BY FeedTypes DEF FeedContext
<1>5. Got(t)' = Got(t) /\ Feeding(t)' = Feeding(t)
  <2>1. CASE Forward(t)
    <3> DEFINE h == Head(queue[t])
    <3>1. /\ queue[t] # <<>> /\ queue'[t] = Tail(queue[t])
          /\ sent'[t] = sent[t] \cup {h}
          /\ live' = IF h = NoMessage THEN live ELSE [live EXCEPT ![t] = Append(@, h)]
      BY <2>1, FeedTypes DEF FeedContext, Forward, Deliver
    <3>2. h \in ToSet(queue[t]) /\ ToSet(queue[t]) = {h} \cup ToSet(Tail(queue[t])) /\ h \in Messages
      <4>1. h \in Messages
        BY <1>4, <3>1
      <4> QED
        BY <1>4, <3>1, <4>1, QueueSets, QueueKeeps
    <3> HIDE DEF h
    <3>3. live'[t] = Append(live[t], h)
      BY <1>4, <3>1, <3>2, FeedTypes DEF FeedContext
    <3>4. Append(live[t], h) \o Tail(queue[t]) = live[t] \o queue[t]
      BY <1>4, <3>1, ConcatMove DEF h
    <3>5. ToSet(queue'[t]) \cup sent'[t] = ToSet(queue[t]) \cup sent[t]
      BY <3>1, <3>2
    <3> QED
      BY <3>1, <3>3, <3>4, <3>5 DEF Got, Held, Feeding
  <2>2. CASE ForwardNil(t)
    <3>1. queue' = queue /\ live' = live /\ sent'[t] = sent[t] \cup {NoMessage}
      BY <2>2, FeedTypes DEF FeedContext, ForwardNil, Deliver
    <3> QED
      BY <3>1 DEF Got, Held, Feeding
  <2> QED
    BY <2>1, <2>2
<1>6. SameFeeds
  <2>1. \A s \in Streams : s # t => Got(s)' = Got(s) /\ Feeding(s)' = Feeding(s)
    BY <1>3 DEF Got, Held, Feeding
  <2> QED
    BY <1>1, <1>5, <2>1 DEF SameFeeds, Call
<1>7. \A s \in Streams : Client(s)' = Client(s)
  BY <1>1, <1>2 DEF Client, Evicting
<1>8. FeedInv'
  BY <1>1, <1>2, <1>3, <1>6, FeedSettled DEF FeedContext, SameFeeds, Waiting
<1> QED
  BY <1>6, <1>7, <1>8, FeedStutter

LEMMA FeedStream ==
  ASSUME FeedContext, NEW t \in Streams, StreamLoop(t)
  PROVE  FeedInv' /\ [Feed!Next]_(Feed!feedVars)
<1>1. CASE Replay(t)
  <2> DEFINE history == {m \in stored : MessageKey[m] = Canon[StreamKey[t]]}
  <2>1. /\ UNCHANGED <<closed, evict, writer, mpc, todo, stored, live, queue>>
        /\ pc[t] = "query" /\ pc' = [pc EXCEPT ![t] = "live"]
        /\ sent' = [sent EXCEPT ![t] = history]
    BY <1>1 DEF Replay, hubVars, messageVars
  <2>2. /\ pc'[t] = "live" /\ sent'[t] = history /\ sent[t] = {}
        /\ \A s \in Streams : s # t => pc'[s] = pc[s] /\ sent'[s] = sent[s]
    BY <2>1, FeedTypes DEF FeedContext, FeedInv, Waiting
  <2>3. history \subseteq Messages /\ NoMessage \notin history
    BY FeedTypes DEF FeedContext, SerialContext, Context, HandlerTypes
  <2> HIDE DEF history
  <2>4. /\ \A s \in Streams : Feeding(s)' = Feeding(s)
        /\ \A s \in Streams : s # t => Client(s)' = Client(s) /\ Got(s)' = Got(s)
        /\ \A m \in Messages : Call(m)' = Call(m)
    BY <2>1, <2>2 DEF Feeding, Client, Evicting, Got, Held, Call
  <2>5. Client(t) = "joined" /\ Client(t)' \in {"reading", "cut"}
    BY <2>1, <2>2 DEF Client
  <2>6. Got(t)' = Got(t) \cup history
    BY <2>1, <2>2, <2>3 DEF Got, Held
  <2>7. Feed!ReadHistory(t)
    BY <2>1, <2>4, <2>5, <2>6, FeedReadHistory DEF history
  <2>8. FeedInv'
    BY <2>1, <2>2, <2>4, FeedSettled DEF FeedContext, Waiting
  <2> QED
    BY <2>7, <2>8 DEF Feed!Next
<1>2. CASE SendReturns(t) \/ ServerCancel(t) \/ ClientCancel(t)
  <2>1. /\ UNCHANGED <<closed, evict, writer, mpc, todo, stored, live, queue, sent>>
        /\ \/ pc[t] = "sending" /\ pc' = [pc EXCEPT ![t] = "live"]
           \/ pc[t] \in {"query", "live", "sending"} /\ pc' = [pc EXCEPT ![t] = "leaving"]
    BY <1>2 DEF SendReturns, ServerCancel, ClientCancel, hubVars, messageVars
  <2>2. /\ \/ pc[t] = "sending" /\ pc'[t] = "live"
           \/ pc[t] \in {"query", "live", "sending"} /\ pc'[t] = "leaving"
        /\ \A s \in Streams : s # t => pc'[s] = pc[s]
    BY <2>1, FeedTypes DEF FeedContext
  <2>3. SameFeeds
    BY <2>1 DEF SameFeeds, Call, Got, Held, Feeding
  <2>4. \A s \in Streams : s # t => Client(s)' = Client(s)
    BY <2>1, <2>2 DEF Client, Evicting
  <2>5. Client(t)' = Client(t) \/ (Client(t) \in {"joined", "reading"} /\ Client(t)' = "cut")
    BY <2>1, <2>2 DEF Client, Evicting
  <2>6. FeedInv'
    BY <2>1, <2>2, <2>3, FeedSettled DEF FeedContext, SameFeeds, Waiting
  <2> QED
    BY <2>3, <2>4, <2>5, <2>6, FeedCutOff
<1> QED
  BY <1>1, <1>2, FeedForward DEF StreamLoop

\* addSubscriber: the client joins when the call returns.
LEMMA FeedAdd ==
  ASSUME FeedContext, AddSubscriber
  PROVE  FeedInv' /\ [Feed!Next]_(Feed!feedVars)
<1>1. ASSUME NEW t \in Streams, AddLock(t)
      PROVE  FeedInv' /\ [Feed!Next]_(Feed!feedVars)
  <2>1. /\ UNCHANGED <<closed, evict, mpc, todo, stored, live, queue, sent>>
        /\ pc[t] = "start" /\ pc' = [pc EXCEPT ![t] = "adding"]
        /\ ~writer.spawned /\ ~writer'.spawned
    BY <1>1 DEF AddLock, CanLock, NoWriter, Holding, messageVars
  <2>2. pc'[t] = "adding" /\ \A s \in Streams : s # t => pc'[s] = pc[s]
    BY <2>1, FeedTypes DEF FeedContext
  <2>3. SameFeeds /\ \A s \in Streams : Client(s)' = Client(s)
    BY <2>1, <2>2 DEF SameFeeds, Call, Got, Held, Feeding, Client, Evicting
  <2>4. FeedInv'
    BY <2>1, <2>2, <2>3, FeedSettled DEF FeedContext, SameFeeds, Waiting
  <2> QED
    BY <2>3, <2>4, FeedStutter
<1>2. CASE AppendInPlace \/ AppendGrow
  <2>1. PICK t \in Streams : t = writer.stream
    BY <1>2, WriterRow DEF FeedContext, AppendInPlace, AppendGrow
  <2>2. /\ UNCHANGED <<closed, evict, mpc, todo, stored, live, queue, sent>>
        /\ pc[t] = "adding" /\ pc' = [pc EXCEPT ![t] = "query"]
        /\ writer' = NoWriter
    BY <1>2, <2>1, SerialTypes
       DEF FeedContext, Places, AppendInPlace, AppendGrow, AddReturns, messageVars
  <2>3. pc'[t] = "query" /\ \A s \in Streams : s # t => pc'[s] = pc[s]
    BY <2>2, FeedTypes DEF FeedContext
  <2>4. SameFeeds
    BY <2>2 DEF SameFeeds, Call, Got, Held, Feeding
  <2>5. Client(t) = "away" /\ Client(t)' = "joined"
    BY <2>2, <2>3 DEF Client
  <2>6. \A s \in Streams : s # t => Client(s)' = Client(s)
    <3> SUFFICES ASSUME NEW s \in Streams, s # t PROVE Client(s)' = Client(s)
      OBVIOUS
    <3>1. Evicting(s)' <=> Evicting(s)
      <4>1. evict'[s] = evict[s]
        BY <2>2
      <4>2. writer.stream # s /\ ~writer'.spawned
        BY <2>1, <2>2 DEF NoWriter
      <4> QED
        BY <4>1, <4>2 DEF Evicting
    <3> QED
      BY <2>2, <2>3, <3>1 DEF Client
  <2>7. Feed!Join(t)
    BY <2>4, <2>5, <2>6, FeedJoin
  <2>8. FeedInv'
    BY <2>2, <2>3, <2>4, FeedSettled DEF FeedContext, SameFeeds, Waiting
  <2> QED
    BY <2>7, <2>8 DEF Feed!Next
<1> QED
  BY <1>1, <1>2 DEF AddSubscriber

\* A removal changes nothing for the clients: who is in the hands of a spawned
\* goroutine counts as cut off, and a handler removes its subscriber after its
\* loop.  What it releases is not open.
LEMMA FeedRemoveReturns ==
  ASSUME FeedContext, NEW t \in Streams, NEW spawned \in BOOLEAN,
         UNCHANGED <<closed, mpc, todo, stored, live, queue, sent>>,
         pc' = IF spawned THEN pc ELSE [pc EXCEPT ![t] = "ended"],
         ~spawned => pc[t] \in {"leaving", "removing"}, ~Open(t),
         ~writer'.spawned, writer.stream = t \/ ~writer.spawned,
         \A s \in Streams : s # t => evict'[s] = evict[s]
  PROVE  FeedInv' /\ [Feed!Next]_(Feed!feedVars)
<1>1. /\ IF spawned THEN pc' = pc ELSE pc'[t] = "ended"
      /\ \A s \in Streams : s # t => pc'[s] = pc[s]
  BY FeedTypes DEF FeedContext
<1>2. SameFeeds
  BY DEF SameFeeds, Call, Got, Held, Feeding
<1>3. \A s \in Streams : s # t => Client(s)' = Client(s)
  BY <1>1 DEF Client, Evicting
<1>4. Client(t)' = Client(t)
  <2>1. pc[t] \in {"live", "sending"} => t \in closed
    BY DEF Open, Member, Subscribed
  <2> QED
    BY <1>1, <2>1 DEF Client
<1>5. FeedInv'
  BY <1>1, <1>2, FeedSettled DEF FeedContext, SameFeeds, Waiting
<1> QED
  BY <1>2, <1>3, <1>4, <1>5, FeedStutter

LEMMA FeedRemove ==
  ASSUME FeedContext, RemoveSubscriber
  PROVE  FeedInv' /\ [Feed!Next]_(Feed!feedVars)
<1>1. ASSUME NEW t \in Streams, NEW spawned \in BOOLEAN, RemoveLock(t, spawned)
      PROVE  FeedInv' /\ [Feed!Next]_(Feed!feedVars)
  <2>1. /\ UNCHANGED <<closed, mpc, todo, stored, live, queue, sent>>
        /\ writer = NoWriter /\ ~writer.spawned /\ writer.at = "none"
        /\ IF spawned THEN evict[t] > 0 ELSE pc[t] = "leaving"
        /\ evict' = IF spawned THEN [evict EXCEPT ![t] = @ - 1] ELSE evict
    BY <1>1 DEF RemoveLock, CanLock, NoWriter, messageVars
  <2>2. \A s \in Streams : s # t => evict'[s] = evict[s]
    BY <2>1, FeedTypes DEF FeedContext
  <2>3. CASE reg[StreamKey[t]] = Nil /\ RemoveReturns(t, spawned) /\ UNCHANGED writer
    <3>1. StreamKey[t] \in Keys /\ AtRest(StreamKey[t])
      BY <2>1, <2>3, SerialTypes, HubAssumption DEF FeedContext, AtRest, Places
    <3>2. ~Open(t)
      BY <2>3, <3>1, Empty, SerialTypes DEF FeedContext, Exact, RestExact, RowExact
    <3> QED
      BY <2>1, <2>2, <2>3, <3>2, FeedRemoveReturns DEF RemoveReturns
  <2>4. CASE /\ writer' = Holding("close", t, spawned)
             /\ pc' = IF spawned THEN pc ELSE [pc EXCEPT ![t] = "removing"]
    <3>1. writer'.stream = t /\ writer'.spawned = spawned
      BY <2>4 DEF Holding
    <3>2. /\ IF spawned THEN pc' = pc ELSE pc'[t] = "removing" /\ pc[t] = "leaving"
          /\ \A s \in Streams : s # t => pc'[s] = pc[s]
      BY <2>1, <2>4, FeedTypes DEF FeedContext
    <3>3. SameFeeds
      BY <2>1 DEF SameFeeds, Call, Got, Held, Feeding
    <3>4. \A s \in Streams : s # t => Client(s)' = Client(s)
      BY <2>1, <2>2, <3>1, <3>2 DEF Client, Evicting
    <3>5. Client(t)' = Client(t)
      BY <2>1, <3>1, <3>2 DEF Client, Evicting
    <3>6. FeedInv'
      BY <2>1, <3>2, <3>3, FeedSettled DEF FeedContext, SameFeeds, Waiting
    <3> QED
      BY <3>3, <3>4, <3>5, <3>6, FeedStutter
  <2> QED
    BY <1>1, <2>3, <2>4 DEF RemoveLock
<1>2. CASE RemoveClose
  <2>1. PICK t \in Streams : t = writer.stream
    BY <1>2, WriterRow DEF FeedContext, RemoveClose
  <2>2. /\ UNCHANGED <<pc, evict, mpc, todo, stored, live, queue, sent>>
        /\ writer.at = "close" /\ closed' = closed \cup {t}
        /\ writer'.stream = t /\ writer'.spawned = writer.spawned
    BY <1>2, <2>1, SerialTypes DEF FeedContext, RemoveClose, Writers, streamVars, messageVars
  <2>3. writer.spawned \/ pc[t] = "removing"
    BY <2>1, <2>2, SerialTypes DEF FeedContext, Places
  <2>4. SameFeeds
    BY <2>2 DEF SameFeeds, Call, Got, Held, Feeding
  <2>5. \A s \in Streams : Client(s)' = Client(s)
    BY <2>1, <2>2, <2>3 DEF Client, Evicting
  <2>6. FeedInv'
    BY <2>2, <2>4, FeedSettled DEF FeedContext, SameFeeds, Waiting
  <2> QED
    BY <2>4, <2>5, <2>6, FeedStutter
<1>3. CASE RemoveShift
  <2>1. /\ UNCHANGED <<pc, evict, closed, mpc, todo, stored, live, queue, sent>>
        /\ writer'.stream = writer.stream /\ writer'.spawned = writer.spawned
    BY <1>3, SerialTypes DEF FeedContext, RemoveShift, Writers, streamVars, messageVars
  <2>2. SameFeeds /\ \A s \in Streams : Client(s)' = Client(s)
    BY <2>1 DEF SameFeeds, Call, Got, Held, Feeding, Client, Evicting
  <2>3. FeedInv'
    BY <2>1, <2>2, FeedSettled DEF FeedContext, SameFeeds, Waiting
  <2> QED
    BY <2>2, <2>3, FeedStutter
<1>4. CASE RemoveStore \/ RemoveMissing
  <2>1. PICK t \in Streams : t = writer.stream
    BY <1>4, SerialTypes DEF FeedContext, SliceInv, WriterSane, RemoveStore, RemoveMissing
  <2>2. /\ UNCHANGED <<closed, mpc, todo, stored, live, queue, sent, evict>>
        /\ writer' = NoWriter /\ writer.at \in {"close", "shift"}
        /\ pc' = IF writer.spawned THEN pc ELSE [pc EXCEPT ![t] = "ended"]
    BY <1>4, <2>1
       DEF RemoveStore, RemoveMissing, RemoveStores, RemoveReturns, messageVars
  <2>3. ~writer.spawned => pc[t] = "removing"
    BY <2>1, <2>2, SerialTypes DEF FeedContext, Places
  <2>4. ~Open(t)
    <3>1. CASE RemoveStore
      BY <2>1, <3>1, SerialTypes DEF RemoveStore, FeedContext, SetInv, Shifting, Open
    <3>2. CASE RemoveMissing
      <4>1. /\ writer.at = "close" /\ ~InHeader(heap, writer.slice, t)
        BY <2>1, <3>2, InElements, HeadersTyped
           DEF RemoveMissing, FeedContext, SerialContext, Context
      <4> QED
        BY <2>1, <4>1, WriterRow DEF FeedContext
    <3> QED
      BY <1>4, <3>1, <3>2
  <2>5. writer.spawned \in BOOLEAN /\ ~writer'.spawned
    BY <2>2, SerialTypes DEF FeedContext, Writers, NoWriter
  <2> QED
    BY <2>1, <2>2, <2>3, <2>4, <2>5, FeedRemoveReturns
<1> QED
  BY <1>1, <1>2, <1>3, <1>4, SerialRemovePanic DEF FeedContext, RemoveSubscriber, RemoveBody

\* The cleanup cuts off whom it closes.
LEMMA FeedCleanup ==
  ASSUME FeedContext, Cleanup
  PROVE  FeedInv' /\ [Feed!Next]_(Feed!feedVars)
<1>1. UNCHANGED <<pc, evict, writer, mpc, todo, stored, live, queue, sent>>
  BY DEF Cleanup, Tick, Visit, CleanupVisit, ScanKeep, ScanClose, ScanPanic, ScanDelete,
         ScanStore, EndPass, hubVars, streamVars, messageVars
<1>2. SameFeeds
  BY <1>1 DEF SameFeeds, Call, Got, Held, Feeding
<1>3. FeedInv'
  BY <1>1, <1>2, FeedSettled DEF FeedContext, SameFeeds, Waiting
<1>4. CASE ScanClose
  <2>1. PICK x \in Streams : x = Scanned
    BY <1>4, ScannedOpen DEF FeedContext, ScanClose
  <2>2. closed' = closed \cup {x}
    BY <1>4, <2>1 DEF ScanClose
  <2>3. \A s \in Streams : s # x => Client(s)' = Client(s)
    BY <1>1, <2>2 DEF Client, Evicting
  <2>4. Client(x)' = Client(x) \/ (Client(x) \in {"joined", "reading"} /\ Client(x)' = "cut")
    BY <1>1, <2>2 DEF Client, Evicting
  <2> QED
    BY <1>2, <1>3, <2>3, <2>4, FeedCutOff
<1>5. CASE closed' = closed
  <2>1. \A s \in Streams : Client(s)' = Client(s)
    BY <1>1, <1>5 DEF Client, Evicting
  <2> QED
    BY <1>2, <1>3, <2>1, FeedStutter
<1> QED
  BY <1>4, <1>5
     DEF Cleanup, Tick, Visit, CleanupVisit, ScanKeep, ScanPanic, ScanDelete, ScanStore,
         EndPass, hubVars

LEMMA FeedInit == Init => FeedInv /\ Feed!Init
<1> SUFFICES ASSUME Init PROVE FeedInv /\ Feed!Init
  OBVIOUS
<1>1. /\ \A s \in Streams : pc[s] = "start" /\ sent[s] = {} /\ live[s] = <<>> /\ queue[s] = <<>>
      /\ \A m \in Messages : mpc[m] = "start"
      /\ stored = {}
  BY DEF Init
<1>2. \A s \in Streams : Feeding(s) = <<>> /\ Got(s) = {} /\ Client(s) = "away"
  BY <1>1 DEF Feeding, Got, Held, Client, ToSet
<1>3. FeedInv
  BY <1>1, <1>2 DEF FeedInv, Readers, InSeq
<1>4. Feed!Init
  BY <1>1, <1>2 DEF Feed!Init, Feeding, Got, Call
<1> QED
  BY <1>3, <1>4

LEMMA FeedNext == FeedContext /\ [SerialNext]_vars => FeedInv' /\ FeedStep
<1> SUFFICES ASSUME FeedContext, [SerialNext]_vars PROVE FeedInv' /\ FeedStep
  OBVIOUS
<1>1. CASE SerialNext
  BY <1>1, FeedAdd, FeedRemove, FeedMessage, FeedStream, FeedCleanup
     DEF SerialNext, Next, FeedStep
<1>2. CASE UNCHANGED vars
  <2>1. UNCHANGED <<pc, closed, evict, writer, mpc, todo, stored, live, queue, sent>>
    BY <1>2 DEF vars, hubVars, streamVars, messageVars
  <2>2. SameFeeds /\ \A s \in Streams : Client(s)' = Client(s)
    BY <2>1 DEF SameFeeds, Call, Got, Held, Feeding, Client, Evicting
  <2>3. FeedInv'
    BY <2>1, <2>2, FeedSettled DEF FeedContext, SameFeeds, Waiting
  <2> QED
    BY <2>2, <2>3, FeedStutter DEF FeedStep
<1> QED
  BY <1>1, <1>2

\* What a stream's feed may rely on holds throughout.
LEMMA FeedInvariant == SerialSpec => [](Context /\ GapInv /\ SerialInv /\ FeedInv)
<1>1. Context /\ GapInv /\ SerialInv /\ FeedInv /\ [SerialNext]_vars => FeedInv'
  BY FeedNext DEF FeedContext, SerialContext, GapInv
<1> QED
  BY <1>1, SerialInvariant, FeedInit, PTL DEF SerialSpec

\* Without the overlap, and for clients that ask by 16-byte ids, the hub keeps
\* the promise of ChatFeed, for any number of clients and calls and any buffer
\* capacity (see ImplementsFeed).
THEOREM FeedImplemented ==
  ASSUME StreamsCanonical
  PROVE  SerialSpec => ImplementsFeed
<1>1. Context /\ GapInv /\ SerialInv /\ FeedInv /\ [SerialNext]_vars
        => [Feed!Next]_(Feed!feedVars)
  BY FeedNext DEF FeedContext, FeedStep, SerialContext, GapInv
<1> QED
  BY <1>1, FeedInvariant, FeedInit, PTL DEF SerialSpec, ImplementsFeed, Feed!Spec
------------------------------------------------------------------------------
\* What ChatFeed promises

\* The promise to the client of one stream.
Promised(s) ==
  /\ Client(s) \in {"away", "joined", "reading", "cut"}
  /\ Feeding(s) \in Seq(Messages) /\ Distinct(Feeding(s))
  /\ ToSet(Feeding(s)) \subseteq Got(s)
  /\ Got(s) \subseteq Messages
  /\ \A m \in Got(s) : m \in stored /\ MessageKey[m] = Canon[StreamKey[s]]
  /\ \A m \in Messages :
       Call(m) = "acked" /\ Client(s) = "reading" /\ MessageKey[m] = Canon[StreamKey[s]]
         => m \in Got(s)

Called(m) ==
  /\ Call(m) \in {"new", "pending", "acked", "failed"}
  /\ Call(m) \in {"pending", "acked"} => m \in stored

AllPromised ==
  /\ stored \subseteq Messages
  /\ \A m \in Messages : Called(m)
  /\ \A s \in Streams : Promised(s)

LEMMA OnceIsDistinct ==
  ASSUME NEW q \in Seq(Messages)
  PROVE  IsInjective(q) <=> Distinct(q)
BY DEF IsInjective, Distinct, DistinctTo

LEMMA PromiseMeans == Feed!Promise <=> AllPromised
<1>1. Feed!FeedTypes <=> /\ stored \subseteq Messages
                         /\ \A m \in Messages : Called(m)
                         /\ \A s \in Streams :
                              /\ Client(s) \in {"away", "joined", "reading", "cut"}
                              /\ Feeding(s) \in Seq(Messages) /\ Got(s) \subseteq Messages
  <2>1. [m \in Messages |-> Call(m)] \in [Messages -> {"new", "pending", "acked", "failed"}]
          <=> \A m \in Messages : Call(m) \in {"new", "pending", "acked", "failed"}
    OBVIOUS
  <2>2. [s \in Streams |-> Client(s)] \in [Streams -> {"away", "joined", "reading", "cut"}]
          <=> \A s \in Streams : Client(s) \in {"away", "joined", "reading", "cut"}
    OBVIOUS
  <2>3. [s \in Streams |-> Held(s) \ {NoMessage}] \in [Streams -> SUBSET Messages]
          <=> \A s \in Streams : Got(s) \subseteq Messages
    BY DEF Got
  <2>4. [s \in Streams |-> live[s] \o queue[s]] \in [Streams -> Seq(Messages)]
          <=> \A s \in Streams : Feeding(s) \in Seq(Messages)
    BY DEF Feeding
  <2>5. \A m \in Messages : [n \in Messages |-> Call(n)][m] = Call(m)
    OBVIOUS
  <2> QED
    BY <2>1, <2>2, <2>3, <2>4, <2>5 DEF Feed!FeedTypes, Called
<1>2. Feed!Honest <=> \A s \in Streams :
                        /\ ToSet(Feeding(s)) \subseteq Got(s)
                        /\ \A m \in Got(s) : m \in stored /\ MessageKey[m] = Canon[StreamKey[s]]
  <2>1. \A s \in Streams : [t \in Streams |-> live[t] \o queue[t]][s] = Feeding(s)
    BY DEF Feeding
  <2>2. \A s \in Streams : [t \in Streams |-> Held(t) \ {NoMessage}][s] = Got(s)
    BY DEF Got
  <2>3. \A s \in Streams : Feed!ToSet(Feeding(s)) = ToSet(Feeding(s))
    BY DEF Feed!ToSet, ToSet
  <2>4. \A s \in Streams : Got(s) \subseteq Feed!History(s) <=>
          \A m \in Got(s) : m \in stored /\ MessageKey[m] = Canon[StreamKey[s]]
    BY FeedHistory
  <2>5. Feed!Honest <=> \A s \in Streams :
                          Feed!ToSet(Feeding(s)) \subseteq Got(s) /\ Got(s) \subseteq Feed!History(s)
    BY <2>1, <2>2 DEF Feed!Honest
  <2> QED
    BY <2>3, <2>4, <2>5
<1>3. Feed!Reached <=> \A s \in Streams, m \in Messages :
        Call(m) = "acked" /\ Client(s) = "reading" /\ MessageKey[m] = Canon[StreamKey[s]]
          => m \in Got(s)
  BY DEF Feed!Reached, Got
<1>4. ASSUME \A s \in Streams : Feeding(s) \in Seq(Messages)
      PROVE  Feed!Once <=> \A s \in Streams : Distinct(Feeding(s))
  <2>1. Feed!Once <=> \A s \in Streams : IsInjective(Feeding(s))
    BY DEF Feed!Once, Feed!IsInjective, IsInjective, Feeding
  <2> QED
    BY <1>4, <2>1, OnceIsDistinct
<1> QED
  BY <1>1, <1>2, <1>3, <1>4 DEF Feed!Promise, AllPromised, Promised

LEMMA AppendDistinct ==
  ASSUME NEW q \in Seq(Messages), NEW m \in Messages, Distinct(q), m \notin ToSet(q)
  PROVE  Distinct(Append(q, m))
<1>1. /\ Len(Append(q, m)) = Len(q) + 1 /\ Append(q, m)[Len(q) + 1] = m
      /\ \A i \in 1 .. Len(q) : Append(q, m)[i] = q[i] /\ q[i] # m
      /\ \A i \in 1 .. Len(q) + 1 : i \in 1 .. Len(q) \/ i = Len(q) + 1
  BY DEF ToSet
<1> QED
  BY <1>1 DEF Distinct, DistinctTo

\* A step that sends no stream anything new.
LEMMA PromiseSettled ==
  ASSUME NEW t \in Streams, Promised(t), \A m \in Messages : Called(m), stored \subseteq stored',
         Feeding(t)' = Feeding(t), Got(t)' = Got(t), Client(t)' \in {Client(t), "joined", "cut"},
         \A m \in Messages : Call(m)' = "acked" => 
            \/ Call(m) = "acked" 
            \/ Client(t) = "reading" /\ MessageKey[m] = Canon[StreamKey[t]] => m \in Got(t)
  PROVE  Promised(t)'
<1>1. /\ Feeding(t)' \in Seq(Messages) /\ Distinct(Feeding(t)') /\ ToSet(Feeding(t)') \subseteq Got(t)'
      /\ Got(t)' \subseteq Messages
      /\ \A m \in Got(t)' : m \in stored' /\ MessageKey[m] = Canon[StreamKey[t]]
  BY DEF Promised
<1>2. Client(t)' \in {"away", "joined", "reading", "cut"}
  BY DEF Promised
<1>3. \A m \in Messages :
       Call(m)' = "acked" /\ Client(t)' = "reading" /\ MessageKey[m] = Canon[StreamKey[t]]
         => m \in Got(t)'
  BY DEF Promised
<1> QED
  BY <1>1, <1>2, <1>3 DEF Promised, Distinct, DistinctTo, ToSet

\* The only step that adds to a live feed adds what it has not.
LEMMA FeedGrows ==
  ASSUME [Feed!Next]_(Feed!feedVars), NEW s \in Streams
  PROVE  \/ Feeding(s)' = Feeding(s)
         \/ \E m \in Messages : m \notin ToSet(Feeding(s)) /\ Feeding(s)' = Append(Feeding(s), m)
<1>1. ASSUME NEW m \in Messages, NEW t \in Streams, Feed!Publish(m, t)
      PROVE  IF s = t THEN m \notin ToSet(Feeding(s)) /\ Feeding(s)' = Append(Feeding(s), m)
                      ELSE Feeding(s)' = Feeding(s)
  <2>1. /\ s # t => Feeding(s)' = Feeding(s)
        /\ Feeding(t)' = Append(Feeding(t), m) /\ m \notin ToSet(Feeding(t))
    BY <1>1 DEF Feed!Publish, Feed!ToSet, ToSet, Feeding
  <2> QED
    BY <2>1
<1>2. ASSUME NEW m \in Messages, Feed!Save(m) \/ Feed!Acknowledge(m)
      PROVE  Feeding(s)' = Feeding(s)
  BY <1>2 DEF Feed!Save, Feed!Acknowledge, Feeding
<1>3. ASSUME NEW t \in Streams, Feed!Join(t) \/ Feed!ReadHistory(t) \/ Feed!CutOff(t)
      PROVE  Feeding(s)' = Feeding(s)
  BY <1>3 DEF Feed!Join, Feed!ReadHistory, Feed!CutOff, Feeding
<1>4. CASE UNCHANGED Feed!feedVars
  BY <1>4 DEF Feed!feedVars, Feeding
<1> QED
  BY <1>1, <1>2, <1>3, <1>4 DEF Feed!Next

LEMMA FeedPromiseInit == Feed!Init => Feed!Promise
<1> SUFFICES ASSUME Feed!Init PROVE Feed!Promise
  OBVIOUS
<1>1. /\ \A m \in Messages : Call(m) = "new"
      /\ \A s \in Streams : Client(s) = "away" /\ Got(s) = {} /\ Feeding(s) = <<>>
      /\ stored = {}
  BY DEF Feed!Init, Got, Feeding
<1>2. \A s \in Streams : /\ Feeding(s) \in Seq(Messages)
                         /\ Distinct(Feeding(s)) /\ ToSet(Feeding(s)) = {}
  <2>1. Distinct(<<>>) /\ ToSet(<<>>) = {} /\ <<>> \in Seq(Messages)
    BY DEF Distinct, DistinctTo, ToSet
  <2> QED
    BY <1>1, <2>1
<1>3. ASSUME NEW s \in Streams PROVE Promised(s)
  <2>1. /\ \A m \in Got(s) : m \in stored /\ MessageKey[m] = Canon[StreamKey[s]]
        /\ Client(s) \in {"away", "joined", "reading", "cut"} /\ Client(s) # "reading"
        /\ ToSet(Feeding(s)) \subseteq Got(s) /\ Got(s) \subseteq Messages
    BY <1>1, <1>2
  <2> QED
    BY <1>2, <2>1 DEF Promised
<1> QED
  BY <1>1, <1>3, PromiseMeans DEF AllPromised, Called

LEMMA PromiseStep == AllPromised /\ [Feed!Next]_(Feed!feedVars) => AllPromised'
<1> SUFFICES ASSUME stored \subseteq Messages,
                    \A m \in Messages : Called(m), \A s \in Streams : Promised(s),
                    [Feed!Next]_(Feed!feedVars)
             PROVE  AllPromised'
  BY DEF AllPromised
<1>1. ASSUME NEW m \in Messages, Feed!Save(m)
      PROVE  AllPromised'
  <2>1. /\ stored \subseteq stored'
        /\ \A n \in Messages : n # m => Call(n)' = Call(n)
        /\ stored' \subseteq Messages
        /\ \/ Call(m)' = "pending" /\ m \in stored'
           \/ Call(m)' = "failed"
    BY <1>1 DEF Feed!Save
  <2>2. \A s \in Streams : Client(s)' = Client(s) /\ Got(s)' = Got(s) /\ Feeding(s)' = Feeding(s)
    BY <1>1 DEF Feed!Save, Got, Feeding
  <2>3. \A n \in Messages : Called(n)'
    BY <2>1 DEF Called
  <2> QED
    BY <2>1, <2>2, <2>3, PromiseSettled DEF AllPromised
<1>2. ASSUME NEW m \in Messages, Feed!Acknowledge(m)
      PROVE  AllPromised'
  <2>1. /\ stored' = stored /\ Call(m) = "pending" /\ Call(m)' = "acked"
        /\ \A n \in Messages : n # m => Call(n)' = Call(n)
    BY <1>2 DEF Feed!Acknowledge
  <2>2. \A s \in Streams : Client(s)' = Client(s) /\ Got(s)' = Got(s) /\ Feeding(s)' = Feeding(s)
    BY <1>2 DEF Feed!Acknowledge, Got, Feeding
  <2>3. \A s \in Streams : Client(s) = "reading" /\ MessageKey[m] = Canon[StreamKey[s]]
                             => m \in Got(s)
    BY <1>2 DEF Feed!Acknowledge, Got
  <2>4. \A n \in Messages : Called(n)'
    BY <2>1 DEF Called
  <2> QED
    BY <2>1, <2>2, <2>3, <2>4, PromiseSettled DEF AllPromised
<1>3. ASSUME NEW m \in Messages, NEW t \in Streams, Feed!Publish(m, t)
      PROVE  AllPromised'
  <2>1. /\ stored' = stored /\ Call(m) = "pending" /\ MessageKey[m] = Canon[StreamKey[t]]
        /\ \A n \in Messages : Call(n)' = Call(n)
    BY <1>3 DEF Feed!Publish
  <2>2. /\ \A s \in Streams : Client(s)' = Client(s)
        /\ \A s \in Streams : s # t => Got(s)' = Got(s) /\ Feeding(s)' = Feeding(s)
        /\ Got(t)' = Got(t) \cup {m} /\ Feeding(t)' = Append(Feeding(t), m)
        /\ m \notin ToSet(Feeding(t))
    BY <1>3 DEF Feed!Publish, Feed!ToSet, ToSet, Got, Feeding
  <2>3. \A n \in Messages : Called(n)'
    BY <2>1 DEF Called
  <2>4. \A s \in Streams : s # t => Promised(s)'
    BY <2>1, <2>2, PromiseSettled
  <2>5. Promised(t)'
    <3>1. /\ Feeding(t)' \in Seq(Messages) /\ Distinct(Feeding(t)')
          /\ ToSet(Feeding(t)') \subseteq Got(t)'
      BY <2>2, AppendDistinct, QueueSets DEF Promised
    <3>2. /\ Got(t)' \subseteq Messages
          /\ \A n \in Got(t)' : n \in stored' /\ MessageKey[n] = Canon[StreamKey[t]]
          /\ \A n \in Messages :
               Call(n)' = "acked" /\ Client(t)' = "reading" /\ MessageKey[n] = Canon[StreamKey[t]]
                 => n \in Got(t)'
      BY <2>1, <2>2 DEF Promised, Called
    <3> QED
      BY <2>2, <3>1, <3>2 DEF Promised, Distinct, DistinctTo, ToSet
  <2> QED
    BY <2>1, <2>3, <2>4, <2>5 DEF AllPromised
<1>4. ASSUME NEW t \in Streams, Feed!Join(t) \/ Feed!CutOff(t)
      PROVE  AllPromised'
  <2>1. /\ stored' = stored /\ \A n \in Messages : Call(n)' = Call(n)
        /\ \A s \in Streams : Got(s)' = Got(s) /\ Feeding(s)' = Feeding(s)
        /\ \A s \in Streams : Client(s)' \in {Client(s), "joined", "cut"}
    BY <1>4 DEF Feed!Join, Feed!CutOff, Got, Feeding
  <2>2. \A n \in Messages : Called(n)'
    BY <2>1 DEF Called
  <2> QED
    BY <2>1, <2>2, PromiseSettled DEF AllPromised
<1>5. ASSUME NEW t \in Streams, Feed!ReadHistory(t)
      PROVE  AllPromised'
  <2> DEFINE history == {m \in stored : MessageKey[m] = Canon[StreamKey[t]]}
  <2>1. /\ stored' = stored /\ \A n \in Messages : Call(n)' = Call(n)
        /\ \A s \in Streams : Feeding(s)' = Feeding(s)
        /\ \A s \in Streams : s # t => Got(s)' = Got(s) /\ Client(s)' = Client(s)
        /\ Client(t)' \in {"reading", "cut"}
    BY <1>5 DEF Feed!ReadHistory, Got, Feeding
  <2>2. Got(t)' = Got(t) \cup history
    BY <1>5, FeedHistory DEF Feed!ReadHistory, Got
  <2>3. Got(t)' \subseteq Messages
    BY <2>2 DEF Promised
  <2>4. \A n \in Messages : Called(n)'
    BY <2>1 DEF Called
  <2>5. \A s \in Streams : s # t => Promised(s)'
    BY <2>1, PromiseSettled
  <2>6. Promised(t)'
    <3>1. /\ Feeding(t)' \in Seq(Messages) /\ Distinct(Feeding(t)')
          /\ ToSet(Feeding(t)') \subseteq Got(t)'
      BY <2>1, <2>2 DEF Promised
    <3>2. \A m \in Got(t)' : m \in stored' /\ MessageKey[m] = Canon[StreamKey[t]]
      BY <2>1, <2>2 DEF Promised
    <3>3. \A m \in Messages : Call(m)' = "acked" /\ MessageKey[m] = Canon[StreamKey[t]]
                                => m \in Got(t)'
      BY <2>1, <2>2 DEF Called
    <3> QED
      BY <2>1, <2>3, <3>1, <3>2, <3>3 DEF Promised, Distinct, DistinctTo, ToSet
  <2> QED
    BY <2>1, <2>4, <2>5, <2>6 DEF AllPromised
<1>6. CASE UNCHANGED Feed!feedVars
  <2>1. /\ stored' = stored /\ \A n \in Messages : Call(n)' = Call(n)
        /\ \A s \in Streams : Client(s)' = Client(s) /\ Got(s)' = Got(s) /\ Feeding(s)' = Feeding(s)
    BY <1>6 DEF Feed!feedVars, Got, Feeding
  <2>2. \A n \in Messages : Called(n)'
    BY <2>1 DEF Called
  <2> QED
    BY <2>1, <2>2, PromiseSettled DEF AllPromised
<1> QED
  BY <1>1, <1>2, <1>3, <1>4, <1>5, <1>6 DEF Feed!Next

\* Every service that keeps ChatFeed shows its readers only messages of the
\* history, each at most once live, and every acknowledged one.
THEOREM FeedPromise == Feed!Spec => []Feed!Promise
BY FeedPromiseInit, PromiseStep, PromiseMeans, PTL DEF Feed!Spec

\* Without the overlap a live message comes to no stream twice, whatever the form
\* of the id its client asked by.
THEOREM LiveMessagesOnce == SerialSpec => []LiveOnce
<1> DEFINE Single == \A s \in Streams : Distinct(Feeding(s))
<1>1. Init => Single
  <2> SUFFICES ASSUME Init, NEW s \in Streams PROVE Distinct(Feeding(s))
    OBVIOUS
  <2>1. Feeding(s) = <<>>
    BY DEF Init, Feeding
  <2> QED
    BY <2>1 DEF Distinct, DistinctTo
<1>2. Context /\ GapInv /\ SerialInv /\ FeedInv /\ [SerialNext]_vars /\ Single => Single'
  <2> SUFFICES ASSUME FeedContext, [SerialNext]_vars, Single, NEW s \in Streams
               PROVE  Distinct(Feeding(s))'
    BY DEF FeedContext, SerialContext, GapInv
  <2>1. Feeding(s) \in Seq(Messages) /\ Distinct(Feeding(s))
    BY FeedTypes DEF FeedContext
  <2>2. \/ Feeding(s)' = Feeding(s)
        \/ \E m \in Messages : m \notin ToSet(Feeding(s)) /\ Feeding(s)' = Append(Feeding(s), m)
    BY FeedNext, FeedGrows DEF FeedStep
  <2>3. Distinct(Feeding(s)')
    BY <2>1, <2>2, AppendDistinct
  <2> QED
    BY <2>3 DEF Distinct, DistinctTo
<1>3. Context /\ GapInv /\ SerialInv /\ FeedInv /\ Single => LiveOnce
  <2> SUFFICES ASSUME FeedContext, Single, NEW s \in Streams PROVE IsInjective(live[s] \o queue[s])
    BY DEF LiveOnce, FeedContext, SerialContext, GapInv
  <2> QED
    BY FeedTypes, OnceIsDistinct DEF FeedContext, Feeding
<1> QED
  BY <1>1, <1>2, <1>3, FeedInvariant, PTL DEF SerialSpec
==============================================================================
