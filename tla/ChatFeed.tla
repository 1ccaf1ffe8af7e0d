------------------------------ MODULE ChatFeed ------------------------------
(***************************************************************************)
(* What the chat service promises to those who write messages and those    *)
(* who read a stream.  A client joins, reads the history and then a live   *)
(* feed, to which a message is appended only while the call that creates   *)
(* it is pending, and once.  So two live messages come in the order of     *)
(* their calls unless the calls overlapped, in which case two clients may  *)
(* see them in different orders; and a message may come twice, in the      *)
(* history and live, but not more often.                                   *)
(*                                                                         *)
(* A call is acknowledged when every client that reads has its message.    *)
(* Who is too slow is cut off instead: it may miss messages, and still get *)
(* later ones until its stream ends.                                       *)
(***************************************************************************)
EXTENDS Naturals, Sequences, SequencesExt

CONSTANTS Streams, Messages, StreamEvent, MessageEvent

VARIABLES
  saved,   \* the messages of the history
  call,    \* the calls that create messages
  client,  \* where each client of a stream stands
  got,     \* the messages each client was sent or will be
  feed     \* the live ones among them, in order

feedVars == <<saved, call, client, got, feed>>

History(s) == {m \in saved : MessageEvent[m] = StreamEvent[s]}

Init ==
  /\ saved = {}
  /\ call = [m \in Messages |-> "new"]
  /\ client = [s \in Streams |-> "away"]
  /\ got = [s \in Streams |-> {}]
  /\ feed = [s \in Streams |-> <<>>]

\* The message is saved or not; the call goes on only if it is.
Save(m) ==
  /\ call[m] = "new"
  /\ \/ saved' = saved \cup {m} /\ call' = [call EXCEPT ![m] = "pending"]
     \/ saved' \in {saved, saved \cup {m}} /\ call' = [call EXCEPT ![m] = "failed"]
  /\ UNCHANGED <<client, got, feed>>

Publish(m, s) ==
  /\ call[m] = "pending"
  /\ client[s] # "away"
  /\ MessageEvent[m] = StreamEvent[s]
  /\ m \notin ToSet(feed[s])
  /\ feed' = [feed EXCEPT ![s] = Append(@, m)]
  /\ got' = [got EXCEPT ![s] = @ \cup {m}]
  /\ UNCHANGED <<saved, call, client>>

Acknowledge(m) ==
  /\ call[m] = "pending"
  /\ \A s \in Streams :
       client[s] = "reading" /\ MessageEvent[m] = StreamEvent[s] => m \in got[s]
  /\ call' = [call EXCEPT ![m] = "acked"]
  /\ UNCHANGED <<saved, client, got, feed>>

Join(s) ==
  /\ client[s] = "away"
  /\ client' = [client EXCEPT ![s] = "joined"]
  /\ UNCHANGED <<saved, call, got, feed>>

\* Whoever was cut off meanwhile gets the history all the same.
ReadHistory(s) ==
  /\ client[s] = "joined"
  /\ got' = [got EXCEPT ![s] = @ \cup History(s)]
  /\ \E where \in {"reading", "cut"} : client' = [client EXCEPT ![s] = where]
  /\ UNCHANGED <<saved, call, feed>>

CutOff(s) ==
  /\ client[s] \in {"joined", "reading"}
  /\ client' = [client EXCEPT ![s] = "cut"]
  /\ UNCHANGED <<saved, call, got, feed>>

Next ==
  \/ \E m \in Messages :
       Save(m) \/ Acknowledge(m) \/ (\E s \in Streams : Publish(m, s))
  \/ \E s \in Streams : Join(s) \/ ReadHistory(s) \/ CutOff(s)

Spec == Init /\ [][Next]_feedVars

------------------------------------------------------------------------------
\* Properties

\* A client is only ever sent what is in the history, the live feed included.
Honest == \A s \in Streams : ToSet(feed[s]) \subseteq got[s] /\ got[s] \subseteq History(s)

\* A live message comes once.
Once == \A s \in Streams : IsInjective(feed[s])

\* Who reads has every message whose call was acknowledged, whether the client
\* joined before the call, during it or after it.
Reached ==
  \A s \in Streams, m \in Messages :
    call[m] = "acked" /\ client[s] = "reading" /\ MessageEvent[m] = StreamEvent[s] => m \in got[s]

\* With the types, and the save before the broadcast, they are inductive.
FeedTypes ==
  /\ saved \subseteq Messages
  /\ call \in [Messages -> {"new", "pending", "acked", "failed"}]
  /\ client \in [Streams -> {"away", "joined", "reading", "cut"}]
  /\ got \in [Streams -> SUBSET Messages] /\ feed \in [Streams -> Seq(Messages)]
  /\ \A m \in Messages : call[m] \in {"pending", "acked"} => m \in saved

Promise == FeedTypes /\ Honest /\ Once /\ Reached
==============================================================================
