----------------------------- MODULE Store_proof -----------------------------
(***************************************************************************)
(* Proofs about Store and Convert: the references between the tables hold  *)
(* in every execution, messages and events are kept, with patient clients  *)
(* attendances record the right gender and creators join their events, and *)
(* an id in an answer finds its row when it comes back; the statements that*)
(* only read count and list the same rows; and what an answer told a client*)
(* stays true until it calls again.                                        *)
(***************************************************************************)
EXTENDS Sessions, Convert, SequenceTheorems, FiniteSetTheorems, TLAPS

LEMMA InitTyped == Init => TypeOK
BY DEF Init, TypeOK, Idle, Call, CallTypes

\* What a cascade leaves in the three tables it cascades to.
LEMMA CascadeTyped ==
  ASSUME TypeOK, NEW es, NEW us, Cascade(es, us)
  PROVE  /\ attends' \in [Attendances -> Genders \cup {NoRow}]
         /\ message' \in [Messages -> Posts \cup {NoRow}]
         /\ likes' \subseteq Messages \X Users
BY DEF TypeOK, Cascade

LEMMA StartsTyped ==
  ASSUME TypeOK, NEW u \in Users, Starts(u)
  PROVE  TypeOK'
<1>1. ASSUME NEW g \in Genders, CreateUser(u, g) PROVE TypeOK'
  BY <1>1 DEF CreateUser, InsertUser, TypeOK, eventVars, chatVars
<1>2. CASE DeleteUser(u)
  BY <1>2, CascadeTyped DEF DeleteUser, RemoveUser, TypeOK
<1>3. ASSUME NEW c \in Calls, UpdateUser(c, u) PROVE TypeOK'
  BY <1>3 DEF UpdateUser, TypeOK, Account, Call, CallTypes, eventVars, chatVars
<1>4. ASSUME NEW c \in Calls, CreateEvent(c, u) PROVE TypeOK'
  BY <1>4 DEF CreateEvent, InsertEvent, TypeOK, Call, CallTypes, chatVars
<1>5. ASSUME NEW e \in Events, NEW c \in Calls, JoinEvent(c, u, e) PROVE TypeOK'
  BY <1>5 DEF JoinEvent, JoinSelect, TypeOK, Account, Call, Idle, CallTypes,
              eventVars, chatVars
<1>6. ASSUME NEW e \in Events, LeaveEvent(u, e) PROVE TypeOK'
  BY <1>6 DEF LeaveEvent, RemoveAttendance, TypeOK, Attendances, chatVars
<1>7. ASSUME NEW e \in Events, DeleteEvent(u, e) PROVE TypeOK'
  BY <1>7, CascadeTyped DEF DeleteEvent, RemoveEvent, TypeOK
<1>8. ASSUME NEW e \in Events, CreateMessage(u, e) PROVE TypeOK'
  BY <1>8 DEF CreateMessage, InsertMessage, TypeOK, Posts, eventVars
<1>9. ASSUME NEW m \in Messages, LikeMessage(u, m) PROVE TypeOK'
  BY <1>9 DEF LikeMessage, InsertLike, TypeOK, eventVars
<1>10. ASSUME NEW m \in Messages, UnlikeMessage(u, m) PROVE TypeOK'
  BY <1>10 DEF UnlikeMessage, RemoveLike, TypeOK, eventVars
<1> QED
  BY <1>1, <1>2, <1>3, <1>4, <1>5, <1>6, <1>7, <1>8, <1>9, <1>10 DEF Starts

LEMMA ContinuesTyped ==
  ASSUME TypeOK, NEW c \in Calls, Continues(c)
  PROVE  TypeOK'
<1>1. CASE UpdateUserWrite(c)
  BY <1>1 DEF UpdateUserWrite, SetUser, TypeOK, Call, Idle, CallTypes, eventVars, chatVars
<1>2. CASE CreateEventJoin(c)
  <2>1. calls[c].user \in Users /\ calls[c].event \in Events
    BY <1>2 DEF CreateEventJoin, TypeOK, CallTypes, Idle, Call
  <2> QED
    BY <1>2, <2>1 DEF CreateEventJoin, JoinSelect, TypeOK, Account, Call, Idle, CallTypes,
                      eventVars, chatVars
<1>3. CASE JoinInsert(c)
  <2>1. calls[c].user \in Users /\ calls[c].event \in Events /\ calls[c].gender \in Genders
    BY <1>3 DEF JoinInsert, TypeOK, CallTypes, Idle, Call
  <2>2. attends' \in [Attendances -> Genders \cup {NoRow}]
    BY <1>3, <2>1 DEF JoinInsert, TypeOK
  <2> QED
    BY <1>3, <2>2 DEF JoinInsert, TypeOK, Call, Idle, CallTypes, chatVars
<1>4. CASE StatementFails(c)
  BY <1>4 DEF StatementFails, TypeOK, Call, Idle, CallTypes, eventVars, chatVars
<1> QED
  BY <1>1, <1>2, <1>3, <1>4 DEF Continues

\* The types of the tables and of the calls in flight, in every execution.
THEOREM TypeCorrect == Spec => []TypeOK
<1>1. TypeOK /\ [Next]_vars => TypeOK'
  <2>1. ASSUME TypeOK, UNCHANGED vars PROVE TypeOK'
    BY <2>1 DEF vars, eventVars, chatVars, TypeOK
  <2> QED
    BY <2>1, StartsTyped, ContinuesTyped DEF Next
<1> QED
  BY <1>1, InitTyped, PTL DEF Spec

------------------------------------------------------------------------------
\* Referential integrity

\* After a cascade nothing refers to the events es and the users us, provided
\* the rows that refer to the others stay.
LEMMA CascadeKeepsReferences ==
  ASSUME TypeOK, References, NEW es \in SUBSET Events, NEW us \in SUBSET Users,
         Cascade(es, us),
         \A e \in Events : Exists(e)' <=> Exists(e) /\ e \notin es,
         \A u \in Users : Account(u)' <=> Account(u) /\ u \notin us
  PROVE  AttendanceRefs' /\ MessageRefs' /\ LikeRefs'
<1>1. AttendanceRefs'
  BY DEF AttendanceRefs, References, Cascade, Attending, Attendances
<1>2. ASSUME NEW m \in Messages, message'[m] # NoRow
      PROVE  message'[m] = message[m] /\ message[m] # NoRow /\ m \notin Lost(es, us)
  BY <1>2 DEF Cascade
<1>3. MessageRefs'
  <2> SUFFICES ASSUME NEW m \in Messages, message'[m] # NoRow
               PROVE  /\ creator'[message[m].event] # NoRow
                      /\ gender'[message[m].author] # NoRow
    BY <1>2 DEF MessageRefs, Exists, Account
  <2>1. message[m] \in Posts
    BY <1>2 DEF TypeOK
  <2>2. message[m].event \in Events \ es /\ message[m].author \in Users \ us
    BY <1>2, <2>1 DEF Lost, Posts
  <2> QED
    BY <1>2, <2>2 DEF MessageRefs, References, Exists, Account
<1>4. LikeRefs'
  BY DEF LikeRefs, References, Cascade
<1> QED
  BY <1>1, <1>3, <1>4

LEMMA StartsReferences ==
  ASSUME TypeOK, References, NEW u \in Users, Starts(u)
  PROVE  References'
<1> USE DEF References, EventRefs, AttendanceRefs, MessageRefs, LikeRefs, Exists, Account,
            Attending
<1>1. ASSUME NEW g \in Genders, CreateUser(u, g) PROVE References'
  BY <1>1, StoreAssumption DEF CreateUser, InsertUser, TypeOK, Posts, eventVars, chatVars
<1>2. CASE DeleteUser(u)
  <2>1. \A e \in Events : Exists(e)' <=> Exists(e) /\ e \notin {}
    BY <1>2 DEF DeleteUser, RemoveUser
  <2>2. \A v \in Users : Account(v)' <=> Account(v) /\ v \notin {u}
    BY <1>2 DEF DeleteUser, RemoveUser, TypeOK
  <2>3. AttendanceRefs' /\ MessageRefs' /\ LikeRefs'
    BY <1>2, <2>1, <2>2, CascadeKeepsReferences DEF DeleteUser, RemoveUser
  <2>4. EventRefs'
    BY <1>2 DEF DeleteUser, RemoveUser, TypeOK
  <2> QED
    BY <2>3, <2>4
<1>3. ASSUME NEW c \in Calls, UpdateUser(c, u) PROVE References'
  BY <1>3 DEF UpdateUser, eventVars, chatVars
<1>4. ASSUME NEW c \in Calls, CreateEvent(c, u) PROVE References'
  BY <1>4, StoreAssumption DEF CreateEvent, InsertEvent, TypeOK, Posts, chatVars
<1>5. ASSUME NEW e \in Events, NEW c \in Calls, JoinEvent(c, u, e) PROVE References'
  BY <1>5 DEF JoinEvent, JoinSelect, eventVars, chatVars
<1>6. ASSUME NEW e \in Events, LeaveEvent(u, e) PROVE References'
  BY <1>6 DEF LeaveEvent, RemoveAttendance, TypeOK, Attendances, chatVars
<1>7. ASSUME NEW e \in Events, DeleteEvent(u, e) PROVE References'
  <2>1. \A f \in Events : Exists(f)' <=> Exists(f) /\ f \notin {e}
    BY <1>7 DEF DeleteEvent, RemoveEvent, TypeOK
  <2>2. \A v \in Users : Account(v)' <=> Account(v) /\ v \notin {}
    BY <1>7 DEF DeleteEvent, RemoveEvent
  <2>3. AttendanceRefs' /\ MessageRefs' /\ LikeRefs'
    BY <1>7, <2>1, <2>2, CascadeKeepsReferences DEF DeleteEvent, RemoveEvent
  <2>4. EventRefs'
    BY <1>7 DEF DeleteEvent, RemoveEvent, TypeOK
  <2> QED
    BY <2>3, <2>4
<1>8. ASSUME NEW e \in Events, CreateMessage(u, e) PROVE References'
  <2>1. PICK m \in Messages : message' = [message EXCEPT ![m] = [event |-> e, author |-> u]]
    BY <1>8 DEF CreateMessage, InsertMessage
  <2>2. message'[m] = [event |-> e, author |-> u] /\ message'[m] # NoRow
    BY <2>1, StoreAssumption DEF TypeOK
  <2> QED
    BY <1>8, <2>1, <2>2 DEF CreateMessage, InsertMessage, TypeOK, eventVars
<1>9. ASSUME NEW m \in Messages, LikeMessage(u, m) PROVE References'
  BY <1>9 DEF LikeMessage, InsertLike, eventVars
<1>10. ASSUME NEW m \in Messages, UnlikeMessage(u, m) PROVE References'
  BY <1>10 DEF UnlikeMessage, RemoveLike, eventVars
<1> QED
  BY <1>1, <1>2, <1>3, <1>4, <1>5, <1>6, <1>7, <1>8, <1>9, <1>10 DEF Starts

LEMMA ContinuesReferences ==
  ASSUME TypeOK, References, NEW c \in Calls, Continues(c)
  PROVE  References'
<1> USE DEF References, EventRefs, AttendanceRefs, MessageRefs, LikeRefs, Exists, Account,
            Attending
<1>1. CASE UpdateUserWrite(c)
  <2>1. calls[c].gender # NoRow
    BY <1>1, StoreAssumption DEF UpdateUserWrite, SetUser, TypeOK, CallTypes, Idle, Call
  <2>2. \A v \in Users : Account(v)' <=> Account(v)
    BY <1>1, <2>1 DEF UpdateUserWrite, SetUser, TypeOK
  <2>3. UNCHANGED <<creator, attends, message, likes>>
    BY <1>1 DEF UpdateUserWrite, SetUser, eventVars, chatVars
  <2> QED
    BY <2>2, <2>3 DEF TypeOK, Posts
<1>2. CASE CreateEventJoin(c)
  BY <1>2 DEF CreateEventJoin, JoinSelect, eventVars, chatVars
<1>3. CASE JoinInsert(c)
  <2>1. calls[c].user \in Users /\ calls[c].event \in Events
    BY <1>3 DEF JoinInsert, TypeOK, CallTypes, Idle, Call
  <2> QED
    BY <1>3, <2>1 DEF JoinInsert, TypeOK, Attendances, chatVars
<1>4. CASE StatementFails(c)
  BY <1>4 DEF StatementFails, eventVars, chatVars
<1> QED
  BY <1>1, <1>2, <1>3, <1>4 DEF Continues

LEMMA NextKeepsReferences == TypeOK /\ References /\ [Next]_vars => References'
<1>1. ASSUME References, UNCHANGED vars PROVE References'
  BY <1>1 DEF vars, eventVars, chatVars, References, EventRefs, AttendanceRefs,
              MessageRefs, LikeRefs, Exists, Account, Attending
<1> QED
  BY <1>1, StartsReferences, ContinuesReferences DEF Next

\* Referential integrity holds in every execution (the foreign keys of the
\* migration, with their cascades and the one that refuses).
THEOREM ReferencesHold == Spec => []References
<1>1. Init => References
  BY DEF Init, References, EventRefs, AttendanceRefs, MessageRefs, LikeRefs, Exists,
         Attending, Attendances
<1> QED
  BY <1>1, TypeCorrect, NextKeepsReferences, PTL DEF Spec

------------------------------------------------------------------------------
\* What a step may not remove

LEMMA NextKeepsMessages ==
  ASSUME TypeOK, Next
  PROVE  MessageStep
<1> SUFFICES ASSUME NEW m \in Messages, message[m] # NoRow, message'[m] = NoRow
             PROVE  \/ creator'[message[m].event] = NoRow
                    \/ gender'[message[m].author] = NoRow
  BY DEF MessageStep
<1>1. message[m].event \in Events /\ message[m].author \in Users
  BY DEF TypeOK, Posts
<1>2. PICK u \in Users : Starts(u)
  BY DEF Next, Continues, UpdateUserWrite, SetUser, CreateEventJoin, JoinSelect, JoinInsert,
         StatementFails, chatVars
<1>3. CASE DeleteUser(u)
  BY <1>1, <1>3 DEF DeleteUser, RemoveUser, Cascade, Lost, TypeOK
<1>4. ASSUME NEW e \in Events, DeleteEvent(u, e)
      PROVE  creator'[message[m].event] = NoRow
  BY <1>1, <1>4 DEF DeleteEvent, RemoveEvent, Cascade, Lost, TypeOK
<1>5. ASSUME NEW e \in Events, CreateMessage(u, e) PROVE FALSE
  BY <1>5, StoreAssumption DEF CreateMessage, InsertMessage, TypeOK
<1>6. ASSUME ~DeleteUser(u), \A e \in Events : ~DeleteEvent(u, e) /\ ~CreateMessage(u, e)
      PROVE  FALSE
  BY <1>2, <1>6 DEF Starts, CreateUser, InsertUser, UpdateUser, CreateEvent, InsertEvent,
                    JoinEvent, JoinSelect, LeaveEvent, RemoveAttendance, LikeMessage, InsertLike, UnlikeMessage, RemoveLike, chatVars
<1> QED
  BY <1>3, <1>4, <1>5, <1>6

\* A message is lost only with its event or its author's account.
THEOREM MessagesStay == Spec => MessagesKept
<1>1. TypeOK /\ [Next]_vars => [MessageStep]_vars
  BY NextKeepsMessages
<1> QED
  BY <1>1, TypeCorrect, PTL DEF Spec, MessagesKept

------------------------------------------------------------------------------
\* Patient clients

\* A step by u that starts no two-statement call leaves what the calls of the
\* other users rely on: their gender, their events, and where they do not attend.
LEMMA OthersUndisturbed ==
  ASSUME PatientInv, NEW u \in Users, ~Busy(u), UNCHANGED calls,
         \A v \in Users \ {u} : gender'[v] = gender[v],
         \A e \in Events : creator[e] \in Users \ {u} => creator'[e] = creator[e],
         \A e \in Events, v \in Users \ {u} : Attending(e, v)' => Attending(e, v)
  PROVE  OneCall' /\ Snapshots'
<1>1. OneCall'
  BY DEF PatientInv, OneCall
<1>2. ASSUME NEW c \in Calls, calls[c] # Idle
      PROVE  calls[c].user \in Users \ {u}
  BY <1>2 DEF PatientInv, TypeOK, CallTypes, Busy
<1>3. ASSUME NEW c \in Calls, calls[c].at \in {"created", "join"}
      PROVE  calls[c].event \in Events
  BY <1>3 DEF PatientInv, TypeOK, CallTypes, Idle, Call
<1>4. \A c \in Calls : calls[c].at \in {"update", "created", "join"} => calls[c] # Idle
  BY DEF Idle, Call
<1>5. Snapshots'
  <2> SUFFICES ASSUME NEW c \in Calls
      PROVE  /\ calls[c].at \in {"update", "join"} => gender'[calls[c].user] = calls[c].gender
             /\ calls[c].at = "created" => creator'[calls[c].event] = calls[c].user
             /\ calls[c].at \in {"created", "join"}
                => attends'[<<calls[c].event, calls[c].user>>] = NoRow
    BY DEF Snapshots, Attending
  <2>1. calls[c].at \in {"update", "join"} => gender'[calls[c].user] = calls[c].gender
    BY <1>2, <1>4 DEF PatientInv, Snapshots
  <2>2. calls[c].at = "created" => creator'[calls[c].event] = calls[c].user
    BY <1>2, <1>3, <1>4 DEF PatientInv, Snapshots
  <2>3. calls[c].at \in {"created", "join"}
        => attends'[<<calls[c].event, calls[c].user>>] = NoRow
    BY <1>2, <1>3, <1>4 DEF PatientInv, Snapshots, Attending
  <2> QED
    BY <2>1, <2>2, <2>3
<1> QED
  BY <1>1, <1>5

LEMMA PatientStarts ==
  ASSUME PatientInv, NEW u \in Users, ~Busy(u), Starts(u)
  PROVE  OneCall' /\ Snapshots' /\ GenderTracked'
<1> USE DEF Account, Exists, Attending
<1>0. TypeOK /\ References /\ GenderTracked /\ OneCall /\ Snapshots
  BY DEF PatientInv
<1>1. ASSUME NEW g \in Genders, CreateUser(u, g) PROVE OneCall' /\ Snapshots' /\ GenderTracked'
  <2>1. OneCall' /\ Snapshots'
    BY <1>1, OthersUndisturbed DEF CreateUser, InsertUser, TypeOK, PatientInv, eventVars, chatVars
  <2>2. GenderTracked'
    BY <1>0, <1>1 DEF CreateUser, InsertUser, TypeOK, References, AttendanceRefs, GenderTracked, eventVars
  <2> QED
    BY <2>1, <2>2
<1>2. CASE DeleteUser(u)
  <2>1. OneCall' /\ Snapshots'
    <3>1. \A v \in Users \ {u} : gender'[v] = gender[v]
      BY <1>2, <1>0 DEF DeleteUser, RemoveUser, TypeOK
    <3>2. \A e \in Events, v \in Users \ {u} : Attending(e, v)' => Attending(e, v)
      BY <1>2 DEF DeleteUser, RemoveUser, Cascade, Attendances
    <3> QED
      BY <1>2, <3>1, <3>2, OthersUndisturbed DEF DeleteUser, RemoveUser
  <2>2. GenderTracked'
    BY <1>0, <1>2 DEF DeleteUser, RemoveUser, Cascade, Attendances, TypeOK, GenderTracked
  <2> QED
    BY <2>1, <2>2
<1>3. ASSUME NEW e \in Events, LeaveEvent(u, e) PROVE OneCall' /\ Snapshots' /\ GenderTracked'
  <2>1. \A f \in Events, v \in Users : Attending(f, v)' => attends'[<<f, v>>] = attends[<<f, v>>]
    BY <1>0, <1>3 DEF LeaveEvent, RemoveAttendance, TypeOK, Attendances
  <2>2. OneCall' /\ Snapshots'
    BY <1>3, <2>1, OthersUndisturbed DEF LeaveEvent, RemoveAttendance, chatVars
  <2>3. GenderTracked'
    BY <1>0, <1>3, <2>1 DEF LeaveEvent, RemoveAttendance, GenderTracked
  <2> QED
    BY <2>2, <2>3
<1>4. ASSUME NEW e \in Events, DeleteEvent(u, e) PROVE OneCall' /\ Snapshots' /\ GenderTracked'
  <2>1. \A f \in Events, v \in Users : Attending(f, v)' => attends'[<<f, v>>] = attends[<<f, v>>]
    BY <1>4 DEF DeleteEvent, RemoveEvent, Cascade, Attendances
  <2>2. \A f \in Events : creator[f] \in Users \ {u} => creator'[f] = creator[f]
    BY <1>0, <1>4 DEF DeleteEvent, RemoveEvent, TypeOK
  <2>3. OneCall' /\ Snapshots'
    BY <1>4, <2>1, <2>2, OthersUndisturbed DEF DeleteEvent, RemoveEvent
  <2>4. GenderTracked'
    BY <1>0, <1>4, <2>1 DEF DeleteEvent, RemoveEvent, GenderTracked
  <2> QED
    BY <2>3, <2>4
<1>5. ASSUME UNCHANGED <<gender, creator, attends, calls>>
      PROVE  OneCall' /\ Snapshots' /\ GenderTracked'
  BY <1>0, <1>5 DEF OneCall, Snapshots, GenderTracked
<1>6. ASSUME NEW c \in Calls, UpdateUser(c, u) PROVE OneCall' /\ Snapshots' /\ GenderTracked'
  BY <1>0, <1>6 DEF UpdateUser, TypeOK, Busy, OneCall, Snapshots, GenderTracked, Call, Idle,
                    eventVars
<1>7. ASSUME NEW c \in Calls, CreateEvent(c, u) PROVE OneCall' /\ Snapshots' /\ GenderTracked'
  <2>1. PICK e \in Events \ issued :
          /\ creator' = [creator EXCEPT ![e] = u]
          /\ calls' = [calls EXCEPT ![c] = Call("created", u, e, NoRow)]
    BY <1>7 DEF CreateEvent, InsertEvent
  <2>2. UNCHANGED <<gender, attends>> /\ calls[c] = Idle
    BY <1>7 DEF CreateEvent, InsertEvent
  <2>3. creator[e] = NoRow /\ ~Attending(e, u)
    BY <1>0, <2>1 DEF PatientInv, IssuedIds, References, AttendanceRefs
  <2>4. OneCall'
    BY <1>0, <2>1 DEF OneCall, TypeOK, Busy, Call, Idle
  <2>5. Snapshots'
    BY <1>0, <2>1, <2>2, <2>3, StoreAssumption DEF Snapshots, TypeOK, CallTypes, Call, Idle
  <2>6. GenderTracked'
    BY <1>0, <2>2 DEF GenderTracked
  <2> QED
    BY <2>4, <2>5, <2>6
<1>8. ASSUME NEW e \in Events, NEW c \in Calls, JoinEvent(c, u, e)
      PROVE  OneCall' /\ Snapshots' /\ GenderTracked'
  BY <1>0, <1>8 DEF JoinEvent, JoinSelect, TypeOK, Busy, OneCall, Snapshots, GenderTracked,
                    Call, Idle, eventVars
<1> QED
  BY <1>1, <1>2, <1>3, <1>4, <1>5, <1>6, <1>7, <1>8
     DEF Starts, CreateMessage, InsertMessage, LikeMessage, InsertLike, UnlikeMessage, RemoveLike, eventVars

LEMMA CallEnds ==
  ASSUME TypeOK, OneCall, NEW c \in Calls, calls' = [calls EXCEPT ![c] = Idle]
  PROVE  /\ OneCall'
         /\ Snapshots /\ UNCHANGED <<gender, creator, attends>> => Snapshots'
<1>1. \A d \in Calls : calls[d] # Idle => calls[d].user # Idle.user
  BY StoreAssumption DEF TypeOK, CallTypes, Idle, Call
<1>2. calls'[c] = Idle /\ \A d \in Calls \ {c} : calls'[d] = calls[d]
  BY DEF TypeOK
<1>3. OneCall'
  <2> SUFFICES ASSUME NEW a \in Calls, NEW b \in Calls, calls'[a] # Idle,
                      calls'[a].user = calls'[b].user
               PROVE  a = b
    BY DEF OneCall
  <2> QED
    BY <1>1, <1>2 DEF OneCall
<1>4. Snapshots /\ UNCHANGED <<gender, creator, attends>> => Snapshots'
  <2> SUFFICES ASSUME Snapshots, UNCHANGED <<gender, creator, attends>>, NEW d \in Calls
      PROVE  /\ calls'[d].at \in {"update", "join"} => gender[calls'[d].user] = calls'[d].gender
             /\ calls'[d].at = "created" => creator[calls'[d].event] = calls'[d].user
             /\ calls'[d].at \in {"created", "join"}
                => attends[<<calls'[d].event, calls'[d].user>>] = NoRow
    BY DEF Snapshots, Attending
  <2>1. CASE d = c
    BY <1>2, <2>1 DEF Idle, Call
  <2>2. CASE d # c
    BY <1>2, <2>2 DEF Snapshots, Attending
  <2> QED
    BY <2>1, <2>2
<1> QED
  BY <1>3, <1>4

LEMMA PatientContinues ==
  ASSUME PatientInv, NEW c \in Calls, Continues(c)
  PROVE  OneCall' /\ Snapshots' /\ GenderTracked'
<1> USE DEF Account, Exists, Attending
<1>0. TypeOK /\ References /\ GenderTracked /\ OneCall /\ Snapshots
  BY DEF PatientInv
<1>1. CASE UpdateUserWrite(c)
  <2>1. gender' = gender
    BY <1>0, <1>1 DEF UpdateUserWrite, SetUser, Snapshots, TypeOK, CallTypes, Call, Idle
  <2> QED
    BY <1>0, <1>1, <2>1, CallEnds DEF UpdateUserWrite, SetUser, GenderTracked, eventVars
<1>2. CASE CreateEventJoin(c)
  <2> DEFINE u == calls[c].user
             e == calls[c].event
  <2>1. UNCHANGED <<gender, creator, attends>>
    BY <1>2 DEF CreateEventJoin, JoinSelect, eventVars
  <2>2. GenderTracked'
    BY <1>0, <2>1 DEF GenderTracked
  <2>3. CASE calls' = [calls EXCEPT ![c] = Idle]
    BY <1>0, <2>1, <2>2, <2>3, CallEnds
  <2>4. CASE /\ calls' = [calls EXCEPT ![c] = Call("join", u, e, gender[u])]
             /\ ~Attending(e, u)
    <3>1. calls[c] # Idle
      BY <1>2 DEF CreateEventJoin, Idle, Call
    <3>2. /\ calls'[c] = Call("join", u, e, gender[u])
          /\ \A d \in Calls \ {c} : calls'[d] = calls[d]
      BY <1>0, <2>4 DEF TypeOK
    <3>3. OneCall'
      <4> SUFFICES ASSUME NEW a \in Calls, NEW b \in Calls, calls'[a] # Idle,
                          calls'[a].user = calls'[b].user
                   PROVE  a = b
        BY DEF OneCall
      <4>1. \A d \in Calls : calls'[d].user = calls[d].user
        BY <3>2 DEF Call
      <4> QED
        BY <1>0, <3>1, <3>2, <4>1 DEF OneCall
    <3>4. Snapshots'
      <4> SUFFICES ASSUME NEW d \in Calls
          PROVE  /\ calls'[d].at \in {"update", "join"}
                    => gender[calls'[d].user] = calls'[d].gender
                 /\ calls'[d].at = "created" => creator[calls'[d].event] = calls'[d].user
                 /\ calls'[d].at \in {"created", "join"}
                    => attends[<<calls'[d].event, calls'[d].user>>] = NoRow
        BY <2>1 DEF Snapshots
      <4>1. CASE d = c
        BY <2>4, <3>2, <4>1 DEF Call
      <4>2. CASE d # c
        BY <1>0, <3>2, <4>2 DEF Snapshots
      <4> QED
        BY <4>1, <4>2
    <3> QED
      BY <2>2, <3>3, <3>4
  <2> QED
    BY <1>2, <2>3, <2>4 DEF CreateEventJoin, JoinSelect
<1>3. CASE JoinInsert(c)
  <2> DEFINE u == calls[c].user
             e == calls[c].event
  <2>1. u \in Users /\ e \in Events /\ gender[u] = calls[c].gender /\ calls[c] # Idle
    BY <1>0, <1>3 DEF JoinInsert, Snapshots, TypeOK, CallTypes, Call, Idle
  <2>2. \A f \in Events, v \in Users :
          <<f, v>> # <<e, u>> => attends'[<<f, v>>] = attends[<<f, v>>]
    BY <1>0, <1>3 DEF JoinInsert, TypeOK, Attendances
  <2>3. \/ attends'[<<e, u>>] = attends[<<e, u>>]
        \/ attends'[<<e, u>>] = gender[u]
    BY <1>0, <1>3, <2>1 DEF JoinInsert, TypeOK, Attendances
  <2>4. GenderTracked'
    BY <1>0, <1>3, <2>1, <2>2, <2>3 DEF JoinInsert, GenderTracked
  <2>5. calls' = [calls EXCEPT ![c] = Idle] /\ UNCHANGED <<gender, creator>>
    BY <1>3 DEF JoinInsert
  <2>6. OneCall'
    BY <1>0, <2>5, CallEnds
  <2>7. Snapshots'
    <3> SUFFICES ASSUME NEW d \in Calls, d # c, calls[d] # Idle
        PROVE  /\ calls[d].at \in {"update", "join"} => gender[calls[d].user] = calls[d].gender
               /\ calls[d].at = "created" => creator[calls[d].event] = calls[d].user
               /\ calls[d].at \in {"created", "join"}
                  => attends'[<<calls[d].event, calls[d].user>>] = NoRow
      BY <1>0, <2>5 DEF Snapshots, TypeOK, Call, Idle
    <3>1. calls[d].user # u /\ calls[d].user \in Users
      BY <1>0 DEF OneCall, TypeOK, CallTypes
    <3>2. calls[d].at \in {"created", "join"} => calls[d].event \in Events
      BY <1>0 DEF TypeOK, CallTypes
    <3>3. calls[d].at \in {"created", "join"}
          => attends'[<<calls[d].event, calls[d].user>>] = NoRow
      BY <1>0, <3>1, <3>2, <2>2 DEF Snapshots
    <3> QED
      BY <1>0, <3>3 DEF Snapshots
  <2> QED
    BY <2>4, <2>6, <2>7
<1>4. CASE StatementFails(c)
  BY <1>0, <1>4, CallEnds DEF StatementFails, GenderTracked, eventVars
<1> QED
  BY <1>1, <1>2, <1>3, <1>4 DEF Continues

LEMMA NextKeepsIssued == TypeOK /\ IssuedIds /\ [Next]_vars => IssuedIds'
<1> USE DEF IssuedIds, Exists
<1>1. ASSUME IssuedIds, UNCHANGED vars PROVE IssuedIds'
  BY <1>1 DEF vars, eventVars
<1>2. ASSUME TypeOK, IssuedIds, NEW u \in Users, Starts(u) PROVE IssuedIds'
  <2>1. ASSUME NEW c \in Calls, CreateEvent(c, u) PROVE IssuedIds'
    BY <1>2, <2>1 DEF CreateEvent, InsertEvent, TypeOK
  <2>2. ASSUME NEW e \in Events, CreateMessage(u, e) PROVE IssuedIds'
    BY <1>2, <2>2 DEF CreateMessage, InsertMessage, eventVars
  <2>3. ASSUME NEW e \in Events, DeleteEvent(u, e) PROVE IssuedIds'
    BY <1>2, <2>3 DEF DeleteEvent, RemoveEvent, TypeOK
  <2> QED
    BY <1>2, <2>1, <2>2, <2>3 DEF Starts, CreateUser, InsertUser, DeleteUser, RemoveUser, UpdateUser,
       JoinEvent, JoinSelect, LeaveEvent, RemoveAttendance, LikeMessage, InsertLike, UnlikeMessage, RemoveLike, eventVars
<1>3. ASSUME IssuedIds, NEW c \in Calls, Continues(c) PROVE IssuedIds'
  BY <1>3 DEF Continues, UpdateUserWrite, SetUser, CreateEventJoin, JoinSelect, JoinInsert,
              StatementFails, eventVars
<1> QED
  BY <1>1, <1>2, <1>3 DEF Next

\* With patient clients, what a call in flight has read or written stays so.
THEOREM PatientInvariant == PatientSpec => []PatientInv
<1>1. Init => PatientInv
  <2>1. Init => References
    BY DEF Init, References, EventRefs, AttendanceRefs, MessageRefs, LikeRefs, Exists,
           Attending, Attendances
  <2> QED
    BY <2>1, InitTyped DEF Init, PatientInv, IssuedIds, OneCall, Snapshots, GenderTracked,
                           Exists, Attending, Attendances, Idle, Call
<1>2. PatientInv /\ [PatientNext]_vars => PatientInv'
  <2> SUFFICES ASSUME PatientInv, [PatientNext]_vars PROVE PatientInv'
    OBVIOUS
  <2>1. TypeOK' /\ References' /\ IssuedIds'
    <3>1. [Next]_vars
      BY DEF PatientNext, Next
    <3>2. TypeOK'
      <4>1. CASE UNCHANGED vars
        BY <4>1 DEF PatientInv, vars, eventVars, chatVars, TypeOK
      <4> QED
        BY <3>1, <4>1, StartsTyped, ContinuesTyped DEF Next, PatientInv
    <3> QED
      BY <3>1, <3>2, NextKeepsReferences, NextKeepsIssued DEF PatientInv
  <2>2. OneCall' /\ Snapshots' /\ GenderTracked'
    <3>1. CASE UNCHANGED vars
      BY <3>1 DEF PatientInv, vars, eventVars, OneCall, Snapshots, GenderTracked,
                  Attending
    <3> QED
      BY <3>1, PatientStarts, PatientContinues DEF PatientNext
  <2> QED
    BY <2>1, <2>2 DEF PatientInv
<1> QED
  BY <1>1, <1>2, PTL DEF PatientSpec

\* With patient clients the attendance records of every event agree with the
\* accounts (event_attendees.gender and users.gender).
THEOREM GendersStayTracked == PatientSpec => []GenderTracked
<1>1. PatientInv => GenderTracked
  BY DEF PatientInv
<1> QED
  BY <1>1, PatientInvariant, PTL

\* With patient clients the second statement of CreateEvent always succeeds,
\* unless the connection fails.
THEOREM CreatorsJoin == PatientSpec => []CreatorJoins
<1>1. PatientInv => CreatorJoins
  <2> SUFFICES ASSUME PatientInv, NEW c \in Calls,
                      \/ calls[c].at = "created"
                      \/ calls[c].at = "join" /\ creator[calls[c].event] = calls[c].user
               PROVE  /\ creator[calls[c].event] = calls[c].user
                      /\ Account(calls[c].user)
                      /\ ~Attending(calls[c].event, calls[c].user)
    BY DEF CreatorJoins
  <2>1. calls[c].user \in Users /\ calls[c].event \in Events
    BY DEF PatientInv, TypeOK, CallTypes, Idle, Call
  <2>2. creator[calls[c].event] = calls[c].user
    BY DEF PatientInv, Snapshots
  <2>3. Account(calls[c].user)
    BY <2>1, <2>2, StoreAssumption DEF PatientInv, References, EventRefs, Exists
  <2> QED
    BY <2>2, <2>3 DEF PatientInv, Snapshots
<1> QED
  BY <1>1, PatientInvariant, PTL

------------------------------------------------------------------------------
\* The statements that only read

\* COUNT of the inner column of an outer join counts the rows that were joined.
LEMMA CountLeftJoin ==
  ASSUME NEW S, IsFiniteSet(S), NoRow \notin S, NEW a
  PROVE  Count({a} \X LeftJoin(S), 2) = Cardinality(S)
<1> DEFINE T == {r \in {a} \X LeftJoin(S) : r[2] # NoRow}
           f == [x \in S |-> <<a, x>>]
<1>1. T = {a} \X S
  BY DEF LeftJoin
<1>2. f \in Bijection(S, T)
  <2>1. f \in [S -> T]
    BY <1>1
  <2>2. \A x, y \in S : f[x] = f[y] => x = y
    OBVIOUS
  <2>3. \A t \in T : \E x \in S : f[x] = t
    BY <1>1
  <2> QED
    BY <2>1, <2>2, <2>3 DEF Bijection, Injection, Surjection, IsInjective
<1> QED
  BY <1>2, FS_Bijection DEF ExistsBijection, Count

\* Either column of a product, when the other is not empty.
LEMMA ProductColumns ==
  ASSUME NEW R, NEW Q, NEW q \in Q
  PROVE  {r[1] : r \in R \X Q} = R /\ {r[2] : r \in Q \X R} = R
<1>1. \A x \in R : <<x, q>> \in R \X Q /\ <<x, q>>[1] = x
  OBVIOUS
<1>2. \A x \in R : <<q, x>> \in Q \X R /\ <<q, x>>[2] = x
  OBVIOUS
<1>3. \A r \in R \X Q : r[1] \in R
  OBVIOUS
<1>4. \A r \in Q \X R : r[2] \in R
  OBVIOUS
<1> QED
  BY <1>1, <1>2, <1>3, <1>4

\* COUNT(DISTINCT ...) of either column of the product of two outer joins counts
\* the rows of that table, whatever it was joined with.
LEMMA CountDistinctProduct ==
  ASSUME NEW S, NEW T, NoRow \notin S, NoRow \notin T
  PROVE  /\ CountDistinct(LeftJoin(S) \X LeftJoin(T), 1) = Cardinality(S)
         /\ CountDistinct(LeftJoin(S) \X LeftJoin(T), 2) = Cardinality(T)
<1>1. ASSUME NEW R, NoRow \notin R
      PROVE  LeftJoin(R) # {} /\ LeftJoin(R) \ {NoRow} = R
  BY <1>1 DEF LeftJoin
<1>2. /\ {r[1] : r \in LeftJoin(S) \X LeftJoin(T)} = LeftJoin(S)
      /\ {r[2] : r \in LeftJoin(S) \X LeftJoin(T)} = LeftJoin(T)
  <2>1. PICK s \in LeftJoin(S), t \in LeftJoin(T) : TRUE
    BY <1>1
  <2>2. {r[1] : r \in LeftJoin(S) \X LeftJoin(T)} = LeftJoin(S)
    BY <2>1, ProductColumns
  <2>3. {r[2] : r \in LeftJoin(S) \X LeftJoin(T)} = LeftJoin(T)
    BY <2>1, ProductColumns
  <2> QED
    BY <2>2, <2>3
<1> QED
  BY <1>1, <1>2 DEF CountDistinct

\* The statements on one event count its rows, whatever table they start from.
LEMMA AttendeesCounted ==
  ASSUME NEW e
  PROVE  /\ EventByID(e).attendees = Cardinality(Attendees(e))
         /\ EventByID(e).comments = Cardinality(Comments(e))
         /\ NearbyRow(e).attendees = Cardinality(Attendees(e))
<1>1. NoRow \notin Comments(e) /\ NoRow \notin Attendees(e)
  BY StoreAssumption, QueriesAssumption DEF Comments, Attendees
<1>2. \A S : NoRow \notin S => CountDistinct({e} \X LeftJoin(S), 2) = Cardinality(S)
  <2> SUFFICES ASSUME NEW S, NoRow \notin S
               PROVE  CountDistinct({e} \X LeftJoin(S), 2) = Cardinality(S)
    OBVIOUS
  <2>1. {r[2] : r \in {e} \X LeftJoin(S)} = LeftJoin(S)
    BY ProductColumns
  <2>2. LeftJoin(S) \ {NoRow} = S
    BY DEF LeftJoin
  <2> QED
    BY <2>1, <2>2 DEF CountDistinct
<1> QED
  BY <1>1, <1>2, CountDistinctProduct DEF EventByID, NearbyRow, Row

\* The left join of the messages of an event with their likes, message by message.
LEMMA HistoryJoin ==
  ASSUME NEW e
  PROVE  LET rows == UNION {{m} \X LeftJoin(Likers(m)) : m \in Comments(e)} IN
         /\ {r[1] : r \in rows} = Comments(e)
         /\ \A m \in Comments(e) : {r \in rows : r[1] = m} = {m} \X LeftJoin(Likers(m))
<1> DEFINE rows == UNION {{m} \X LeftJoin(Likers(m)) : m \in Comments(e)}
<1>1. \A r : r \in rows <=> \E m \in Comments(e) : r \in {m} \X LeftJoin(Likers(m))
  OBVIOUS
<1> HIDE DEF rows
<1>2. \A m : LeftJoin(Likers(m)) # {}
  BY DEF LeftJoin
<1>3. {r[1] : r \in rows} = Comments(e)
  <2>1. ASSUME NEW r \in rows PROVE r[1] \in Comments(e)
    BY <1>1
  <2>2. ASSUME NEW m \in Comments(e) PROVE \E r \in rows : r[1] = m
    <3>1. PICK x \in LeftJoin(Likers(m)) : TRUE
      BY <1>2
    <3>2. <<m, x>> \in rows
      BY <1>1
    <3> QED
      BY <3>2
  <2> QED
    BY <2>1, <2>2
<1>4. ASSUME NEW m \in Comments(e)
      PROVE  {r \in rows : r[1] = m} = {m} \X LeftJoin(Likers(m))
  BY <1>1
<1> QED
  BY <1>3, <1>4 DEF rows

\* The grouped rows of the history of an event are its messages, with their likes.
LEMMA HistoryRows ==
  ASSUME NEW e, NEW u
  PROVE  EventMessages(e, u) = {MessageRow(m, u, Cardinality(Likers(m))) : m \in Comments(e)}
<1> DEFINE rows == UNION {{m} \X LeftJoin(Likers(m)) : m \in Comments(e)}
<1> HIDE DEF rows
<1>1. ASSUME NEW m \in Comments(e)
      PROVE  Count({r \in rows : r[1] = m}, 2) = Cardinality(Likers(m))
  <2>1. NoRow \notin Likers(m) /\ IsFiniteSet(Likers(m))
    BY StoreAssumption, QueriesAssumption, FS_Subset DEF Likers
  <2> QED
    BY <2>1, HistoryJoin, CountLeftJoin DEF rows
<1>2. {r[1] : r \in rows} = Comments(e)
  BY HistoryJoin DEF rows
<1>3. EventMessages(e, u) =
        {MessageRow(m, u, Count({r \in rows : r[1] = m}, 2)) : m \in {r[1] : r \in rows}}
  BY DEF EventMessages, rows
<1> QED
  BY <1>1, <1>2, <1>3

\* So the history has as many rows as the event has messages.
LEMMA HistoryCounted ==
  ASSUME NEW e, NEW u
  PROVE  Cardinality(EventMessages(e, u)) = Cardinality(Comments(e))
<1> DEFINE S == Comments(e)
           T == EventMessages(e, u)
           f == [m \in S |-> MessageRow(m, u, Cardinality(Likers(m)))]
<1>1. T = {MessageRow(m, u, Cardinality(Likers(m))) : m \in S}
  BY HistoryRows
<1>2. f \in Bijection(S, T)
  <2>1. f \in [S -> T]
    BY <1>1
  <2>2. \A x, y \in S : f[x] = f[y] => x = y
    BY DEF MessageRow
  <2>3. \A t \in T : \E x \in S : f[x] = t
    BY <1>1
  <2> QED
    BY <2>1, <2>2, <2>3 DEF Bijection, Injection, Surjection, IsInjective
<1>3. IsFiniteSet(S)
  BY QueriesAssumption, FS_Subset DEF Comments
<1> QED
  BY <1>2, <1>3, FS_Bijection DEF ExistsBijection

\* In every execution, each caller is told of every message of an event, once
\* (GetEventMessages of sql/queries/messages.sql).
THEOREM HistoriesComplete == Spec => []HistoryComplete
<1>1. HistoryComplete
  BY HistoryRows DEF HistoryComplete
<1> QED
  BY <1>1, PTL

\* In every execution the search, a user's list and the page of an event give it
\* one number of attendees, and the page as many comments as the history has
\* messages, whatever they join and wherever a limit cuts.
THEOREM CountsAlwaysAgree == Spec => []CountsAgree
<1>1. ASSUME NEW u \in Users, NEW n \in 0 .. Cardinality(Events),
             NEW rows \in NearbyAnswers(u, "upcoming", 0, n), NEW r \in rows
      PROVE  r.attendees = EventByID(r.event).attendees
  <2>1. PICK e \in Events : r = NearbyRow(e)
    BY <1>1 DEF NearbyAnswers, Limited, Shown
  <2>2. r.event = e
    BY <2>1 DEF NearbyRow, Row
  <2> QED
    BY <2>1, <2>2, AttendeesCounted
<1>2. ASSUME NEW u \in Users, NEW n \in 0 .. Cardinality(Events),
             NEW rows \in UserEventsAnswers(u, n), NEW r \in rows
      PROVE  r.attendees = EventByID(r.event).attendees
  <2>1. PICK q \in UserEvents(u) : r = [q EXCEPT !.comments = 0]
    BY <1>2 DEF UserEventsAnswers, Limited
  <2>2. r.attendees = q.attendees /\ r.event = q.event
    BY <2>1 DEF UserEvents, Row
  <2>3. q.attendees = EventByID(q.event).attendees
    BY AttendeesCounted DEF UserEvents, Row
  <2> QED
    BY <2>2, <2>3
<1>3. ASSUME NEW u \in Users, NEW e \in Events
      PROVE  EventByID(e).comments = Cardinality(EventMessages(e, u))
  BY AttendeesCounted, HistoryCounted
<1>4. CountsAgree
  BY <1>1, <1>2, <1>3 DEF CountsAgree
<1> QED
  BY <1>4, PTL

------------------------------------------------------------------------------
\* What clients were told

\* A step of a session is a step of a patient client, with an answer.
LEMMA SessionIsPatient == SessionNext => PatientNext
<1> SUFFICES ASSUME SessionNext PROVE PatientNext
  OBVIOUS
<1>1. ASSUME NEW u \in Users, ~Busy(u), SessionStarts(u) PROVE Starts(u)
  BY <1>1 DEF SessionStarts, Starts, CreateUserAnswer, DeleteUserAnswer, JoinEventAnswer,
              LeaveEventAnswer, CreateMessageAnswer, LikeMessageAnswer, UnlikeMessageAnswer, Silent
<1>2. ASSUME NEW c \in Calls, SessionContinues(c) PROVE Continues(c)
  BY <1>2 DEF SessionContinues, Continues, CreateEventAnswer, JoinInsertAnswer
<1> QED
  BY <1>1, <1>2 DEF SessionNext, PatientNext

\* The sessions are executions of Store with patient clients, so that all that is
\* proved of those holds in every session.
THEOREM SessionsArePatient == SessionSpec => PatientSpec
<1>1. SessionInit => Init
  BY DEF SessionInit
<1>2. [SessionNext]_sessionVars => [PatientNext]_vars
  BY SessionIsPatient DEF sessionVars
<1> QED
  BY <1>1, <1>2, PTL DEF SessionSpec, PatientSpec

\* The SELECT of a join tells of the event only whom it was told of an account.
LEMMA JoinSelectTold ==
  ASSUME TypeOK, ToldInv, NEW c \in Calls, NEW u \in Users, NEW e \in Events, e \in issued,
         JoinSelect(c, u, e), JoinSelectAnswer(c, u, e)
  PROVE  ToldInv'
<1> USE DEF ToldInv, AccountsTold, JoinsTold, LeavesTold, WritesTold, LikesTold,
            Account, Exists, Attending
<1>1. UNCHANGED <<gender, creator, attends, message, likes, issued>>
  BY DEF JoinSelect, eventVars, chatVars
<1>2. told' \subseteq (told \ {Joined(u, e), Left(u, e)}) \cup {Joined(u, e)}
  BY DEF JoinSelectAnswer, JoinAnswer, Answers
<1>3. Joined(u, e) \in told' => Account(u) /\ (~Exists(e) \/ Attending(e, u))
  <2> SUFFICES ASSUME Joined(u, e) \in told'
               PROVE  Account(u) /\ (~Exists(e) \/ Attending(e, u))
    OBVIOUS
  <2>1. HasAccount(u) \in told /\ calls'[c] = Idle
    BY DEF JoinSelectAnswer, JoinAnswer, Answers
  <2>2. ~(Account(u) /\ Exists(e) /\ ~Attending(e, u))
    BY <2>1 DEF JoinSelect, TypeOK, Idle, Call
  <2> QED
    BY <2>1, <2>2
<1>4. told' \subseteq FactTypes
  BY <1>2 DEF FactTypes
<1>5. \A f \in told' : f.fact # "joined" => f \in told
  BY <1>2 DEF Joined, Fact
<1>6. AccountsTold' /\ LeavesTold' /\ WritesTold' /\ LikesTold'
  BY <1>1, <1>5 DEF HasAccount, Left, Wrote, Liked, Fact
<1>7. JoinsTold'
  BY <1>1, <1>2, <1>3 DEF Joined, Fact
<1> QED
  BY <1>4, <1>6, <1>7

\* The calls whose answers tell nothing leave what was told true: an event is
\* created with an id that nobody was told of.
LEMMA SilentTold ==
  ASSUME TypeOK, ToldInv, NEW u \in Users, Silent(u), UNCHANGED told
  PROVE  ToldInv'
<1> USE DEF ToldInv, AccountsTold, JoinsTold, LeavesTold, WritesTold, LikesTold,
            Account, Exists, Attending
<1>1. ASSUME NEW c \in Calls, UpdateUser(c, u) PROVE ToldInv'
  <2>1. UNCHANGED <<gender, creator, attends, message, likes, issued>>
    BY <1>1 DEF UpdateUser, eventVars, chatVars
  <2> QED
    BY <2>1
<1>2. ASSUME NEW c \in Calls, CreateEvent(c, u) PROVE ToldInv'
  <2>1. PICK e \in Events : InsertEvent(u, e)
    BY <1>2 DEF CreateEvent
  <2>2. UNCHANGED <<gender, attends, message, likes>>
    BY <1>2 DEF CreateEvent, chatVars
  <2>3. e \notin issued /\ issued' = issued \cup {e}
    BY <2>1 DEF InsertEvent
  <2>4. \A f \in Events \ {e} : creator'[f] = creator[f]
    BY <2>1 DEF InsertEvent, TypeOK
  <2>5. \A f \in Events \cap issued : creator'[f] = creator[f]
    BY <2>3, <2>4
  <2>6. AccountsTold' /\ LeavesTold' /\ LikesTold'
    BY <2>2, <2>3
  <2>7. JoinsTold'
    BY <2>2, <2>3, <2>5
  <2>8. WritesTold'
    BY <2>2, <2>3, <2>5
  <2> QED
    BY <2>6, <2>7, <2>8
<1>3. ASSUME NEW e \in Events, DeleteEvent(u, e) PROVE ToldInv'
  <2>1. UNCHANGED <<gender, issued>> /\ Cascade({e}, {})
    BY <1>3 DEF DeleteEvent, RemoveEvent
  <2>2. \A f \in Events : creator'[f] = IF f = e THEN NoRow ELSE creator[f]
    BY <1>3 DEF DeleteEvent, RemoveEvent, TypeOK
  <2>3. \A f \in Events, v \in Users :
          attends'[<<f, v>>] = IF f = e THEN NoRow ELSE attends[<<f, v>>]
    BY <2>1 DEF Cascade, Attendances
  <2>4. AccountsTold'
    BY <2>1
  <2>5. JoinsTold' /\ LeavesTold'
    BY <2>1, <2>2, <2>3
  <2>6. WritesTold'
    BY <2>1, <2>2 DEF Cascade, Lost
  <2>7. LikesTold'
    BY <2>1 DEF Cascade
  <2> QED
    BY <2>4, <2>5, <2>6, <2>7
<1> QED
  BY <1>1, <1>2, <1>3 DEF Silent

\* A call that changes what its own client was told makes the client unsure of
\* that first, and disturbs nothing another client was told.
LEMMA OwnCalls ==
  ASSUME TypeOK, ToldInv, NEW u \in Users, SessionStarts(u)
  PROVE  ToldInv'
<1> USE DEF ToldInv, AccountsTold, JoinsTold, LeavesTold, WritesTold, LikesTold,
            Account, Exists, Attending, Answers
<1>1. CASE CreateUserAnswer(u)
  <2>1. PICK g \in Genders : CreateUser(u, g)
    BY <1>1 DEF CreateUserAnswer
  <2>2. UNCHANGED <<creator, attends, message, likes, issued>>
    BY <2>1 DEF CreateUser, InsertUser, eventVars, chatVars
  <2>3. \A v \in Users : gender[v] # NoRow \/ v = u => gender'[v] # NoRow
    BY <2>1, StoreAssumption DEF CreateUser, InsertUser, TypeOK
  <2>4. told' \subseteq told \cup {HasAccount(u)}
    BY <1>1 DEF CreateUserAnswer
  <2>5. told' \subseteq FactTypes
    BY <2>4 DEF FactTypes
  <2>6. AccountsTold'
    BY <2>3, <2>4 DEF HasAccount, Fact
  <2>7. \A f \in told' : f.fact # "account" => f \in told
    BY <2>4 DEF HasAccount, Fact
  <2>8. JoinsTold' /\ LeavesTold' /\ WritesTold' /\ LikesTold'
    BY <2>2, <2>7 DEF Joined, Left, Wrote, Liked, Fact
  <2> QED
    BY <2>5, <2>6, <2>8
<1>2. CASE DeleteUserAnswer(u)
  <2>1. told' \subseteq told /\ \A f \in told' : f.user # u
    BY <1>2 DEF DeleteUserAnswer, FactsOf
  <2>2. /\ UNCHANGED <<creator, issued>>
        /\ gender' = [gender EXCEPT ![u] = NoRow]
        /\ Cascade({}, {u})
    BY <1>2 DEF DeleteUserAnswer, DeleteUser, RemoveUser
  <2>3. AccountsTold'
    BY <2>1, <2>2 DEF HasAccount, Fact, TypeOK
  <2>4. \A e \in Events, v \in Users \ {u} : attends'[<<e, v>>] = attends[<<e, v>>]
    BY <2>2 DEF Cascade, Attendances
  <2>5. \A e \in Events, v \in Users : attends[<<e, v>>] = NoRow => attends'[<<e, v>>] = NoRow
    BY <2>2 DEF Cascade, Attendances
  <2>6. JoinsTold' /\ LeavesTold'
    BY <2>1, <2>2, <2>4, <2>5 DEF Joined, Left, Fact
  <2>7. WritesTold'
    BY <2>1, <2>2 DEF Wrote, Fact, Cascade, Lost
  <2>8. LikesTold'
    BY <2>1, <2>2 DEF Liked, Fact, Cascade
  <2> QED
    BY <2>1, <2>3, <2>6, <2>7, <2>8
<1>3. ASSUME NEW e \in Events, e \in issued, NEW c \in Calls, JoinEventAnswer(c, u, e)
      PROVE  ToldInv'
  BY <1>3, JoinSelectTold DEF JoinEventAnswer, JoinEvent
<1>4. ASSUME NEW e \in Events, e \in issued, LeaveEventAnswer(u, e) PROVE ToldInv'
  <2>1. told' \subseteq (told \ {Joined(u, e)}) \cup {Left(u, e)}
    BY <1>4 DEF LeaveEventAnswer
  <2>2. UNCHANGED <<gender, creator, message, likes, issued>>
    BY <1>4 DEF LeaveEventAnswer, LeaveEvent, chatVars
  <2>3. attends' = [attends EXCEPT ![<<e, u>>] = NoRow]
    BY <1>4 DEF LeaveEventAnswer, LeaveEvent, RemoveAttendance
  <2>4. \A f \in Events, v \in Users :
          attends'[<<f, v>>] = IF f = e /\ v = u THEN NoRow ELSE attends[<<f, v>>]
    BY <2>3 DEF TypeOK, Attendances
  <2>5. told' \subseteq FactTypes
    BY <2>1 DEF FactTypes
  <2>6. JoinsTold'
    BY <2>1, <2>2, <2>4 DEF Joined, Left, Fact
  <2>7. LeavesTold'
    BY <2>1, <2>2, <2>4 DEF Left, Fact
  <2>8. AccountsTold' /\ WritesTold' /\ LikesTold'
    BY <2>1, <2>2 DEF HasAccount, Left, Wrote, Liked, Fact
  <2> QED
    BY <2>5, <2>6, <2>7, <2>8
<1>5. ASSUME NEW e \in Events, e \in issued, CreateMessageAnswer(u, e) PROVE ToldInv'
  <2>1. PICK m \in Messages : InsertMessage(u, e, m)
    BY <1>5 DEF CreateMessageAnswer, CreateMessage
  <2>2. m \notin issued /\ issued' = issued \cup {m}
    BY <2>1 DEF InsertMessage
  <2>3. told' \subseteq told \cup {Wrote(u, e, m)}
    BY <1>5, <2>2 DEF CreateMessageAnswer
  <2>4. \A n \in Messages :
          message'[n] = IF n = m THEN [event |-> e, author |-> u] ELSE message[n]
    BY <2>1 DEF InsertMessage, TypeOK
  <2>5. UNCHANGED <<gender, creator, attends, likes>>
    BY <1>5 DEF CreateMessageAnswer, CreateMessage, eventVars
  <2>6. told' \subseteq FactTypes
    BY <2>3 DEF FactTypes
  <2>7. \A f \in told' : f.fact # "wrote" => f \in told
    BY <2>3 DEF Wrote, Fact
  <2>8. AccountsTold' /\ JoinsTold' /\ LeavesTold'
    BY <2>2, <2>5, <2>7 DEF HasAccount, Joined, Left, Fact
  <2>9. WritesTold'
    BY <1>5, <2>2, <2>3, <2>4, <2>5 DEF Wrote, Fact
  <2>10. LikesTold'
    BY <2>2, <2>4, <2>5, <2>7 DEF Liked, Fact
  <2> QED
    BY <2>6, <2>8, <2>9, <2>10
<1>6. ASSUME NEW m \in Messages, m \in issued, LikeMessageAnswer(u, m) PROVE ToldInv'
  <2>1. told' \subseteq told \cup {Liked(u, m)}
    BY <1>6 DEF LikeMessageAnswer
  <2>2. UNCHANGED <<gender, creator, attends, message, issued>> /\ likes' = likes \cup {<<m, u>>}
    BY <1>6 DEF LikeMessageAnswer, LikeMessage, InsertLike, eventVars
  <2>3. told' \subseteq FactTypes
    BY <2>1 DEF FactTypes
  <2>4. \A f \in told' : f.fact # "liked" => f \in told
    BY <2>1 DEF Liked, Fact
  <2>5. AccountsTold' /\ JoinsTold' /\ LeavesTold' /\ WritesTold'
    BY <2>2, <2>4 DEF HasAccount, Joined, Left, Wrote, Fact
  <2>6. LikesTold'
    BY <1>6, <2>1, <2>2 DEF Liked, Fact
  <2> QED
    BY <2>3, <2>5, <2>6
<1>7. ASSUME NEW m \in Messages, UnlikeMessageAnswer(u, m) PROVE ToldInv'
  <2>1. told' \subseteq told \ {Liked(u, m)}
    BY <1>7 DEF UnlikeMessageAnswer
  <2>2. UNCHANGED <<gender, creator, attends, message, issued>> /\ likes' = likes \ {<<m, u>>}
    BY <1>7 DEF UnlikeMessageAnswer, UnlikeMessage, RemoveLike, eventVars
  <2>3. AccountsTold' /\ JoinsTold' /\ LeavesTold' /\ WritesTold'
    BY <2>1, <2>2
  <2>4. LikesTold'
    BY <2>1, <2>2 DEF Liked, Fact
  <2> QED
    BY <2>1, <2>3, <2>4
<1>8. CASE Silent(u) /\ UNCHANGED told
  BY <1>8, SilentTold
<1> QED
  BY <1>1, <1>2, <1>3, <1>4, <1>5, <1>6, <1>7, <1>8 DEF SessionStarts
\* So does the second statement of a call.
LEMMA ContinuedCalls ==
  ASSUME PatientInv, ToldInv, NEW c \in Calls, SessionContinues(c)
  PROVE  ToldInv'
<1> DEFINE u == calls[c].user
           e == calls[c].event
<1> USE DEF ToldInv, AccountsTold, JoinsTold, LeavesTold, WritesTold, LikesTold,
            Account, Exists, Attending
<1>0. TypeOK /\ IssuedIds
  BY DEF PatientInv
<1>1. CASE CreateEventAnswer(c)
  <2>1. calls[c].at = "created"
    BY <1>1 DEF CreateEventAnswer, CreateEventJoin
  <2>2. u \in Users /\ e \in Events
    BY <1>0, <2>1 DEF TypeOK, CallTypes, Idle, Call
  <2>3. creator[e] = u
    BY <2>1 DEF PatientInv, Snapshots
  <2>4. e \in issued
    BY <1>0, <2>2, <2>3, StoreAssumption DEF IssuedIds
  <2> QED
    BY <1>0, <1>1, <2>2, <2>4, JoinSelectTold DEF CreateEventAnswer, CreateEventJoin
<1>2. CASE JoinInsertAnswer(c) /\ attends' # attends
  <2>1. u \in Users /\ e \in Events /\ calls[c].gender \in Genders
    BY <1>0, <1>2 DEF JoinInsertAnswer, JoinInsert, TypeOK, CallTypes, Idle, Call
  <2>2. /\ UNCHANGED <<gender, creator, message, likes, issued>>
        /\ attends' = [attends EXCEPT ![<<e, u>>] = calls[c].gender]
        /\ creator[e] # NoRow
    BY <1>2 DEF JoinInsertAnswer, JoinInsert, chatVars
  <2>3. \A f \in Events, v \in Users :
          attends'[<<f, v>>] = IF f = e /\ v = u THEN calls[c].gender ELSE attends[<<f, v>>]
    BY <1>0, <2>2 DEF TypeOK, Attendances
  <2>4. told' \subseteq (told \ {Joined(u, e), Left(u, e)}) \cup {Joined(u, e)}
    BY <1>2 DEF JoinInsertAnswer, JoinAnswer, Answers
  <2>5. told' \subseteq FactTypes
    BY <2>1, <2>4 DEF FactTypes
  <2>6. \A f \in told' : f.fact # "joined" => f \in told \ {Left(u, e)}
    BY <2>4 DEF Joined, Left, Fact
  <2>7. AccountsTold' /\ WritesTold' /\ LikesTold'
    BY <2>2, <2>6 DEF HasAccount, Wrote, Liked, Fact
  <2>8. LeavesTold'
    BY <2>3, <2>6 DEF Left, Fact
  <2>9. JoinsTold'
    BY <1>0, <2>1, <2>2, <2>3, <2>4, StoreAssumption DEF Joined, Fact, IssuedIds
  <2> QED
    BY <2>5, <2>7, <2>8, <2>9
<1>3. CASE JoinInsertAnswer(c) /\ attends' = attends
  <2>1. UNCHANGED <<gender, creator, attends, message, likes, issued, told>>
    BY <1>3 DEF JoinInsertAnswer, JoinInsert, chatVars
  <2> QED
    BY <2>1
<1>4. CASE UpdateUserWrite(c) /\ UNCHANGED told
  <2>1. UNCHANGED <<creator, attends, message, likes, issued>>
    BY <1>4 DEF UpdateUserWrite, eventVars, chatVars
  <2>2. calls[c].gender # NoRow
    BY <1>0, <1>4, StoreAssumption DEF UpdateUserWrite, TypeOK, CallTypes, Idle, Call
  <2>3. \A v \in Users : gender[v] # NoRow => gender'[v] # NoRow
    BY <1>0, <1>4, <2>2 DEF UpdateUserWrite, SetUser, TypeOK
  <2> QED
    BY <1>4, <2>1, <2>3
<1>5. CASE StatementFails(c) /\ UNCHANGED told
  <2>1. UNCHANGED <<gender, creator, attends, message, likes, issued, told>>
    BY <1>5 DEF StatementFails, eventVars, chatVars
  <2> QED
    BY <2>1
<1> QED
  BY <1>1, <1>2, <1>3, <1>4, <1>5 DEF SessionContinues

\* In every session the tables hold what was told, fact by fact.
THEOREM ToldInvariant == SessionSpec => [](PatientInv /\ ToldInv)
<1>1. SessionSpec => []PatientInv
  BY SessionsArePatient, PatientInvariant, PTL
<1>2. SessionInit => ToldInv
  BY DEF SessionInit, ToldInv, AccountsTold, JoinsTold, LeavesTold, WritesTold, LikesTold
<1>3. PatientInv /\ ToldInv /\ [SessionNext]_sessionVars => ToldInv'
  <2> SUFFICES ASSUME PatientInv, ToldInv, [SessionNext]_sessionVars PROVE ToldInv'
    OBVIOUS
  <2>1. TypeOK
    BY DEF PatientInv
  <2>2. CASE UNCHANGED sessionVars
    BY <2>2 DEF sessionVars, vars, eventVars, chatVars, ToldInv, AccountsTold, JoinsTold, LeavesTold,
                WritesTold, LikesTold, Account, Exists, Attending
  <2> QED
    BY <2>1, <2>2, OwnCalls, ContinuedCalls DEF SessionNext
<1> QED
  BY <1>1, <1>2, <1>3, PTL DEF SessionSpec

\* With as many rows asked for as there are events, the own events of a user are
\* the events the user attends.
LEMMA ListedAttends ==
  ASSUME NEW u \in Users, NEW e \in Events
  PROVE  Listed(u, e) <=> Attending(e, u)
<1> DEFINE own == {f \in Events : u \in Attendees(f)}
           shown(f) == Row(f, 0, Cardinality(Attendees(f)))
           rows == {[r EXCEPT !.comments = 0] : r \in UserEvents(u)}
           h == [f \in own |-> shown(f)]
<1>1. rows = {shown(f) : f \in own}
  <2>1. UserEvents(u) = {Row(f, Cardinality(Comments(f)), Cardinality(Attendees(f))) : f \in own}
    BY DEF UserEvents
  <2>2. \A f : [Row(f, Cardinality(Comments(f)), Cardinality(Attendees(f))) EXCEPT !.comments = 0]
               = shown(f)
    BY DEF Row
  <2> QED
    BY <2>1, <2>2
<1>2. IsFiniteSet(rows) /\ Cardinality(rows) <= Cardinality(Events)
  <2>1. h \in Surjection(own, rows)
    BY <1>1 DEF Surjection
  <2>2. IsFiniteSet(own) /\ Cardinality(own) <= Cardinality(Events)
    BY QueriesAssumption, FS_Subset
  <2>3. IsFiniteSet(rows) /\ Cardinality(rows) <= Cardinality(own)
    BY <2>1, <2>2, FS_Surjection
  <2>4. Cardinality(rows) \in Nat /\ Cardinality(own) \in Nat /\ Cardinality(Events) \in Nat
    BY <2>2, <2>3, QueriesAssumption, FS_CardinalityType
  <2> QED
    BY <2>2, <2>3, <2>4
<1>3. UserEventsAnswers(u, Cardinality(Events)) = {rows}
  <2>1. Cardinality(rows) \in Nat /\ Cardinality(Events) \in Nat
    BY <1>2, QueriesAssumption, FS_CardinalityType
  <2>2. (IF Cardinality(Events) < Cardinality(rows) THEN Cardinality(Events) ELSE Cardinality(rows))
        = Cardinality(rows)
    BY <1>2, <2>1
  <2>3. \A a \in SUBSET rows : Cardinality(a) = Cardinality(rows) => a = rows
    BY <1>2, FS_Subset
  <2>4. ASSUME NEW a \in UserEventsAnswers(u, Cardinality(Events)) PROVE a = rows
    <3>1. a \in SUBSET rows /\ Cardinality(a) = Cardinality(rows)
      BY <2>2, <2>4 DEF UserEventsAnswers, Limited
    <3> QED
      BY <2>3, <3>1
  <2>5. rows \in UserEventsAnswers(u, Cardinality(Events))
    BY <2>2 DEF UserEventsAnswers, Limited
  <2> QED
    BY <2>4, <2>5
<1>4. (\E r \in rows : r.event = e) <=> e \in own
  <2>1. \A f : shown(f).event = f
    BY DEF Row
  <2> HIDE DEF shown, rows, own
  <2> QED
    BY <1>1, <2>1
<1>5. Listed(u, e) <=> \E r \in rows : r.event = e
  BY <1>3 DEF Listed
<1> QED
  BY <1>4, <1>5 DEF Attendees

\* What the tables hold is what the reads of the clients show.
LEMMA AnswersMatchTables ==
  ASSUME PatientInv, ToldInv
  PROVE  AnswersHold
<1> SUFFICES ASSUME NEW f \in told
             PROVE  CASE f.fact = "account" -> Account(f.user)
                      [] f.fact = "joined" -> Exists(f.event) => Listed(f.user, f.event)
                      [] f.fact = "left" -> ~Listed(f.user, f.event)
                      [] f.fact = "wrote" ->
                           Exists(f.event) =>
                             \A u \in Users : \E r \in EventMessages(f.event, u) :
                               r.message = f.message /\ r.sender = f.user
                      [] f.fact = "liked" ->
                           message[f.message] # NoRow =>
                             \E r \in EventMessages(message[f.message].event, f.user) :
                               r.message = f.message /\ r.liked
  BY DEF AnswersHold
<1>1. ASSUME NEW u \in Users, f = HasAccount(u)
      PROVE  f.fact = "account" /\ Account(f.user)
  BY <1>1 DEF ToldInv, AccountsTold, HasAccount, Fact
<1>2. ASSUME NEW u \in Users, NEW e \in Events, f = Joined(u, e)
      PROVE  f.fact = "joined" /\ (Exists(f.event) => Listed(f.user, f.event))
  BY <1>2, ListedAttends DEF ToldInv, JoinsTold, Joined, Fact
<1>3. ASSUME NEW u \in Users, NEW e \in Events, f = Left(u, e)
      PROVE  f.fact = "left" /\ ~Listed(f.user, f.event)
  BY <1>3, ListedAttends DEF ToldInv, LeavesTold, Left, Fact
<1>4. ASSUME NEW u \in Users, NEW e \in Events, NEW m \in Messages, f = Wrote(u, e, m)
      PROVE  /\ f.fact = "wrote"
             /\ Exists(f.event) =>
                  \A v \in Users : \E r \in EventMessages(f.event, v) :
                    r.message = f.message /\ r.sender = f.user
  <2>1. f.fact = "wrote" /\ f.event = e /\ f.message = m /\ f.user = u
    BY <1>4 DEF Wrote, Fact
  <2>2. ASSUME Exists(e), NEW v \in Users
        PROVE  \E r \in EventMessages(e, v) : r.message = m /\ r.sender = u
    <3>1. message[m] = [event |-> e, author |-> u]
      BY <1>4, <2>2 DEF ToldInv, WritesTold
    <3>2. m \in Comments(e)
      BY <3>1, StoreAssumption DEF Comments
    <3>3. MessageRow(m, v, Cardinality(Likers(m))) \in EventMessages(e, v)
      BY <3>2, HistoryRows
    <3> QED
      BY <3>1, <3>3 DEF MessageRow
  <2> QED
    BY <2>1, <2>2
<1>5. ASSUME NEW u \in Users, NEW m \in Messages, f = Liked(u, m)
      PROVE  /\ f.fact = "liked"
             /\ message[f.message] # NoRow =>
                  \E r \in EventMessages(message[f.message].event, f.user) :
                    r.message = f.message /\ r.liked
  <2>1. f.fact = "liked" /\ f.message = m /\ f.user = u
    BY <1>5 DEF Liked, Fact
  <2>2. ASSUME message[m] # NoRow
        PROVE  \E r \in EventMessages(message[m].event, u) : r.message = m /\ r.liked
    <3>1. u \in Likers(m)
      BY <1>5, <2>2 DEF ToldInv, LikesTold, Likers
    <3>2. m \in Comments(message[m].event)
      BY <2>2 DEF Comments
    <3>3. MessageRow(m, u, Cardinality(Likers(m))) \in EventMessages(message[m].event, u)
      BY <3>2, HistoryRows
    <3> QED
      BY <3>1, <3>3 DEF MessageRow
  <2> QED
    BY <2>1, <2>2
<1>6. \/ \E u \in Users : f = HasAccount(u)
      \/ \E u \in Users, e \in Events : f = Joined(u, e)
      \/ \E u \in Users, e \in Events : f = Left(u, e)
      \/ \E u \in Users, e \in Events, m \in Messages : f = Wrote(u, e, m)
      \/ \E u \in Users, m \in Messages : f = Liked(u, m)
  BY DEF ToldInv, FactTypes
<1>7. \/ f.fact = "account" /\ Account(f.user)
      \/ f.fact = "joined" /\ (Exists(f.event) => Listed(f.user, f.event))
      \/ f.fact = "left" /\ ~Listed(f.user, f.event)
      \/ /\ f.fact = "wrote"
         /\ Exists(f.event) =>
              \A u \in Users : \E r \in EventMessages(f.event, u) :
                r.message = f.message /\ r.sender = f.user
      \/ /\ f.fact = "liked"
         /\ message[f.message] # NoRow =>
              \E r \in EventMessages(message[f.message].event, f.user) :
                r.message = f.message /\ r.liked
  BY <1>1, <1>2, <1>3, <1>4, <1>5, <1>6
<1> QED
  BY <1>7

\* What a client was told stays so until it calls again, and its reads show it.
THEOREM AnswersStayTrue == SessionSpec => []AnswersHold
BY ToldInvariant, AnswersMatchTables, PTL

------------------------------------------------------------------------------
\* What convertUUID does to an id of any length

\* A function with the domain of an id is a sequence of that length.
LEMMA FixedLength ==
  ASSUME NEW n \in Nat, NEW f \in [1 .. n -> Bytes]
  PROVE  f \in Seq(Bytes) /\ Len(f) = n
<1>1. f \in Seq(Bytes)
  BY SeqDef
<1>2. DOMAIN f = 1 .. n /\ DOMAIN f = 1 .. Len(f) /\ Len(f) \in Nat
  BY <1>1, LenProperties
<1> QED
  BY <1>1, <1>2

\* Whatever the length of its argument, convertUUID makes an id.
LEMMA ConvertMakesIds ==
  ASSUME NEW b \in Seq(Bytes)
  PROVE  ConvertUUID(b) \in Ids
<1> SUFFICES ASSUME NEW i \in 1 .. IdLen PROVE (IF i <= Len(b) THEN b[i] ELSE 0) \in Bytes
  BY DEF ConvertUUID, Ids
<1>1. CASE i <= Len(b)
  BY <1>1, LenProperties, ElementOfSeq, ConvertAssumption
<1>2. CASE ~(i <= Len(b))
  BY <1>2, ConvertAssumption
<1> QED
  BY <1>1, <1>2

\* An id is converted to itself.
LEMMA ConvertKeepsIds ==
  ASSUME NEW b \in Ids
  PROVE  ConvertUUID(b) = b
<1>1. b \in [1 .. IdLen -> Bytes] /\ Len(b) = IdLen
  BY FixedLength, ConvertAssumption DEF Ids
<1>2. \A i \in 1 .. IdLen : (IF i <= Len(b) THEN b[i] ELSE 0) = b[i]
  BY <1>1
<1> QED
  BY <1>1, <1>2 DEF ConvertUUID

\* In every execution, for ids of any length, any range of bytes and any ids of
\* the events in the table: an id in an answer, sent back in a request, finds its
\* event and no other.
THEOREM IdsComeBack == Spec => []IdsReturn
<1>1. IdsReturn
  <2> DEFINE rows == {e \in Events : Exists(e)}
  <2> SUFFICES ASSUME NEW id \in [rows -> Ids], \A d, e \in rows : id[d] = id[e] => d = e
               PROVE  /\ \A e \in rows : Found(id, id[e]) = {e}
                      /\ \A n \in 0 .. IdLen + 1 : \A b \in [1 .. n -> Bytes] :
                           Found(id, ConvertUUID(b)) = Found(id, b)
    BY DEF IdsReturn
  <2> HIDE DEF rows
  <2>1. ASSUME NEW e \in rows PROVE Found(id, id[e]) = {e}
    BY ConvertKeepsIds DEF Found
  <2>2. ASSUME NEW n \in 0 .. IdLen + 1, NEW b \in [1 .. n -> Bytes]
        PROVE  Found(id, ConvertUUID(b)) = Found(id, b)
    <3>1. n \in Nat
      BY ConvertAssumption
    <3>2. b \in Seq(Bytes)
      BY <3>1, FixedLength
    <3>3. ConvertUUID(ConvertUUID(b)) = ConvertUUID(b)
      BY <3>2, ConvertMakesIds, ConvertKeepsIds
    <3> QED
      BY <3>3 DEF Found
  <2> QED
    BY <2>1, <2>2
<1> QED
  BY <1>1, PTL

\* The conversion of the raw ids of requests satisfies what the chat hub assumes
\* of its constant Canon: it maps ids to ids, and a converted id to itself.
THEOREM CanonJustified ==
  LET canon == [b \in Seq(Bytes) |-> ConvertUUID(b)] IN
  /\ canon \in [Seq(Bytes) -> Seq(Bytes)]
  /\ \A b \in Seq(Bytes) : canon[canon[b]] = canon[b]
<1>1. \A b \in Seq(Bytes) : ConvertUUID(b) \in Ids
  BY ConvertMakesIds
<1>2. Ids \subseteq Seq(Bytes)
  BY FixedLength, ConvertAssumption DEF Ids
<1>3. \A b \in Seq(Bytes) : ConvertUUID(ConvertUUID(b)) = ConvertUUID(b)
  BY <1>1, ConvertKeepsIds
<1> QED
  BY <1>1, <1>2, <1>3

------------------------------------------------------------------------------
\* The enum switches: each label of a type comes back from its number, and
\* whatever number a request carries, the name made of it is a label.

LEMMA CategoryConverts ==
  /\ Converts(CategoryLabels, CategoryToSQL, CategoryToPB)
  /\ \A n \in Int : ToSQL(CategoryToSQL, n) \in CategoryLabels
<1> USE DEF CategoryLabels, CategoryToSQL, CategoryToPB
<1>1. Len(CategoryToSQL) = 12
  OBVIOUS
<1>2. DOMAIN CategoryToPB = CategoryLabels \ {"unspecified"}
  OBVIOUS
<1>3. \A s \in CategoryLabels : ToSQL(CategoryToSQL, ToPB(CategoryToPB, s)) = s
  BY <1>1, <1>2 DEF ToSQL, ToPB
<1>4. \A n \in Int : ToSQL(CategoryToSQL, n) \in CategoryLabels
  BY <1>1 DEF ToSQL
<1> QED
  BY <1>1, <1>3, <1>4 DEF Converts

LEMMA StatusConverts ==
  /\ Converts(StatusLabels, StatusToSQL, StatusToPB)
  /\ \A n \in Int : ToSQL(StatusToSQL, n) \in StatusLabels
<1> USE DEF StatusLabels, StatusToSQL, StatusToPB
<1>1. Len(StatusToSQL) = 5
  OBVIOUS
<1>2. DOMAIN StatusToPB = StatusLabels \ {"unspecified"}
  OBVIOUS
<1>3. \A s \in StatusLabels : ToSQL(StatusToSQL, ToPB(StatusToPB, s)) = s
  BY <1>1, <1>2 DEF ToSQL, ToPB
<1>4. \A n \in Int : ToSQL(StatusToSQL, n) \in StatusLabels
  BY <1>1 DEF ToSQL
<1> QED
  BY <1>1, <1>3, <1>4 DEF Converts

LEMMA GenderConverts ==
  /\ Converts(GenderLabels, GenderToSQL, GenderToPB)
  /\ \A n \in Int : ToSQL(GenderToSQL, n) \in GenderLabels
<1> USE DEF GenderLabels, GenderToSQL, GenderToPB
<1>1. Len(GenderToSQL) = 3
  OBVIOUS
<1>2. DOMAIN GenderToPB = GenderLabels \ {"unspecified"}
  OBVIOUS
<1>3. \A s \in GenderLabels : ToSQL(GenderToSQL, ToPB(GenderToPB, s)) = s
  BY <1>1, <1>2 DEF ToSQL, ToPB
<1>4. \A n \in Int : ToSQL(GenderToSQL, n) \in GenderLabels
  BY <1>1 DEF ToSQL
<1> QED
  BY <1>1, <1>3, <1>4 DEF Converts

LEMMA TypeConverts ==
  /\ Converts(TypeLabels, TypeToSQL, TypeToPB)
  /\ \A n \in Int : ToSQL(TypeToSQL, n) \in TypeLabels
<1> USE DEF TypeLabels, TypeToSQL, TypeToPB
<1>1. Len(TypeToSQL) = 2
  OBVIOUS
<1>2. DOMAIN TypeToPB = TypeLabels \ {"unspecified"}
  OBVIOUS
<1>3. \A s \in TypeLabels : ToSQL(TypeToSQL, ToPB(TypeToPB, s)) = s
  BY <1>1, <1>2 DEF ToSQL, ToPB
<1>4. \A n \in Int : ToSQL(TypeToSQL, n) \in TypeLabels
  BY <1>1 DEF ToSQL
<1> QED
  BY <1>1, <1>3, <1>4 DEF Converts

LEMMA MessageStatusConverts ==
  /\ Converts(MessageStatusLabels, MessageStatusToSQL, MessageStatusToPB)
  /\ \A n \in Int : ToSQL(MessageStatusToSQL, n) \in MessageStatusLabels
<1> USE DEF MessageStatusLabels, MessageStatusToSQL, MessageStatusToPB
<1>1. Len(MessageStatusToSQL) = 3
  OBVIOUS
<1>2. DOMAIN MessageStatusToPB = MessageStatusLabels \ {"unspecified"}
  OBVIOUS
<1>3. \A s \in MessageStatusLabels : ToSQL(MessageStatusToSQL, ToPB(MessageStatusToPB, s)) = s
  BY <1>1, <1>2 DEF ToSQL, ToPB
<1>4. \A n \in Int : ToSQL(MessageStatusToSQL, n) \in MessageStatusLabels
  BY <1>1 DEF ToSQL
<1> QED
  BY <1>1, <1>3, <1>4 DEF Converts

\* In every execution the enum columns of every row survive the way to a client
\* and back, and every number of a request becomes a label of its column.
THEOREM EnumsComeBack == Spec => []EnumsReturn
<1>1. EnumsReturn
  BY CategoryConverts, StatusConverts, GenderConverts, TypeConverts, MessageStatusConverts
     DEF EnumsReturn
<1> QED
  BY <1>1, PTL
==============================================================================
