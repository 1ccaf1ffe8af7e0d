-------------------------------- MODULE Store --------------------------------
(***************************************************************************)
(* The tables of sql/migrations/0001_initial_table.up.sql and the user,    *)
(* event and chat calls that change them, through the statements of        *)
(* sql/queries.  There are no transactions around several statements:      *)
(*  - CreateEvent inserts the event and then joins it for its creator;     *)
(*  - UpdateUser reads the row of the user and then writes back the gender *)
(*    it read;                                                             *)
(*  - JoinEvent is one INSERT ... SELECT, but at the isolation level of    *)
(*    the server (READ COMMITTED) its SELECT sees an earlier snapshot than *)
(*    the key checks of its INSERT, so it takes two steps as well.         *)
(* Every other statement is one step.  A statement that fails, for the     *)
(* constraints or the connection, changes nothing, and the call it belongs *)
(* to answers with an error.                                               *)
(*                                                                         *)
(* Columns no property tells apart (names, places, dates, contents, the    *)
(* timestamps) are left out; the calls that only read are in Queries.      *)
(* DeleteMesssage of the chat service is left out too: the call is named   *)
(* DeleteMessage in the proto file, so the generated stub answers          *)
(* Unimplemented and the handler is never reached.                         *)
(***************************************************************************)
EXTENDS Naturals

CONSTANTS
  Users,     \* authenticated users, as the 16 bytes convertUUID makes of them
  Events,    \* ids gen_random_uuid yields for events, each at most once
  Messages,  \* ids gen_random_uuid yields for messages, each at most once
  Genders,   \* values of gender_type
  Calls,     \* slots for the calls that are between two statements
  NoRow      \* no row under this key; also the unused fields of a call

ASSUME StoreAssumption ==
  /\ NoRow \notin Users \cup Events \cup Genders
  /\ NoRow \notin [event : Events, author : Users]

VARIABLES
  gender,   \* users: the gender column, by user_id
  creator,  \* events: the creator_id column, by event_id
  attends,  \* event_attendees: the gender column, by <<event_id, user_id>>
  message,  \* chat_messages: event and author, by message_id
  likes,    \* message_likes: the pairs <<message_id, user_id>>
  issued,   \* ids generated so far
  calls     \* the calls between two statements

eventVars == <<creator, attends>>
chatVars == <<message, likes>>
vars == <<gender, eventVars, chatVars, issued, calls>>

Attendances == Events \X Users

Posts == [event : Events, author : Users]

Call(at, u, e, g) == [at |-> at, user |-> u, event |-> e, gender |-> g]

Idle == Call("idle", NoRow, NoRow, NoRow)

Init ==
  /\ gender = [u \in Users |-> NoRow]
  /\ creator = [e \in Events |-> NoRow]
  /\ attends = [k \in Attendances |-> NoRow]
  /\ message = [m \in Messages |-> NoRow]
  /\ likes = {}
  /\ issued = {}
  /\ calls = [c \in Calls |-> Idle]

Account(u) == gender[u] # NoRow

Exists(e) == creator[e] # NoRow

Attending(e, u) == attends[<<e, u>>] # NoRow

------------------------------------------------------------------------------
\* Foreign keys with ON DELETE CASCADE

\* The messages that go with the events es or the users us.
Lost(es, us) ==
  {m \in Messages : message[m] # NoRow /\ (message[m].event \in es \/ message[m].author \in us)}

\* Mutant: message_likes.message_id has no foreign key.
CascadeKeepsLikes(es, us) ==
  /\ attends' = [k \in Attendances |-> IF k[1] \in es \/ k[2] \in us THEN NoRow ELSE attends[k]]
  /\ message' = [m \in Messages |-> IF m \in Lost(es, us) THEN NoRow ELSE message[m]]
  /\ likes' = {l \in likes : l[2] \notin us}

\* The rows that refer to the events es or the users us go, and the likes of
\* the messages among them.
Cascade(es, us) ==
  /\ attends' = [k \in Attendances |-> IF k[1] \in es \/ k[2] \in us THEN NoRow ELSE attends[k]]
  /\ message' = [m \in Messages |-> IF m \in Lost(es, us) THEN NoRow ELSE message[m]]
  /\ likes' = {l \in likes : l[1] \notin Lost(es, us) /\ l[2] \notin us}

------------------------------------------------------------------------------
\* The statements (internal/gen/sqlc).  One that a constraint refuses is not
\* enabled: it changes nothing and its call answers with an error.

InsertUser(u, g) ==
  /\ ~Account(u)                        \* the primary key
  /\ gender' = [gender EXCEPT ![u] = g]

\* An account that is gone stays gone: UPDATE finds no row.
SetUser(u, g) == gender' = [gender EXCEPT ![u] = IF @ = NoRow THEN NoRow ELSE g]

\* events.creator_id does not cascade: while the user has events the delete fails.
RemoveUser(u) ==
  /\ \A e \in Events : creator[e] # u
  /\ gender' = [gender EXCEPT ![u] = NoRow]
  /\ Cascade({}, {u})
  /\ UNCHANGED creator

InsertEvent(u, e) ==
  /\ Account(u)
  /\ e \notin issued
  /\ creator' = [creator EXCEPT ![e] = u]
  /\ issued' = issued \cup {e}

\* Mutant: without AND user_id = $2.
RemoveAttendances(u, e) ==
  attends' = [k \in Attendances |-> IF k[1] = e THEN NoRow ELSE attends[k]]

RemoveAttendance(u, e) == attends' = [attends EXCEPT ![<<e, u>>] = NoRow]

\* Mutant: without AND creator_id = $2.
RemoveEventUnchecked(u, e) ==
  /\ Exists(e)
  /\ creator' = [creator EXCEPT ![e] = NoRow]
  /\ Cascade({e}, {})

\* The event of another user is not found, which is no error.
RemoveEvent(u, e) ==
  /\ creator[e] = u
  /\ creator' = [creator EXCEPT ![e] = NoRow]
  /\ Cascade({e}, {})

InsertMessage(u, e, m) ==
  /\ Account(u) /\ Exists(e)
  /\ m \notin issued
  /\ message' = [message EXCEPT ![m] = [event |-> e, author |-> u]]
  /\ issued' = issued \cup {m}

InsertLike(u, m) ==
  /\ Account(u) /\ message[m] # NoRow
  /\ likes' = likes \cup {<<m, u>>}     \* ON CONFLICT DO NOTHING

RemoveLike(u, m) == likes' = likes \ {<<m, u>>}

------------------------------------------------------------------------------
\* User service

CreateUser(u, g) ==
  /\ InsertUser(u, g)
  /\ UNCHANGED <<eventVars, chatVars, issued, calls>>

\* GetUserByID; without a row the call ends with an error.
UpdateUser(c, u) ==
  /\ calls[c] = Idle
  /\ Account(u)
  /\ calls' = [calls EXCEPT ![c] = Call("update", u, NoRow, gender[u])]
  /\ UNCHANGED <<gender, eventVars, chatVars, issued>>

\* Mutant: the gender of the request is written.
UpdateUserWriteRequest(c) ==
  /\ calls[c].at = "update"
  /\ \E g \in Genders : SetUser(calls[c].user, g)
  /\ calls' = [calls EXCEPT ![c] = Idle]
  /\ UNCHANGED <<eventVars, chatVars, issued>>

UpdateUserWrite(c) ==
  /\ calls[c].at = "update"
  /\ SetUser(calls[c].user, calls[c].gender)
  /\ calls' = [calls EXCEPT ![c] = Idle]
  /\ UNCHANGED <<eventVars, chatVars, issued>>

DeleteUser(u) ==
  /\ RemoveUser(u)
  /\ UNCHANGED <<issued, calls>>

------------------------------------------------------------------------------
\* Event service

\* INSERT INTO events; the call goes on with JoinEvent.
CreateEvent(c, u) ==
  /\ calls[c] = Idle
  /\ \E e \in Events :
       /\ InsertEvent(u, e)
       /\ calls' = [calls EXCEPT ![c] = Call("created", u, e, NoRow)]
  /\ UNCHANGED <<gender, attends, chatVars>>

\* Mutant: FROM events e LEFT JOIN users u, which finds a row without an account.
JoinSelectLeft(c, u, e) ==
  /\ calls' = [calls EXCEPT ![c] = IF Exists(e) /\ ~Attending(e, u)
                                   THEN Call("join", u, e, gender[u])
                                   ELSE Idle]
  /\ UNCHANGED <<gender, eventVars, chatVars, issued>>

\* The SELECT of JoinEvent: one row, or none and the call ends without an error.
JoinSelect(c, u, e) ==
  /\ calls' = [calls EXCEPT ![c] = IF Account(u) /\ Exists(e) /\ ~Attending(e, u)
                                   THEN Call("join", u, e, gender[u])
                                   ELSE Idle]
  /\ UNCHANGED <<gender, eventVars, chatVars, issued>>

CreateEventJoin(c) ==
  /\ calls[c].at = "created"
  /\ JoinSelect(c, calls[c].user, calls[c].event)

JoinEvent(c, u, e) ==
  /\ calls[c] = Idle
  /\ JoinSelect(c, u, e)

\* The INSERT of JoinEvent, which the primary key or a foreign key may refuse.
JoinInsert(c) ==
  LET u == calls[c].user
      e == calls[c].event
  IN
  /\ calls[c].at = "join"
  /\ attends' = IF Account(u) /\ Exists(e) /\ ~Attending(e, u)
                THEN [attends EXCEPT ![<<e, u>>] = calls[c].gender]
                ELSE attends
  /\ calls' = [calls EXCEPT ![c] = Idle]
  /\ UNCHANGED <<gender, creator, chatVars, issued>>

\* Mutant: an attendee who leaves takes their messages along.
LeaveEventPurge(u, e) ==
  /\ RemoveAttendance(u, e)
  /\ message' = [m \in Messages |-> IF message[m] = [event |-> e, author |-> u]
                                    THEN NoRow ELSE message[m]]
  /\ UNCHANGED <<gender, creator, likes, issued, calls>>

LeaveEvent(u, e) ==
  /\ RemoveAttendance(u, e)
  /\ UNCHANGED <<gender, creator, chatVars, issued, calls>>

DeleteEvent(u, e) ==
  /\ RemoveEvent(u, e)
  /\ UNCHANGED <<gender, issued, calls>>

------------------------------------------------------------------------------
\* Chat service

\* Nobody asks whether the author attends the event.
CreateMessage(u, e) ==
  /\ \E m \in Messages : InsertMessage(u, e, m)
  /\ UNCHANGED <<gender, eventVars, likes, calls>>

LikeMessage(u, m) ==
  /\ InsertLike(u, m)
  /\ UNCHANGED <<gender, eventVars, message, issued, calls>>

UnlikeMessage(u, m) ==
  /\ RemoveLike(u, m)
  /\ UNCHANGED <<gender, eventVars, message, issued, calls>>

------------------------------------------------------------------------------
\* The second statement fails on its way, or the answer to the first is lost.
StatementFails(c) ==
  /\ calls[c] # Idle
  /\ calls' = [calls EXCEPT ![c] = Idle]
  /\ UNCHANGED <<gender, eventVars, chatVars, issued>>

\* The first statement, for most calls the only one, of a call by u.
Starts(u) ==
  \/ \E g \in Genders : CreateUser(u, g)
  \/ DeleteUser(u)
  \/ \E c \in Calls : UpdateUser(c, u) \/ CreateEvent(c, u)
  \/ \E e \in Events :
       \/ \E c \in Calls : JoinEvent(c, u, e)
       \/ LeaveEvent(u, e)
       \/ DeleteEvent(u, e)
       \/ CreateMessage(u, e)
  \/ \E m \in Messages : LikeMessage(u, m) \/ UnlikeMessage(u, m)

Continues(c) ==
  UpdateUserWrite(c) \/ CreateEventJoin(c) \/ JoinInsert(c) \/ StatementFails(c)

Next == (\E u \in Users : Starts(u)) \/ (\E c \in Calls : Continues(c))

Spec == Init /\ [][Next]_vars

Busy(u) == \E c \in Calls : calls[c].user = u

\* The executions in which a client waits for the answer before it calls again.
PatientNext == (\E u \in Users : ~Busy(u) /\ Starts(u)) \/ (\E c \in Calls : Continues(c))

PatientSpec == Init /\ [][PatientNext]_vars

------------------------------------------------------------------------------
\* Properties

CallTypes ==
  {Idle}
  \cup [at : {"update"}, user : Users, event : {NoRow}, gender : Genders]
  \cup [at : {"created"}, user : Users, event : Events, gender : {NoRow}]
  \cup [at : {"join"}, user : Users, event : Events, gender : Genders]

\* The types of the tables and of the calls in flight.
TypeOK ==
  /\ gender \in [Users -> Genders \cup {NoRow}]
  /\ creator \in [Events -> Users \cup {NoRow}]
  /\ attends \in [Attendances -> Genders \cup {NoRow}]
  /\ message \in [Messages -> Posts \cup {NoRow}]
  /\ likes \subseteq Messages \X Users
  /\ issued \subseteq Events \cup Messages
  /\ calls \in [Calls -> CallTypes]

EventRefs == \A e \in Events : Exists(e) => Account(creator[e])

AttendanceRefs ==
  \A e \in Events, u \in Users : Attending(e, u) => Exists(e) /\ Account(u)

MessageRefs ==
  \A m \in Messages :
    message[m] # NoRow => Exists(message[m].event) /\ Account(message[m].author)

LikeRefs ==
  \A m \in Messages, u \in Users : <<m, u>> \in likes => message[m] # NoRow /\ Account(u)

\* Every row refers to rows that exist, whichever chain of cascades a deleted
\* account or event sets off and whatever was in flight: no event without its
\* creator, no attendance or message without its event and its user, no like
\* of a message that went with an event.
References == EventRefs /\ AttendanceRefs /\ MessageRefs /\ LikeRefs

MessageStep ==
  \A m \in Messages :
    message[m] # NoRow /\ message'[m] = NoRow
    => creator'[message[m].event] = NoRow \/ gender'[message[m].author] = NoRow

\* A message is lost only with its event or with the account of its author.
MessagesKept == [][MessageStep]_vars

\* With patient clients, the gender recorded with an attendance is that of the
\* attendee, although UpdateUser writes back a gender it read before, JoinEvent
\* records one it read before, and accounts are deleted and made again.
GenderTracked ==
  \A e \in Events, u \in Users : Attending(e, u) => attends[<<e, u>>] = gender[u]

\* With patient clients, nothing comes between the insert of an event and the
\* join of its creator that would make the join find no row, or be refused: a
\* call of CreateEvent that is answered without an error has joined the event.
CreatorJoins ==
  \A c \in Calls :
    LET u == calls[c].user
        e == calls[c].event
    IN (\/ calls[c].at = "created"
        \/ calls[c].at = "join" /\ creator[e] = u)
       => creator[e] = u /\ Account(u) /\ ~Attending(e, u)

OneCall ==
  \A c, d \in Calls : calls[c] # Idle /\ calls[c].user = calls[d].user => c = d

\* What a call in flight has read or written before is still so.
Snapshots ==
  \A c \in Calls :
    LET u == calls[c].user
        e == calls[c].event
    IN /\ calls[c].at \in {"update", "join"} => gender[u] = calls[c].gender
       /\ calls[c].at = "created" => creator[e] = u
       /\ calls[c].at \in {"created", "join"} => ~Attending(e, u)

IssuedIds == \A e \in Events : Exists(e) => e \in issued

\* The inductive invariant of the executions with patient clients.
PatientInv ==
  TypeOK /\ References /\ IssuedIds /\ OneCall /\ Snapshots /\ GenderTracked

------------------------------------------------------------------------------
\* What the code says of itself and does not keep

\* Deleting an account cascades to the user's events, attendances, messages and
\* likes (the note on DeleteUser in sql/queries/users.sql), so that whoever has
\* an account can delete it.
AccountsDeletable == \A u \in Users : Account(u) => ENABLED DeleteUser(u)
==============================================================================
