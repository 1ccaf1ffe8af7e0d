------------------------------ MODULE Sessions ------------------------------
(***************************************************************************)
(* What a client that waits for its answers may conclude from them: the    *)
(* calls of Store, in the executions of PatientSpec, with the answers the  *)
(* handlers give.  told collects what the answers said; a call makes its   *)
(* client unsure of what the call may change until it is answered without  *)
(* an error, and it is up to chance whether that answer arrives.           *)
(*                                                                         *)
(* Several calls are answered OK although their statement found no row:    *)
(* LeaveEvent, UnlikeMessage and DeleteEvent, and JoinEvent of a user      *)
(* without an account or of an event that is gone.                         *)
(***************************************************************************)
EXTENDS Queries

VARIABLE told

sessionVars == <<vars, told>>

\* The facts an answer can tell the user u.
Fact(fact, u, e, m) == [fact |-> fact, user |-> u, event |-> e, message |-> m]

HasAccount(u) == Fact("account", u, NoRow, NoRow)
Joined(u, e) == Fact("joined", u, e, NoRow)
Left(u, e) == Fact("left", u, e, NoRow)
Wrote(u, e, m) == Fact("wrote", u, e, m)
Liked(u, m) == Fact("liked", u, NoRow, m)

FactsOf(u) == {f \in told : f.user = u}

\* The call ends: with an answer that tells ok, or with an error or no answer,
\* which leaves the client unsure.
Answers(unsure, ok) ==
  told' = told \ unsure \/ told' = (told \ unsure) \cup ok

SessionInit == Init /\ told = {}

------------------------------------------------------------------------------
\* The user service

CreateUserAnswer(u) ==
  /\ \E g \in Genders : CreateUser(u, g)
  /\ Answers({}, {HasAccount(u)})

\* All that the user knows goes with the account, if it goes.
DeleteUserAnswer(u) ==
  /\ DeleteUser(u)
  /\ Answers(FactsOf(u), {})

------------------------------------------------------------------------------
\* The event service

\* A join is answered OK whether its SELECT found a row or not; who was not
\* told of an account concludes nothing from that.
JoinAnswer(u, e) ==
  Answers({Joined(u, e), Left(u, e)},
          IF HasAccount(u) \in told THEN {Joined(u, e)} ELSE {})

\* The SELECT of a join: without a row the call is over.
JoinSelectAnswer(c, u, e) ==
  IF calls'[c] = Idle THEN JoinAnswer(u, e)
                      ELSE told' = told \ {Joined(u, e), Left(u, e)}

JoinEventAnswer(c, u, e) == JoinEvent(c, u, e) /\ JoinSelectAnswer(c, u, e)

CreateEventAnswer(c) ==
  CreateEventJoin(c) /\ JoinSelectAnswer(c, calls[c].user, calls[c].event)

\* An INSERT that is refused is answered with an error.
JoinInsertAnswer(c) ==
  /\ JoinInsert(c)
  /\ IF attends' # attends THEN JoinAnswer(calls[c].user, calls[c].event)
                           ELSE UNCHANGED told

LeaveEventAnswer(u, e) ==
  /\ LeaveEvent(u, e)
  /\ Answers({Joined(u, e)}, {Left(u, e)})

------------------------------------------------------------------------------
\* The chat service

CreateMessageAnswer(u, e) ==
  /\ CreateMessage(u, e)
  /\ Answers({}, {Wrote(u, e, m) : m \in issued' \ issued})

LikeMessageAnswer(u, m) ==
  /\ LikeMessage(u, m)
  /\ Answers({}, {Liked(u, m)})

UnlikeMessageAnswer(u, m) ==
  /\ UnlikeMessage(u, m)
  /\ Answers({Liked(u, m)}, {})

------------------------------------------------------------------------------
\* The calls whose answer tells nothing that is recorded.
Silent(u) ==
  \/ \E c \in Calls : UpdateUser(c, u) \/ CreateEvent(c, u)
  \/ \E e \in Events : DeleteEvent(u, e)

\* The ids of a call are ids its client has seen.
SessionStarts(u) ==
  \/ CreateUserAnswer(u) \/ DeleteUserAnswer(u)
  \/ \E e \in Events \cap issued :
       \/ \E c \in Calls : JoinEventAnswer(c, u, e)
       \/ LeaveEventAnswer(u, e) \/ CreateMessageAnswer(u, e)
  \/ \E m \in Messages \cap issued : LikeMessageAnswer(u, m) \/ UnlikeMessageAnswer(u, m)
  \/ Silent(u) /\ UNCHANGED told

SessionContinues(c) ==
  \/ CreateEventAnswer(c) \/ JoinInsertAnswer(c)
  \/ (UpdateUserWrite(c) \/ StatementFails(c)) /\ UNCHANGED told

SessionNext ==
  \/ \E u \in Users : ~Busy(u) /\ SessionStarts(u)
  \/ \E c \in Calls : SessionContinues(c)

SessionSpec == SessionInit /\ [][SessionNext]_sessionVars

------------------------------------------------------------------------------
\* What the tables hold of the facts that were told.  An id is issued once, so
\* that an event or a message that was told of and is gone does not come back.

FactTypes ==
  {HasAccount(u) : u \in Users}
  \cup {Joined(u, e) : u \in Users, e \in Events}
  \cup {Left(u, e) : u \in Users, e \in Events}
  \cup {Wrote(u, e, m) : u \in Users, e \in Events, m \in Messages}
  \cup {Liked(u, m) : u \in Users, m \in Messages}

\* Who was told of an account has one.
AccountsTold == \A u \in Users : HasAccount(u) \in told => Account(u)

\* Who was told of a join attends, while there is an event.
JoinsTold ==
  \A u \in Users, e \in Events :
    Joined(u, e) \in told => e \in issued /\ (Exists(e) => Attending(e, u))

\* Who was told of a leave does not attend.
LeavesTold == \A u \in Users, e \in Events : Left(u, e) \in told => ~Attending(e, u)

\* A message that was told of has this event and this author, while there is an
\* event.
WritesTold ==
  \A u \in Users, e \in Events, m \in Messages :
    Wrote(u, e, m) \in told =>
      /\ e \in issued /\ m \in issued
      /\ Exists(e) => message[m] = [event |-> e, author |-> u]

\* A like that was told of is there, while there is a message.
LikesTold ==
  \A u \in Users, m \in Messages :
    Liked(u, m) \in told => m \in issued /\ (message[m] # NoRow => <<m, u>> \in likes)

\* The inductive invariant of SessionSpec, together with PatientInv.
ToldInv ==
  /\ told \subseteq FactTypes
  /\ AccountsTold /\ JoinsTold /\ LeavesTold /\ WritesTold /\ LikesTold

------------------------------------------------------------------------------
\* Properties

Listed(u, e) ==
  \A a \in UserEventsAnswers(u, Cardinality(Events)) : \E r \in a : r.event = e

\* What a client was told stays so until it calls again, whatever the calls of
\* others do in between, and its reads show it: the account it made, the event
\* it created or joined, among its own events while the event exists, and not
\* there once it has left; its messages in everybody's history while the event
\* exists, and its likes while the message does.
AnswersHold ==
  \A f \in told :
    CASE f.fact = "account" -> Account(f.user)
      [] f.fact = "joined" -> Exists(f.event) => Listed(f.user, f.event)
      [] f.fact = "left" -> ~Listed(f.user, f.event)
      [] f.fact = "wrote" ->
           Exists(f.event) =>
             \A u \in Users : \E r \in EventMessages(f.event, u) :
               r.message = f.message /\ r.sender = f.user
      [] f.fact = "liked" ->
           message[f.message] # NoRow =>
             \E r \in EventMessages(message[f.message].event, f.user) :
               r.message = f.message /\ r.liked
==============================================================================
