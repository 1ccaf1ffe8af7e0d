--------------------------------- MODULE Rpc ---------------------------------
(***************************************************************************)
(* The calls of a serving process: from the generated handler through the  *)
(* interceptors (AuthInterceptor, then recovery) and the method of the     *)
(* service to the statements of its repository, each of which takes a      *)
(* connection of the pool and gives it back, and to the answer.            *)
(*                                                                         *)
(* A statement is one step of the database here, and it has an effect or   *)
(* it has none; Store and Queries tell what the effect is, AuthKeys how a  *)
(* token is verified, ChatHub what becomes of a broadcast and of a stream  *)
(* that went live.                                                         *)
(***************************************************************************)
EXTENDS Startup, Sequences, FiniteSets

CONSTANTS
  Calls,    \* calls a client makes, whatever process answers them
  Offered,  \* the methods a call may be for
  Users,    \* subjects of valid tokens
  NoUser    \* a call without a token, or with one that VerifyToken refuses

ASSUME RpcAssumption == IsFiniteSet(Calls) /\ NoUser \notin Users

VARIABLES
  at,       \* where each call stands
  request,  \* the request of each call
  code,     \* the status code of the answer
  ran,      \* how many statements of the call took effect
  busy      \* the calls that hold a connection

callVars == <<at, request, code, ran, busy>>
vars == <<startVars, callVars>>

------------------------------------------------------------------------------
\* The service descriptions and what implements them.

UserStatements ==
  [CreateUser |-> <<"createUser">>,
   UpdateUser |-> <<"getUserByID", "updateUser">>,
   GetUser |-> <<"getUserByID">>,
   DeleteUser |-> <<"deleteUser">>]

EventStatements ==
  [CreateEvent |-> <<"createEvent", "joinEvent">>,
   GetEventByID |-> <<"getEventByID">>,
   GetNearbyEvents |-> <<"getNearbyEventsByStatus">>,
   GetUserEvents |-> <<"getUserEvents">>,
   JoinEvent |-> <<"joinEvent">>,
   LeaveEvent |-> <<"leaveEvent">>,
   DeleteEvent |-> <<"deleteEvent">>]

ChatStatements ==
  [CreateMessage |-> <<"createChatMessage">>,
   GetMessages |-> <<"getEventMessages">>,
   LikeMessage |-> <<"likeMessage">>,
   UnlikeMessage |-> <<"unlikeMessage">>,
   StreamMessages |-> <<"getEventMessages">>]

UserMethods == {"CreateUser", "UpdateUser", "GetUser", "DeleteUser"}

EventMethods ==
  {"CreateEvent", "GetEventByID", "GetNearbyEvents", "GetUserEvents", "JoinEvent",
   "LeaveEvent", "UpdateEvent", "DeleteEvent", "GetEventAttendeeStats"}

ChatUnary == {"CreateMessage", "GetMessages", "LikeMessage", "UnlikeMessage", "DeleteMessage"}

Unary == UserMethods \cup EventMethods \cup ChatUnary

\* The services registered by main.  A health service is not among them.
Registered == Unary \cup {"StreamMessages"}

Methods == Registered \cup {"Health"}

\* What only the embedded Unimplemented server answers; the chat service calls
\* its method DeleteMesssage.
Stubs == {"UpdateEvent", "GetEventAttendeeStats", "DeleteMessage"}

\* The methods that look at the fields of their request.
Validating ==
  {"GetEventByID", "GetNearbyEvents", "CreateEvent", "CreateMessage", "GetMessages",
   "LikeMessage", "UnlikeMessage", "StreamMessages"}

Statements(m) ==
  CASE m \in DOMAIN UserStatements -> UserStatements[m]
    [] m \in DOMAIN EventStatements -> EventStatements[m]
    [] m \in DOMAIN ChatStatements -> ChatStatements[m]
    [] OTHER -> <<>>

\* The code for a repository's error.
Failure(m) == IF m = "GetMessages" THEN "NotFound" ELSE "Internal"

\* body: the request decodes and has what the method asks for, lacks some of
\* it, or does not decode.
Requests ==
  [method : Methods, user : Users \cup {NoUser}, body : {"full", "lacking", "garbled"}]

------------------------------------------------------------------------------
NoRequest == [method |-> "none", user |-> NoUser, body |-> "garbled"]

RpcInit ==
  /\ StartInit
  /\ at = [c \in Calls |-> "none"]
  /\ request = [c \in Calls |-> NoRequest]
  /\ code = [c \in Calls |-> "none"]
  /\ ran = [c \in Calls |-> 0]
  /\ busy = {}

Method(c) == request[c].method

Moves(c, from, to) == at[c] = from /\ at' = [at EXCEPT ![c] = to]

Answered(c, status) ==
  /\ at' = [at EXCEPT ![c] = "answered"]
  /\ code' = [code EXCEPT ![c] = status]

Pending == {"arrived", "known", "handling", "done"}

\* More statements to run.
Left(c) == ran[c] < Len(Statements(Method(c)))

LastStatement(c) == ran[c] + 1 = Len(Statements(Method(c)))

------------------------------------------------------------------------------
\* grpc.Server and the generated handlers

Arrive(c) ==
  /\ phase = "serving"
  /\ Moves(c, "none", "arrived")
  /\ \E r \in Requests : r.method \in Offered[c] /\ request' = [request EXCEPT ![c] = r]
  /\ UNCHANGED <<startVars, code, ran, busy>>

Unknown(c) ==
  /\ at[c] = "arrived"
  /\ Method(c) \notin Registered
  /\ Answered(c, "Unimplemented")
  /\ UNCHANGED <<startVars, request, ran, busy>>

\* A unary handler decodes the request before the interceptors run, a stream
\* handler after them.
Garbled(c) ==
  /\ request[c].body = "garbled"
  /\ \/ at[c] = "arrived" /\ Method(c) \in Unary
     \/ at[c] = "known" /\ Method(c) = "StreamMessages"
  /\ Answered(c, "Internal")
  /\ UNCHANGED <<startVars, request, ran, busy>>

------------------------------------------------------------------------------
\* AuthInterceptor, which is outside of the recovery

AtInterceptor(c) ==
  /\ at[c] = "arrived"
  /\ Method(c) \in Registered
  /\ Method(c) \in Unary => request[c].body # "garbled"

Authenticate(c) ==
  /\ AtInterceptor(c)
  /\ request[c].user \in Users
  /\ Moves(c, "arrived", "known")
  /\ UNCHANGED <<startVars, request, code, ran, busy>>

\* A valid token is refused too when its key cannot be fetched.
Refuse(c) ==
  /\ AtInterceptor(c)
  /\ Answered(c, "Unauthenticated")
  /\ UNCHANGED <<startVars, request, ran, busy>>

------------------------------------------------------------------------------
\* The methods of the services

Stubbed(c) ==
  /\ at[c] = "known"
  /\ Method(c) \in Stubs
  /\ Answered(c, "Unimplemented")
  /\ UNCHANGED <<startVars, request, ran, busy>>

Invalid(c) ==
  /\ at[c] = "known"
  /\ Method(c) \in Validating
  /\ request[c].body = "lacking"
  /\ Answered(c, "InvalidArgument")
  /\ UNCHANGED <<startVars, request, ran, busy>>

Handle(c) ==
  /\ Method(c) \notin Stubs
  /\ request[c].body = "full" \/ (request[c].body = "lacking" /\ Method(c) \notin Validating)
  /\ Moves(c, "known", "handling")
  /\ UNCHANGED <<startVars, request, code, ran, busy>>

\* Mutant: one connection more.
AcquireOver(c) ==
  /\ at[c] = "handling" /\ c \notin busy
  /\ Left(c)
  /\ Cardinality(busy) <= pool
  /\ busy' = busy \cup {c}
  /\ UNCHANGED <<startVars, at, request, code, ran>>

\* A free connection, or a new one while the pool is not full.
Acquire(c) ==
  /\ at[c] = "handling" /\ c \notin busy
  /\ Left(c)
  /\ Cardinality(busy) < pool
  /\ busy' = busy \cup {c}
  /\ UNCHANGED <<startVars, at, request, code, ran>>

\* No connection to the database, or the context of the call ends in the queue.
AcquireFails(c) ==
  /\ at[c] = "handling" /\ c \notin busy
  /\ Left(c)
  /\ Answered(c, Failure(Method(c)))
  /\ UNCHANGED <<startVars, request, ran, busy>>

Runs(c) ==
  /\ at[c] = "handling" /\ c \in busy
  /\ ran' = [ran EXCEPT ![c] = @ + 1]

\* Mutant: the rows of the history are closed when the stream ends.
RunOpenRows(c) ==
  /\ Runs(c)
  /\ at' = [at EXCEPT ![c] = IF LastStatement(c) THEN "done" ELSE @]
  /\ busy' = IF Method(c) = "StreamMessages" THEN busy ELSE busy \ {c}
  /\ UNCHANGED <<startVars, request, code>>

\* Exec, QueryRow with Scan, or Query with its rows read to the end: each gives
\* the connection back.
Run(c) ==
  /\ Runs(c)
  /\ at' = [at EXCEPT ![c] = IF LastStatement(c) THEN "done" ELSE @]
  /\ busy' = busy \ {c}
  /\ UNCHANGED <<startVars, request, code>>

\* Mutant: the error of the join in CreateEvent is not returned.
RunFailsUnchecked(c) ==
  /\ at[c] = "handling" /\ c \in busy
  /\ \E n \in {0, 1} : ran' = [ran EXCEPT ![c] = @ + n]
  /\ Answered(c, IF ran[c] = 1 /\ Method(c) = "CreateEvent" THEN "OK" ELSE Failure(Method(c)))
  /\ busy' = busy \ {c}
  /\ UNCHANGED <<startVars, request>>

\* The statement is refused, or the connection or the context of the call ends
\* while it is under way: then it may have taken effect.
RunFails(c) ==
  /\ at[c] = "handling" /\ c \in busy
  /\ \E n \in {0, 1} : ran' = [ran EXCEPT ![c] = @ + n]
  /\ Answered(c, Failure(Method(c)))
  /\ busy' = busy \ {c}
  /\ UNCHANGED <<startVars, request>>

\* grpcPanicRecoveryHandler: the broadcast of CreateMessage panicked.
Recovered(c) ==
  /\ at[c] = "done"
  /\ Method(c) = "CreateMessage"
  /\ Answered(c, "Internal")
  /\ UNCHANGED <<startVars, request, ran, busy>>

Answer(c) ==
  /\ at[c] = "done"
  /\ Method(c) \in Unary
  /\ Answered(c, "OK")
  /\ UNCHANGED <<startVars, request, ran, busy>>

GoLive(c) ==
  /\ Method(c) = "StreamMessages"
  /\ Moves(c, "done", "live")
  /\ UNCHANGED <<startVars, request, code, ran, busy>>

\* The client or the hub ends the stream, or a Send fails, or the deferred
\* removal panics.
EndStream(c) ==
  /\ at[c] = "live"
  /\ \E status \in {"Canceled", "Internal"} : Answered(c, status)
  /\ UNCHANGED <<startVars, request, ran, busy>>

------------------------------------------------------------------------------
\* Nothing is shut down in order: the calls get no answer, and the statements
\* under way take effect or not.
Drop ==
  /\ at' = [c \in Calls |-> IF at[c] \in Pending \cup {"live"} THEN "lost" ELSE at[c]]
  /\ \E effects \in SUBSET {c \in busy : at[c] = "handling"} :
       ran' = [c \in Calls |-> IF c \in effects THEN ran[c] + 1 ELSE ran[c]]
  /\ busy' = {}
  /\ UNCHANGED <<request, code>>

Interceptor(c) == Authenticate(c) \/ Refuse(c)

Service(c) ==
  Stubbed(c) \/ Invalid(c) \/ Handle(c) \/ Recovered(c) \/ Answer(c) \/ GoLive(c)

Statement(c) == Run(c) \/ RunFails(c)

Step(c) == Unknown(c) \/ Garbled(c) \/ Interceptor(c) \/ Service(c) \/ Statement(c)

RpcNext ==
  \/ Starting /\ UNCHANGED callVars
  \/ Die /\ Drop
  \/ \E c \in Calls : Arrive(c) \/ Acquire(c) \/ AcquireFails(c) \/ EndStream(c) \/ Step(c)

RpcSpec == RpcInit /\ [][RpcNext]_vars

\* Handlers run, the network and the database answer or the connection breaks,
\* and the pool lets its callers in one after the other.  Nobody has to start
\* the process, call it, or end a stream.
RpcFairSpec ==
  /\ RpcSpec
  /\ \A c \in Calls : WF_vars(Step(c)) /\ SF_vars(Acquire(c))

------------------------------------------------------------------------------
\* Properties

Codes == {"none", "OK", "Unimplemented", "Internal", "Unauthenticated", "InvalidArgument",
          "NotFound", "Canceled"}

\* The types of the variables; no more connections are held than the pool has.
TypeOK ==
  /\ StartTypes
  /\ at \in [Calls -> Pending \cup {"none", "answered", "live", "lost"}]
  /\ request \in [Calls -> Requests \cup {NoRequest}]
  /\ code \in [Calls -> Codes]
  /\ ran \in [Calls -> Nat]
  /\ busy \subseteq Calls
  /\ busy # {} => Cardinality(busy) <= pool

\* What a client may conclude from the code of an answer, over failing
\* statements, panics and restarts: after OK everything was done, each
\* statement once; after a refusal nothing was, so that it can be repeated; a
\* NotFound comes from a call that changes nothing; and nothing was done for
\* anybody without a valid token.
AnswerHonest ==
  \A c \in Calls :
    /\ ran[c] <= Len(Statements(Method(c)))
    /\ code[c] = "OK" => ~Left(c)
    /\ code[c] \in {"Unimplemented", "Unauthenticated", "InvalidArgument"} => ran[c] = 0
    /\ code[c] = "NotFound" => Method(c) = "GetMessages"
    /\ ran[c] > 0 => request[c].user \in Users

\* Every call is answered, unless its process ends: no stream that stays open
\* and no call between two statements keeps a connection another call waits for.
CallsAnswered ==
  \A c \in Calls : (at[c] = "arrived") ~> (at[c] \in {"answered", "live", "lost"})
==============================================================================
