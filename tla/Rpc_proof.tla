------------------------------ MODULE Rpc_proof ------------------------------
(***************************************************************************)
(* Proofs about Rpc and Startup: that a serving process is prepared, and   *)
(* what the status codes say of the calls that got them, for any settings  *)
(* of the pool and any calls.                                              *)
(***************************************************************************)
EXTENDS Rpc, FiniteSetTheorems, TLAPS

------------------------------------------------------------------------------
\* Facts about the operators.

LEMMA ModBounds ==
  ASSUME NEW x \in Nat, NEW w \in Nat \ {0}
  PROVE  x % w \in Nat /\ x % w <= x
OBVIOUS

\* The cut to 32 bits makes no setting larger.
LEMMA Cut ==
  ASSUME NEW v \in Int
  PROVE  ToInt32(v) \in Int /\ (v \in Nat => ToInt32(v) <= v)
<1>1. Wrap \in Nat \ {0} /\ Wrap % 2 = 0
  BY StartupAssumption
<1> DEFINE half == Wrap \div 2
<1>2. half \in Nat
  BY <1>1
<1>3. (v + half) % Wrap \in Int
  BY <1>1, <1>2
<1>4. ASSUME v \in Nat PROVE (v + half) % Wrap <= v + half
  BY <1>1, <1>2, <1>4, ModBounds
<1> QED
  BY <1>2, <1>3, <1>4 DEF ToInt32

LEMMA StatementsCount ==
  ASSUME NEW m
  PROVE  Len(Statements(m)) \in Nat
<1>1. CASE m \in DOMAIN UserStatements
  BY <1>1 DEF Statements, UserStatements
<1>2. CASE m \notin DOMAIN UserStatements /\ m \in DOMAIN EventStatements
  BY <1>2 DEF Statements, EventStatements
<1>3. CASE /\ m \notin DOMAIN UserStatements /\ m \notin DOMAIN EventStatements
           /\ m \in DOMAIN ChatStatements
  BY <1>3 DEF Statements, ChatStatements
<1>4. CASE /\ m \notin DOMAIN UserStatements /\ m \notin DOMAIN EventStatements
           /\ m \notin DOMAIN ChatStatements
  BY <1>4 DEF Statements
<1> QED
  BY <1>1, <1>2, <1>3, <1>4

------------------------------------------------------------------------------
\* The inductive invariants: what is known of the process on its way to Serve,
\* and of each call at each place.

Loaded ==
  setting # Junk /\ pool = IF setting = Unset THEN DefaultConns ELSE ToInt32(setting)

StartInv ==
  /\ StartTypes
  /\ phase \in {"applying", "applied"} => version = "dirty"
  /\ phase = "applied" => tables
  /\ version = "clean" => tables
  /\ phase \in {"connecting", "keys", "listening", "serving"} => version = "clean"
  /\ phase \in {"keys", "listening", "serving"} => pool >= 1
  /\ phase \notin {"down", "loading"} => Loaded

\* Only calls with a valid token get past the interceptor, nothing runs before
\* that, and a connection is held only for a statement that is still to run.
Honest(c) ==
  /\ c \in busy => at[c] = "handling" /\ Left(c)
  /\ at[c] \in {"none", "arrived", "known"} => ran[c] = 0
  /\ at[c] \in {"known", "handling", "done", "live"} => request[c].user \in Users
  /\ at[c] \in {"done", "live"} => ~Left(c)
  /\ at[c] # "answered" => code[c] = "none"
  /\ ran[c] <= Len(Statements(Method(c)))
  /\ code[c] = "OK" => ~Left(c)
  /\ code[c] \in {"Unimplemented", "Unauthenticated", "InvalidArgument"} => ran[c] = 0
  /\ code[c] = "NotFound" => Method(c) = "GetMessages"
  /\ ran[c] > 0 => request[c].user \in Users

CallTypes ==
  /\ at \in [Calls -> Pending \cup {"none", "answered", "live", "lost"}]
  /\ request \in [Calls -> Requests \cup {NoRequest}]
  /\ code \in [Calls -> Codes]
  /\ ran \in [Calls -> Nat]
  /\ busy \subseteq Calls

Fits == busy # {} => Cardinality(busy) <= pool

\* No call is under way outside of a serving process.
Quiet == phase # "serving" => \A c \in Calls : at[c] \notin Pending \cup {"live"}

CallInv == CallTypes /\ Fits /\ Quiet /\ \A c \in Calls : Honest(c)

Inv == StartInv /\ CallInv

------------------------------------------------------------------------------
\* The process

LEMMA StartInitially == StartInit => StartInv
<1> SUFFICES ASSUME StartInit PROVE StartInv
  OBVIOUS
<1>1. tables \in BOOLEAN
  BY DEF StartInit
<1>2. StartTypes
  BY <1>1 DEF StartInit, StartTypes, Phases
<1> QED
  BY <1>2 DEF StartInit, StartInv

LEMMA StartStep ==
  ASSUME StartInv, Starting
  PROVE  StartInv'
<1> USE StartupAssumption DEF StartInv, StartTypes, Phases, Goes
<1>1. CASE Start
  BY <1>1 DEF Start, Loaded
<1>2. CASE LoadConfig
  <2>1. setting \in Settings => setting \in Int /\ ToInt32(setting) \in Int
    BY Cut
  <2> QED
    BY <1>2, <2>1 DEF LoadConfig, Loaded
<1>3. CASE RunMigrations
  BY <1>3 DEF RunMigrations, MigrateNothing, MigrateMark, MigrateApply, MigrateClean, Loaded
<1>4. CASE NewDB
  BY <1>4 DEF NewDB, Loaded
<1>5. CASE NewAuthService
  BY <1>5 DEF NewAuthService, Loaded
<1>6. CASE Serve
  BY <1>6 DEF Serve, Loaded
<1> QED
  BY <1>1, <1>2, <1>3, <1>4, <1>5, <1>6 DEF Starting

LEMMA StartDies ==
  ASSUME StartInv, Die
  PROVE  StartInv'
BY StartupAssumption DEF StartInv, StartTypes, Phases, Die, Loaded

LEMMA StartStays ==
  ASSUME StartInv, UNCHANGED startVars
  PROVE  StartInv'
BY DEF StartInv, StartTypes, startVars, Loaded

LEMMA StartInvPrepares == StartInv => Prepared
<1> SUFFICES ASSUME StartInv, phase = "serving", setting \in Nat
             PROVE  pool <= setting
  BY DEF StartInv, Prepared
<1>1. setting # Unset /\ pool = ToInt32(setting)
  BY StartupAssumption DEF StartInv, Loaded
<1> QED
  BY <1>1, Cut

------------------------------------------------------------------------------
\* The calls

LEMMA CallInitially == RpcInit => CallInv
<1> SUFFICES ASSUME RpcInit PROVE CallInv
  OBVIOUS
<1>1. \A c \in Calls : Len(Statements(Method(c))) \in Nat
  BY StatementsCount
<1> QED
  BY <1>1 DEF RpcInit, StartInit, CallInv, CallTypes, Fits, Quiet, Honest, Left, Pending,
            Codes

\* What a step of one call leaves alone is inherited by the others.
LEMMA OthersStay ==
  ASSUME CallInv, NEW c \in Calls, NEW d \in Calls, d # c,
         at'[d] = at[d], request'[d] = request[d], code'[d] = code[d], ran'[d] = ran[d],
         d \in busy' <=> d \in busy
  PROVE  Honest(d)'
BY DEF CallInv, Honest, Left, Method

LEMMA Releases ==
  ASSUME CallInv, pool' = pool, NEW c \in Calls, busy' = busy \ {c}, pool \in Int
  PROVE  Fits'
<1>1. IsFiniteSet(busy)
  BY RpcAssumption, FS_Subset DEF CallInv, CallTypes
<1>2. Cardinality(busy \ {c}) <= Cardinality(busy)
  BY <1>1, FS_Subset
<1>3. Cardinality(busy) \in Nat /\ Cardinality(busy \ {c}) \in Nat
  BY <1>1, FS_CardinalityType, FS_RemoveElement
<1> QED
  BY <1>2, <1>3 DEF CallInv, Fits

\* A call that goes from one place to another, or is answered, between its
\* statements.
LEMMA BetweenStatements ==
  ASSUME CallInv, NEW c \in Calls, phase = "serving", UNCHANGED <<startVars, request, ran, busy>>,
         NEW place \in Pending \cup {"answered", "live"}, NEW status \in Codes,
         at' = [at EXCEPT ![c] = place], code' = [code EXCEPT ![c] = status],
         c \notin busy,
         place \in {"arrived", "known"} => ran[c] = 0,
         place \in {"known", "handling", "done", "live"} => request[c].user \in Users,
         place \in {"done", "live"} => ~Left(c),
         place # "answered" => status = "none",
         status = "OK" => ~Left(c),
         status \in {"Unimplemented", "Unauthenticated", "InvalidArgument"} => ran[c] = 0,
         status = "NotFound" => Method(c) = "GetMessages"
  PROVE  CallInv'
<1>1. CallTypes'
  BY DEF CallInv, CallTypes
<1>2. Fits' /\ Quiet'
  BY DEF CallInv, Fits, Quiet, startVars
<1>3. Honest(c)'
  BY DEF CallInv, CallTypes, Honest, Left, Method, Pending
<1>4. ASSUME NEW d \in Calls, d # c PROVE Honest(d)'
  BY <1>4, OthersStay DEF CallInv, CallTypes
<1> QED
  BY <1>1, <1>2, <1>3, <1>4 DEF CallInv

LEMMA Serving ==
  ASSUME CallInv, NEW c \in Calls, at[c] \in Pending \cup {"live"}
  PROVE  phase = "serving"
BY DEF CallInv, Quiet

LEMMA ArriveKeeps ==
  ASSUME CallInv, NEW c \in Calls, Arrive(c)
  PROVE  CallInv'
<1>1. at[c] = "none" /\ phase = "serving"
  BY DEF Arrive, Moves
<1>2. PICK r \in Requests : request' = [request EXCEPT ![c] = r]
  BY DEF Arrive
<1>3. at' = [at EXCEPT ![c] = "arrived"] /\ UNCHANGED <<startVars, code, ran, busy>>
  BY DEF Arrive, Moves
<1>4. ran[c] = 0 /\ code[c] = "none" /\ c \notin busy
  BY <1>1 DEF CallInv, Honest
<1>5. CallTypes'
  BY <1>2, <1>3 DEF CallInv, CallTypes, Pending
<1>6. Fits' /\ Quiet'
  BY <1>1, <1>3 DEF CallInv, Fits, Quiet, startVars
<1>7. Honest(c)'
  <2>1. Len(Statements(Method(c)))' \in Nat
    BY StatementsCount
  <2> QED
    BY <1>3, <1>4, <2>1 DEF CallInv, CallTypes, Honest, Left
<1>8. ASSUME NEW d \in Calls, d # c PROVE Honest(d)'
  BY <1>2, <1>3, <1>8, OthersStay DEF CallInv, CallTypes
<1> QED
  BY <1>5, <1>6, <1>7, <1>8 DEF CallInv

\* Unknown, Garbled, Refuse, Stubbed, Invalid: no statement has run.
LEMMA RefusalsKeep ==
  ASSUME CallInv, NEW c \in Calls,
         Unknown(c) \/ Garbled(c) \/ Refuse(c) \/ Stubbed(c) \/ Invalid(c)
  PROVE  CallInv'
<1>1. at[c] \in {"arrived", "known"}
  BY DEF Unknown, Garbled, Refuse, AtInterceptor, Stubbed, Invalid
<1>2. phase = "serving" /\ ran[c] = 0 /\ c \notin busy
  BY <1>1, Serving DEF CallInv, Honest, Pending
<1>3. PICK status \in {"Unimplemented", "Unauthenticated", "InvalidArgument", "Internal"} :
        Answered(c, status) /\ UNCHANGED <<startVars, request, ran, busy>>
  BY DEF Unknown, Garbled, Refuse, Stubbed, Invalid
<1> QED
  BY <1>2, <1>3, BetweenStatements DEF Answered, Codes

LEMMA MovesKeep ==
  ASSUME CallInv, NEW c \in Calls, Authenticate(c) \/ Handle(c) \/ GoLive(c)
  PROVE  CallInv'
<1>1. at[c] \in {"arrived", "known", "done"}
  BY DEF Authenticate, Handle, GoLive, Moves
<1>2. phase = "serving" /\ c \notin busy /\ code[c] = "none"
  BY <1>1, Serving DEF CallInv, Honest, Pending
<1>3. code' = [code EXCEPT ![c] = "none"] /\ "none" \in Codes
  BY <1>2 DEF Authenticate, Handle, GoLive, CallInv, CallTypes, Codes
<1>4. CASE Authenticate(c)
  <2>1. ran[c] = 0
    BY <1>1, <1>4 DEF Authenticate, Moves, CallInv, Honest
  <2> QED
    BY <1>2, <1>3, <1>4, <2>1, BetweenStatements DEF Authenticate, Moves, Pending
<1>5. CASE Handle(c)
  <2>1. request[c].user \in Users
    BY <1>5 DEF Handle, Moves, CallInv, Honest
  <2> QED
    BY <1>2, <1>3, <1>5, <2>1, BetweenStatements DEF Handle, Moves, Pending
<1>6. CASE GoLive(c)
  <2>1. request[c].user \in Users /\ ~Left(c)
    BY <1>6 DEF GoLive, Moves, CallInv, Honest
  <2> QED
    BY <1>2, <1>3, <1>6, <2>1, BetweenStatements DEF GoLive, Moves
<1> QED
  BY <1>4, <1>5, <1>6

\* AcquireFails, Recovered, Answer, EndStream: the statements so far stay.
LEMMA AnswersKeep ==
  ASSUME CallInv, NEW c \in Calls,
         AcquireFails(c) \/ Recovered(c) \/ Answer(c) \/ EndStream(c)
  PROVE  CallInv'
<1>1. at[c] \in {"handling", "done", "live"} /\ c \notin busy
  BY DEF AcquireFails, Recovered, Answer, EndStream, CallInv, Honest
<1>2. phase = "serving"
  BY <1>1, Serving DEF Pending
<1>3. PICK status \in {"OK", "Internal", "NotFound", "Canceled"} :
        /\ Answered(c, status) /\ UNCHANGED <<startVars, request, ran, busy>>
        /\ status = "OK" => at[c] = "done"
        /\ status = "NotFound" => Method(c) = "GetMessages"
  BY DEF AcquireFails, Failure, Recovered, Answer, EndStream
<1>4. status = "OK" => ~Left(c)
  BY <1>3 DEF CallInv, Honest
<1> QED
  BY <1>1, <1>2, <1>3, <1>4, BetweenStatements DEF Answered, Codes

LEMMA AcquireKeeps ==
  ASSUME CallInv, NEW c \in Calls, Acquire(c), pool \in Int
  PROVE  CallInv'
<1>1. IsFiniteSet(busy)
  BY RpcAssumption, FS_Subset DEF CallInv, CallTypes
<1>2. Cardinality(busy \cup {c}) = Cardinality(busy) + 1 /\ Cardinality(busy) \in Nat
  BY <1>1, FS_AddElement, FS_CardinalityType DEF Acquire
<1>3. CallTypes' /\ Fits' /\ Quiet'
  BY <1>2 DEF Acquire, CallInv, CallTypes, Fits, Quiet, startVars
<1>4. Honest(c)'
  BY DEF Acquire, CallInv, Honest, Left, Method
<1>5. ASSUME NEW d \in Calls, d # c PROVE Honest(d)'
  BY <1>5, OthersStay DEF Acquire
<1> QED
  BY <1>3, <1>4, <1>5 DEF CallInv

LEMMA RunKeeps ==
  ASSUME CallInv, NEW c \in Calls, Run(c), pool \in Int
  PROVE  CallInv'
<1>1. at[c] = "handling" /\ c \in busy /\ phase = "serving"
  BY Serving DEF Run, Runs, Pending
<1>2. Left(c) /\ request[c].user \in Users /\ code[c] = "none"
  BY <1>1 DEF CallInv, Honest
<1>3. Fits'
  BY Releases DEF Run, startVars
<1>4. CallTypes' /\ Quiet'
  BY <1>1 DEF Run, Runs, CallInv, CallTypes, Quiet, Pending, startVars
<1>5. Honest(c)'
  <2>1. Len(Statements(Method(c))) \in Nat /\ ran[c] \in Nat
    BY StatementsCount DEF CallInv, CallTypes
  <2>2. ran'[c] = ran[c] + 1 /\ c \notin busy' /\ code'[c] = "none"
        /\ at'[c] = (IF LastStatement(c) THEN "done" ELSE "handling")
        /\ request' = request
    BY <1>1, <1>2 DEF Run, Runs, CallInv, CallTypes
  <2> QED
    BY <1>2, <2>1, <2>2 DEF Honest, Left, Method, LastStatement
<1>6. ASSUME NEW d \in Calls, d # c PROVE Honest(d)'
  BY <1>6, OthersStay DEF Run, Runs, CallInv, CallTypes
<1> QED
  BY <1>3, <1>4, <1>5, <1>6 DEF CallInv

LEMMA RunFailsKeeps ==
  ASSUME CallInv, NEW c \in Calls, RunFails(c), pool \in Int
  PROVE  CallInv'
<1>1. at[c] = "handling" /\ c \in busy /\ phase = "serving"
  BY Serving DEF RunFails, Pending
<1>2. Left(c) /\ request[c].user \in Users
  BY <1>1 DEF CallInv, Honest
<1>3. PICK n \in {0, 1} : ran' = [ran EXCEPT ![c] = @ + n]
  BY DEF RunFails
<1>4. PICK status \in {"Internal", "NotFound"} :
        Answered(c, status) /\ (status = "NotFound" => Method(c) = "GetMessages")
  BY DEF RunFails, Failure
<1>5. Fits'
  BY Releases DEF RunFails, startVars
<1>6. CallTypes' /\ Quiet'
  BY <1>1, <1>3, <1>4
     DEF RunFails, Answered, CallInv, CallTypes, Quiet, Pending, Codes, startVars
<1>7. Honest(c)'
  <2>1. Len(Statements(Method(c))) \in Nat /\ ran[c] \in Nat
    BY StatementsCount DEF CallInv, CallTypes
  <2>2. /\ ran'[c] = ran[c] + n /\ c \notin busy' /\ code'[c] = status
        /\ at'[c] = "answered" /\ request' = request
    BY <1>3, <1>4 DEF RunFails, Answered, CallInv, CallTypes
  <2> QED
    BY <1>2, <1>4, <2>1, <2>2 DEF Honest, Left, Method
<1>8. ASSUME NEW d \in Calls, d # c PROVE Honest(d)'
  BY <1>3, <1>4, <1>8, OthersStay DEF RunFails, Answered, CallInv, CallTypes
<1> QED
  BY <1>5, <1>6, <1>7, <1>8 DEF CallInv

\* The process ends: a statement that was under way may have taken effect.
LEMMA DropKeeps ==
  ASSUME CallInv, Drop
  PROVE  CallInv'
<1>1. PICK effects \in SUBSET {c \in busy : at[c] = "handling"} :
        ran' = [c \in Calls |-> IF c \in effects THEN ran[c] + 1 ELSE ran[c]]
  BY DEF Drop
<1>2. CallTypes' /\ Fits' /\ Quiet'
  BY <1>1 DEF Drop, CallInv, CallTypes, Fits, Quiet, Pending
<1>3. ASSUME NEW c \in Calls PROVE Honest(c)'
  <2>1. Len(Statements(Method(c))) \in Nat /\ ran[c] \in Nat
    BY StatementsCount DEF CallInv, CallTypes
  <2>2. /\ c \notin busy' /\ code' = code /\ request' = request
        /\ at'[c] = IF at[c] \in Pending \cup {"live"} THEN "lost" ELSE at[c]
    BY DEF Drop
  <2>3. CASE c \in effects
    <3>1. Left(c) /\ at[c] = "handling" /\ ran'[c] = ran[c] + 1
      BY <1>1, <2>3 DEF CallInv, Honest
    <3> QED
      BY <2>1, <2>2, <3>1 DEF CallInv, Honest, Left, Method, Pending
  <2>4. CASE c \notin effects
    <3>1. ran'[c] = ran[c]
      BY <1>1, <2>4
    <3> QED
      BY <2>1, <2>2, <3>1 DEF CallInv, Honest, Left, Method, Pending
  <2> QED
    BY <2>3, <2>4
<1> QED
  BY <1>2, <1>3 DEF CallInv

\* A process that starts has no calls.
LEMMA StartingKeeps ==
  ASSUME CallInv, Starting, UNCHANGED callVars
  PROVE  CallInv'
<1>1. phase # "serving"
  BY DEF Starting, Start, LoadConfig, RunMigrations, MigrateNothing, MigrateMark,
         MigrateApply, MigrateClean, NewDB, NewAuthService, Serve, Goes
<1>2. busy = {}
  BY <1>1 DEF CallInv, CallTypes, Quiet, Honest, Pending
<1> QED
  BY <1>1, <1>2 DEF callVars, CallInv, CallTypes, Fits, Quiet, Honest, Left, Method

------------------------------------------------------------------------------
LEMMA Initially == RpcInit => Inv
BY StartInitially, CallInitially DEF Inv, RpcInit

LEMMA StepKeeps ==
  ASSUME Inv, [RpcNext]_vars
  PROVE  Inv'
<1> USE DEF Inv
<1>1. pool \in Int
  BY DEF StartInv, StartTypes
<1>2. CASE Starting /\ UNCHANGED callVars
  BY <1>2, StartStep, StartingKeeps
<1>3. CASE Die /\ Drop
  BY <1>3, StartDies, DropKeeps
<1>4. ASSUME NEW c \in Calls, Arrive(c) \/ Acquire(c) \/ AcquireFails(c) \/ EndStream(c) \/ Step(c)
      PROVE  Inv'
  <2>1. UNCHANGED startVars
    BY <1>4 DEF Arrive, Acquire, AcquireFails, EndStream, Step, Unknown, Garbled, Interceptor,
                Authenticate, Refuse, Service, Stubbed, Invalid, Handle, Recovered, Answer,
                GoLive, Statement, Run, RunFails
  <2>2. CallInv'
    BY <1>1, <1>4, ArriveKeeps, AcquireKeeps, AnswersKeep, RefusalsKeep, MovesKeep, RunKeeps,
       RunFailsKeeps DEF Step, Interceptor, Service, Statement
  <2> QED
    BY <2>1, <2>2, StartStays
<1>5. CASE UNCHANGED vars
  <2>1. UNCHANGED startVars /\ UNCHANGED callVars
    BY <1>5 DEF vars
  <2>2. CallInv'
    BY <2>1 DEF callVars, startVars, CallInv, CallTypes, Fits, Quiet, Honest, Left, Method
  <2> QED
    BY <2>1, <2>2, StartStays
<1> QED
  BY <1>2, <1>3, <1>4, <1>5 DEF RpcNext

LEMMA Invariant == RpcSpec => []Inv
<1> QED
  BY Initially, StepKeeps, PTL DEF RpcSpec

\* The types, and: no more connections are held than the pool has, in any
\* execution, for any number of calls.
THEOREM CallsTyped == RpcSpec => []TypeOK
<1>1. Inv => TypeOK
  BY DEF Inv, StartInv, CallInv, CallTypes, Fits, TypeOK
<1> QED
  BY <1>1, Invariant, PTL

\* In every execution, with any settings and over any number of processes that
\* died at any step, a serving process has a complete schema, and a pool with
\* room that is no larger than a positive setting asks for.
THEOREM ServingPrepared == RpcSpec => []Prepared
<1>1. Inv => Prepared
  BY StartInvPrepares DEF Inv
<1> QED
  BY <1>1, Invariant, PTL

\* In every execution, for any calls of any users, a code tells its client the
\* truth about the statements of the call.
THEOREM AnswersHonest == RpcSpec => []AnswerHonest
<1>1. Inv => AnswerHonest
  BY DEF Inv, CallInv, Honest, AnswerHonest
<1> QED
  BY <1>1, Invariant, PTL
==============================================================================
