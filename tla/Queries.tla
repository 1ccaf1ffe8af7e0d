------------------------------- MODULE Queries -------------------------------
(***************************************************************************)
(* The statements of sql/queries that only read, over the tables of Store, *)
(* and the answers the services make of their rows.                        *)
(*                                                                         *)
(* A query is evaluated the way its text says: joins first, then groups and*)
(* counts.  An outer join that finds no row yields NoRow, which COUNT of a *)
(* column does not count.  ORDER BY and LIMIT leave a choice among rows of *)
(* equal keys, so a limited query has a set of possible answers.           *)
(*                                                                         *)
(* The columns of an event that no call changes after CreateEvent are      *)
(* constants; its status stays 'upcoming', since no call reaches           *)
(* UpdateEvent.                                                            *)
(***************************************************************************)
EXTENDS Store, FiniteSets

CONSTANTS
  Admits,    \* the genders whose allow_ column is true, by event
  Datetime,  \* the datetime column of events
  Distance   \* metres from the place a search is made from, by event

\* The CASE of GetNearbyEventsByStatus has no branch for one of the genders:
\* it is in no Admits set.  Ids have 16 bytes, so there are finitely many.
ASSUME QueriesAssumption ==
  /\ IsFiniteSet(Users) /\ IsFiniteSet(Events) /\ IsFiniteSet(Messages)
  /\ NoRow \notin Messages
  /\ Admits \in [Events -> SUBSET Genders]
  /\ Genders = {} \/ \E g \in Genders : \A e \in Events : g \notin Admits[e]
  /\ Datetime \in [Events -> Nat]
  /\ Distance \in [Events -> Nat]

Comments(e) == {m \in Messages : message[m] # NoRow /\ message[m].event = e}

Attendees(e) == {u \in Users : Attending(e, u)}

Likers(m) == {u \in Users : <<m, u>> \in likes}

LeftJoin(rows) == IF rows = {} THEN {NoRow} ELSE rows

\* COUNT(column)
Count(rows, i) == Cardinality({r \in rows : r[i] # NoRow})

\* COUNT(DISTINCT column)
CountDistinct(rows, i) == Cardinality({r[i] : r \in rows} \ {NoRow})

\* The possible answers under LIMIT n and an ORDER BY that puts r first or leaves
\* it level with q when before(r, q).
Limited(rows, before(_, _), n) ==
  {s \in SUBSET rows :
     /\ Cardinality(s) = IF n < Cardinality(rows) THEN n ELSE Cardinality(rows)
     /\ \A r \in s, q \in rows \ s : before(r, q)}

------------------------------------------------------------------------------
\* Events

Row(e, comments, attendees) == [event |-> e, comments |-> comments, attendees |-> attendees]

\* Mutant: COUNT without DISTINCT.
EventByIDProduct(e) ==
  LET rows == LeftJoin(Comments(e)) \X LeftJoin(Attendees(e)) IN
  Row(e, Count(rows, 1), Count(rows, 2))

\* The messages and the attendees of the event are joined with each other.
EventByID(e) ==
  LET rows == LeftJoin(Comments(e)) \X LeftJoin(Attendees(e)) IN
  Row(e, CountDistinct(rows, 1), CountDistinct(rows, 2))

\* The counts are made by sub-selects over one table each.
UserEvents(u) ==
  {Row(e, Cardinality(Comments(e)), Cardinality(Attendees(e))) :
     e \in {f \in Events : u \in Attendees(f)}}

\* convertGetUserEventsResponseToEvent copies no number of comments.
UserEventsAnswers(u, n) ==
  Limited({[r EXCEPT !.comments = 0] : r \in UserEvents(u)},
          LAMBDA r, q : Datetime[r.event] >= Datetime[q.event], n)

\* What u is shown: the events that admit the gender of the account.  Nobody
\* without an account is shown any.
Shown(u) == {e \in Events : Exists(e) /\ Account(u) /\ gender[u] \in Admits[e]}

NearbyRow(e) ==
  LET rows == {e} \X LeftJoin(Attendees(e)) IN Row(e, 0, CountDistinct(rows, 2))

NearbyAnswers(u, status, radius, n) ==
  Limited({NearbyRow(e) : e \in {f \in Shown(u) : status = "upcoming" /\ Distance[f] <= radius}},
          LAMBDA r, q : Distance[r.event] <= Distance[q.event], n)

------------------------------------------------------------------------------
\* Messages

MessageRow(m, u, count) ==
  [message |-> m, sender |-> message[m].author, likes |-> count, liked |-> u \in Likers(m)]

\* Mutant: JOIN message_likes.
EventMessagesInner(e, u) ==
  LET rows == UNION {{m} \X Likers(m) : m \in Comments(e)} IN
  {MessageRow(m, u, Count({r \in rows : r[1] = m}, 2)) : m \in {r[1] : r \in rows}}

\* GetEventMessages for the caller u, grouped by message.
EventMessages(e, u) ==
  LET rows == UNION {{m} \X LeftJoin(Likers(m)) : m \in Comments(e)} IN
  {MessageRow(m, u, Count({r \in rows : r[1] = m}, 2)) : m \in {r[1] : r \in rows}}

------------------------------------------------------------------------------
\* Properties

\* Every statement counts an attendee and a message once, although one of them
\* joins both tables of an event with each other: whatever is cut off by a
\* limit, the answers give an event one number of attendees in a search, in a
\* user's list and on its page, and its page as many comments as its history has
\* messages.  The search and the list are not asked for comments: their
\* converters leave the number out, and what they answer says 0.
CountsAgree ==
  \A u \in Users :
    /\ \A n \in 0 .. Cardinality(Events) :
         \A rows \in NearbyAnswers(u, "upcoming", 0, n) \cup UserEventsAnswers(u, n) :
           \A r \in rows : r.attendees = EventByID(r.event).attendees
    /\ \A e \in Events :
         Exists(e) => EventByID(e).comments = Cardinality(EventMessages(e, u))

\* The history of an event tells each caller of every message of it, once,
\* liked or not, with the number of its likes: the join with the likes neither
\* drops nor repeats a message.
HistoryComplete ==
  \A e \in Events, u \in Users :
    EventMessages(e, u) = {MessageRow(m, u, Cardinality(Likers(m))) : m \in Comments(e)}
==============================================================================
