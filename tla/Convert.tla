------------------------------- MODULE Convert -------------------------------
(***************************************************************************)
(* The conversions between the messages of proto and the columns of the    *)
(* database: ids (convertUUID) and the values of the five enum types, whose *)
(* numbers are those of internal/gen/proto and whose names are those of    *)
(* internal/gen/sqlc/models.go.  A table lists the cases of its switch, and *)
(* whatever has no case is converted by the default branch.                *)
(***************************************************************************)
EXTENDS Store, Sequences

CONSTANTS
  IdLen,  \* bytes of a UUID (16 in the code)
  Bytes   \* values of a byte

ASSUME ConvertAssumption == IdLen \in Nat \ {0} /\ 0 \in Bytes

------------------------------------------------------------------------------
\* Ids

Ids == [1 .. IdLen -> Bytes]

\* Mutant: copy(bytes[1:], uuid).
ConvertShifted(b) == [i \in 1 .. IdLen |-> IF i > 1 /\ i - 1 <= Len(b) THEN b[i - 1] ELSE 0]

\* copy into a zeroed array: what is too long is cut, what is too short padded.
ConvertUUID(b) == [i \in 1 .. IdLen |-> IF i <= Len(b) THEN b[i] ELSE 0]

------------------------------------------------------------------------------
\* Enums

\* The name a table has for the number n of a request.
ToSQL(table, n) == IF n \in 1 .. Len(table) THEN table[n] ELSE "unspecified"

\* The number a table has for the name s of a row.
ToPB(table, s) == IF s \in DOMAIN table THEN table[s] ELSE 0

CategoryToSQL ==
  <<"sports", "musicAndMovies", "art", "foodAndDrinks", "partyAndGames", "business",
    "nature", "technology", "travel", "education", "charity", "other">>

CategoryToPB ==
  [art |-> 3, sports |-> 1, musicAndMovies |-> 2, foodAndDrinks |-> 4,
   partyAndGames |-> 5, business |-> 6, nature |-> 7, technology |-> 8, travel |-> 9,
   education |-> 10, charity |-> 11, other |-> 12]

StatusToSQL == <<"upcoming", "ongoing", "completed", "cancelled", "rescheduled">>

\* Mutant: the numbers follow the order of the type in the migration.
StatusToPBShifted ==
  [upcoming |-> 1, ongoing |-> 2, completed |-> 3, rescheduled |-> 4, cancelled |-> 5]

StatusToPB ==
  [upcoming |-> 1, ongoing |-> 2, cancelled |-> 4, completed |-> 3, rescheduled |-> 5]

GenderToSQL == <<"male", "female", "diverse">>

GenderToPB == [male |-> 1, female |-> 2, diverse |-> 3]

TypeToSQL == <<"text", "location">>

TypeToPB == [text |-> 1, location |-> 2]

MessageStatusToSQL == <<"sent", "deleted", "edited">>

MessageStatusToPB == [sent |-> 1, deleted |-> 2, edited |-> 3]

\* The labels of each enum type, which a row is scanned into as they are.
CategoryLabels ==
  {"unspecified", "sports", "musicAndMovies", "art", "foodAndDrinks", "partyAndGames",
   "business", "nature", "technology", "travel", "education", "charity", "other"}

StatusLabels ==
  {"unspecified", "upcoming", "ongoing", "completed", "rescheduled", "cancelled"}

GenderLabels == {"unspecified", "male", "female", "diverse"}

TypeLabels == {"unspecified", "text", "location"}

MessageStatusLabels == {"unspecified", "sent", "deleted", "edited"}

------------------------------------------------------------------------------
\* Properties

\* The rows among those with these ids that WHERE event_id = $1 finds for the
\* bytes of a request.
Found(id, b) == {e \in DOMAIN id : id[e] = ConvertUUID(b)}

\* Whatever ids the events of the table have, an id in an answer, sent back in a
\* request, finds its event and no other; and bytes of any other length name
\* what the id they are cut or padded to names (the registry of the chat hub
\* relies on it, and the subject of a token is longer than an id).
IdsReturn ==
  LET rows == {e \in Events : Exists(e)} IN
  \A id \in [rows -> Ids] :
    (\A d, e \in rows : id[d] = id[e] => d = e)
    => /\ \A e \in rows : Found(id, id[e]) = {e}
       /\ \A n \in 0 .. IdLen + 1 : \A b \in [1 .. n -> Bytes] :
            Found(id, ConvertUUID(b)) = Found(id, b)

\* Every label of a type survives the way to a client and back, and every
\* number of a request, a label unknown to this server included, becomes a
\* label its column accepts.
Converts(labels, toSQL, toPB) ==
  /\ \A s \in labels : ToSQL(toSQL, ToPB(toPB, s)) = s
  /\ \A n \in 0 .. Len(toSQL) + 1 : ToSQL(toSQL, n) \in labels

\* Whatever a row of the tables has in its enum columns.
EnumsReturn ==
  /\ \A u \in Users : Account(u) => Converts(GenderLabels, GenderToSQL, GenderToPB)
  /\ \A e \in Events : Exists(e) =>
       /\ Converts(CategoryLabels, CategoryToSQL, CategoryToPB)
       /\ Converts(StatusLabels, StatusToSQL, StatusToPB)
  /\ \A m \in Messages : message[m] # NoRow =>
       /\ Converts(TypeLabels, TypeToSQL, TypeToPB)
       /\ Converts(MessageStatusLabels, MessageStatusToSQL, MessageStatusToPB)
==============================================================================
