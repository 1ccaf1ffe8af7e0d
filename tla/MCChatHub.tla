------------------------------ MODULE MCChatHub ------------------------------
(***************************************************************************)
(* Instances of ChatHub for TLC.                                           *)
(***************************************************************************)
EXTENDS ChatHub, TLC

CONSTANTS k1, k2, elsewhere

\* Every id is in canonical form; the streams are on one event, and the messages
\* elsewhere on another.
MCKeys == {k1, k2}
MCCanon == [k \in MCKeys |-> k]
MCStreamKey == [s \in Streams |-> k1]
MCMessageKey == [m \in Messages |-> IF m \in elsewhere THEN k2 ELSE k1]

Symmetry == Permutations(Streams) \cup Permutations(Messages)

\* The state without the arrays that no header refers to.
View == <<reg, [a \in LiveArrays |-> heap[a]], writer, closed, streamVars,
          messageVars, queue, evict, cleaner, expired, crashed>>
==============================================================================
