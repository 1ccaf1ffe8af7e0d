------------------------------- MODULE MCStore -------------------------------
(***************************************************************************)
(* Instances of Store, with its queries and its sessions, for TLC.         *)
(***************************************************************************)
EXTENDS Sessions, Convert, TLC

CONSTANTS g1  \* the gender no event admits

MCAdmits == [e \in Events |-> Genders \ {g1}]

\* Without an event that tells them apart, genders are interchangeable.
MCNobody == [e \in Events |-> {}]

\* All events at one time and place: every order of the rows is possible.
MCLevel == [e \in Events |-> 0]

\* told is not part of the instances that follow Spec.
TablesSpec == SessionInit /\ [][Next /\ UNCHANGED told]_sessionVars

Symmetry == Permutations(Users) \cup Permutations(Events) \cup Permutations(Messages)
            \cup Permutations(Calls)

SessionSymmetry == Symmetry \cup Permutations(Genders)
==============================================================================
