-------------------------------- MODULE MCRpc --------------------------------
(***************************************************************************)
(* An instance of Rpc for TLC.                                             *)
(***************************************************************************)
EXTENDS Rpc, TLC

CONSTANTS c1, c2

\* One call for any method, beside one that stays open or needs two connections.
MCOffered == (c1 :> Methods) @@ (c2 :> {"StreamMessages", "CreateEvent"})

\* With Wrap = 8 an int32 is in -4 .. 3: 6 and -6 change their sign, 9 is 1.
MCSettings == {-6, 0, 1, 6, 9}
==============================================================================
