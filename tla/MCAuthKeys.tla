----------------------------- MODULE MCAuthKeys -----------------------------
(***************************************************************************)
(* Instances of AuthKeys for TLC.                                          *)
(***************************************************************************)
EXTENDS AuthKeys

CONSTANTS k1, k2, k3, enc, bad

\* A key joins, behind an encryption key; the first one is withdrawn, and a
\* third joins behind a broken one, where no refresh gets to it; no signing key
\* is left.
MCJWKS == << <<k1>>, <<enc, k1, k2>>, <<k2, bad, k3>>, <<enc>> >>
==============================================================================
