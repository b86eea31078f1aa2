----------------------------- MODULE MCSessions -----------------------------
(***************************************************************************)
(* The instance of Sessions for TLC.                                       *)
(***************************************************************************)
EXTENDS Sessions, TLC

CONSTANTS u1, u2, r1, r2

\* Users, handlers and tokens are interchangeable.
SessionsSymmetry ==
    Permutations({u1, u2}) \cup Permutations({r1, r2}) \cup Permutations(Tokens)
=============================================================================
