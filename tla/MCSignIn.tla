------------------------------ MODULE MCSignIn ------------------------------
(* Instances of SignIn for TLC.                                             *)
EXTENDS SignIn, TLC

CONSTANTS a1, a2, t1, t2, s1, s2, q1, q2, k1

\* Ids are interchangeable; the action properties quantify over all of them.
Symmetry ==
  UNION {Permutations(S) : S \in {Addresses, Tokens, Sessions, Reqs}}
=============================================================================
