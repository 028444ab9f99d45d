----------------------------- MODULE MCInitiate -----------------------------
(* Instances of Initiate for TLC: two sessions of one transfer, one of      *)
(* another.                                                                 *)
EXTENDS Initiate, TLC

CONSTANTS p1, p2, u1, u2, s1, s2, s3, c1, c2

OneChunk == [s \in Sessions |-> 1]
Transfers == (s1 :> u1) @@ (s2 :> u1) @@ (s3 :> u2)

\* Slots and credentials are interchangeable, and the run checks invariants only.
Symmetry == Permutations(Reqs) \cup Permutations(Serials)
=============================================================================
