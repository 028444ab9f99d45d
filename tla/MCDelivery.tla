----------------------------- MODULE MCDelivery -----------------------------
(* Instances of Delivery for TLC.                                           *)
EXTENDS Delivery, TLC

CONSTANTS k1, k2, c1

\* Tasks are interchangeable, and the run checks invariants only.
Symmetry == Permutations(Tasks)
=============================================================================
