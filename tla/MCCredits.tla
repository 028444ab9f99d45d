------------------------------ MODULE MCCredits ------------------------------
(* An instance of Credits for TLC: pools of one credit, a month of one tick. *)
EXTENDS Credits, TLC

CONSTANTS a, i1, i2, p1, p2

SmallAllocation == [plan \in Plans |-> 1]

\* Slots and isolates are interchangeable; no property names one of them.
Symmetry == Permutations(Reqs) \cup Permutations(Isolates)
=============================================================================
