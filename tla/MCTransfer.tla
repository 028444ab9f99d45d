----------------------------- MODULE MCTransfer -----------------------------
(* Instances of Transfer for TLC.                                           *)
EXTENDS Transfer, TLC

Symmetric == Permutations(Reqs) \cup Permutations(Bodies)
=============================================================================
