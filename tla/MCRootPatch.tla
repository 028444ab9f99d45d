----------------------------- MODULE MCRootPatch ----------------------------
(* An instance of RootPatch for TLC.                                        *)
EXTENDS RootPatch, TLC

Symmetric == Permutations(Reqs) \cup Permutations(Bodies)
=============================================================================
