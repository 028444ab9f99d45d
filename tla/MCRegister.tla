----------------------------- MODULE MCRegister -----------------------------
\* A small instance of Register for TLC.
EXTENDS Register, TLC

Symmetry == Permutations(Slots)
=============================================================================
