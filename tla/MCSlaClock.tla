---------------------------- MODULE MCSlaClock -----------------------------
EXTENDS SlaProperties, TLC

Symmetry == Permutations(Requests)
============================================================================
