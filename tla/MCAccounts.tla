----------------------------- MODULE MCAccounts -----------------------------
EXTENDS AccountProperties, TLC

Symmetry == Permutations(Requests) \cup Permutations(Tokens) \cup Permutations(Sessions)
=============================================================================
