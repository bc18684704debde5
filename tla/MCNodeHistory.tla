--------------------------- MODULE MCNodeHistory ---------------------------
EXTENDS NodeHistory, TLC

Symmetry == Permutations(Hashes \ {NilHash})
============================================================================
