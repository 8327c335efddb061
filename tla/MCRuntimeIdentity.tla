---- MODULE MCRuntimeIdentity ----
EXTENDS RuntimeIdentity, TLC
CONSTANTS j1, j2, w1, w2, i1, i2
Symmetry == Permutations({j1, j2}) \cup Permutations({w1, w2}) \cup Permutations({i1, i2})
====
