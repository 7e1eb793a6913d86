------------------------------ MODULE MCCoverage ------------------------------
EXTENDS Coverage, TLC

CONSTANTS e1, e2, r1, r2, s1, s2

Symmetry == Permutations({e1, e2}) \cup Permutations({r1, r2}) \cup Permutations({s1, s2})
=============================================================================
