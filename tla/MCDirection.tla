----------------------------- MODULE MCDirection -----------------------------
EXTENDS Direction, TLC

CONSTANTS d1, d2, d3, r1, r2

Symmetry == Permutations({d1, d2, d3}) \cup Permutations({r1, r2})
=============================================================================
