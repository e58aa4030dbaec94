------------------------------ MODULE MCMapPointers -----------------------------
\* Instances of MapPointers for TLC.
EXTENDS MapPointers, TLC

CONSTANTS t1, t2, p1, p2

Symmetry == Permutations({t1, t2}) \union Permutations({p1, p2})
================================================================================
