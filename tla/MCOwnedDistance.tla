---------------------------- MODULE MCOwnedDistance ----------------------------
\* Small instances of OwnedDistance: two wrappers over two entities.
EXTENDS OwnedDistance, TLC

CONSTANTS t1, t2, w1, w2, e1, e2

MCSymmetry ==
  Permutations({t1, t2}) \cup Permutations({w1, w2}) \cup Permutations({e1, e2})
=============================================================================
