----------------------------- MODULE MCEventRing -----------------------------
\* Small instances of EventRing: two slots, positions that wrap during the run.
EXTENDS EventRing, TLC

CONSTANTS p1, p2, c1, c2

MCSymmetry == Permutations({p1, p2}) \cup Permutations({c1, c2})
=============================================================================
