-------------------------- MODULE MCOwnershipTable --------------------------
\* Small instances of OwnershipTable: every key hashes to slot 0, so that all
\* probe sequences collide and wrap around the whole table.
EXTENDS OwnershipTable, TLC

CONSTANTS t1, t2

MCThreads == {t1, t2}
MCHash    == [k \in Keys |-> 0]
MCSymmetry == Permutations(MCThreads)
=============================================================================
