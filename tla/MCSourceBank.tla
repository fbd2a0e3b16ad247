---- MODULE MCSourceBank ----
EXTENDS SourceBank, TLC
CONSTANTS t1, t2
Interchangeable == Permutations(Scanners)
====
