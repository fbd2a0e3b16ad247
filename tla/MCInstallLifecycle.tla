---- MODULE MCInstallLifecycle ----
EXTENDS InstallLifecycle, TLC
CONSTANTS c1, c2, e1
Interchangeable == Permutations(Callers)
====
