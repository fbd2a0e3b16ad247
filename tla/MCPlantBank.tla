---- MODULE MCPlantBank ----
EXTENDS PlantBank, TLC
Interchangeable == Permutations(Threads)
====
