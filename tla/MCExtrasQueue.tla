---- MODULE MCExtrasQueue ----
EXTENDS ExtrasQueue
CONSTANTS pa, pb
\* Requests 1 and 4 grow on the same provider; 3 is the nearest.
MCProvider == <<pa, pb, pb, pa>>
MCDistance == <<4, 3, 1, 2>>
====
