-------------------------- MODULE MCStartupInstall --------------------------
\* Two game threads, one of them created while the worker runs; capacity and
\* provider requested, or the generator; one file stands for the three.
EXTENDS StartupInstall

CONSTANTS main, late

MCRequests == {{"capacity", "provider"}, {"generator"}}
=============================================================================
