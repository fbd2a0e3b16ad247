------------------------------ MODULE MCParts ------------------------------
\* The installation's real numbers of stubs, sites and patches; the features
\* of the extras in two lots; a grid definition, a random one and one that is
\* not scaled, with and without a multiplier; four providers where the engine
\* knows two; one generator record of the engine and three extra ones; two
\* threads that fault, and a hang after two missed probes.
EXTENDS Parts

CONSTANTS grid, random, other

MCSelections == {{grid, random}, {}}
MCAsked == {{"matrix", "reflections"}, {"queue", "drawable", "cache"}, {}}
=============================================================================
