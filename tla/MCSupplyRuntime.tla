--------------------------- MODULE MCSupplyRuntime ---------------------------
\* Values of the constants for the model checking of SupplyRuntime: one hunter
\* and the prey are loaded twice, the other hunter once.
EXTENDS SupplyRuntime

CONSTANTS h1, h2

MCGuids == [s \in Spawns |-> IF s = h2 THEN 1 ELSE 2]
=============================================================================
