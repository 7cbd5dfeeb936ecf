--------------------------- MODULE MCAdviceBudget ---------------------------
\* Values of the constants for the model checking of AdviceBudget.
EXTENDS AdviceBudget

CONSTANTS r1, r2, f1
=============================================================================
