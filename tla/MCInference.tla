----------------------------- MODULE MCInference -----------------------------
\* Values of the constants for the model checking of Inference.
EXTENDS Inference

CONSTANTS a1

MCOnePlace == [k \in Kinds |-> 1]
=============================================================================
