---------------------------- MODULE MCCoalitions ----------------------------
\* Values of the constants for the model checking of Coalitions: the wolf and
\* the Defias profile, and agents some of which both of them could ask for.
EXTENDS Coalitions, TLC

CONSTANTS a1, a2, a3

MCProfiles == <<"wolf", "defias">>
\* Profiles that compete for agents: what the reservations are there for.
MCCompeting == [p \in ProfileIds |-> IF p = "wolf" THEN {a1, a2} ELSE {a2, a3}]
=============================================================================
