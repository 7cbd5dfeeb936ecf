------------------------------ MODULE MCGroups ------------------------------
\* Values of the constants for the model checking of GroupLifecycle: two
\* wolves and one bandit, a group of the migration, two database workers.
EXTENDS GroupLifecycle, TLC

CONSTANTS wolf1, wolf2, bandit, Wolves, Bandits, WolfLoose

MCFactionOf == [a \in Agents |-> IF a = bandit THEN Bandits ELSE Wolves]
MCRequired == [p \in Profiles |-> IF p = NoProfile THEN NoFaction ELSE Wolves]
MCEveryone == {Agents}
Symmetry == Permutations(Workers)
=============================================================================
