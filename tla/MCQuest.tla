------------------------------ MODULE MCQuest ------------------------------
(***************************************************************************)
(* Small instances of the dynamic quests.  Players and targets are         *)
(* interchangeable: the code compares them for equality only.              *)
(***************************************************************************)
EXTENDS DynamicQuest, TLC

CONSTANTS g1, g2, p1, p2, wolf, boar

\* A script may take money as well as give it.
MCScripted == {-3, -1, 0, 1, 3}

Interchangeable == Permutations(Players) \cup Permutations(Targets) \cup Permutations(Givers)
=============================================================================
