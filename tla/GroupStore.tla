----------------------------- MODULE GroupStore -----------------------------
(***************************************************************************)
(* What the agent groups promise to whoever looks at the database: a group *)
(* is created once, under an id no group ever had; a membership belongs to *)
(* a group that exists; a dissolved group disappears with its members, in  *)
(* one step.  GroupLifecycle, where the same changes are transactions run  *)
(* by several database workers between crashes, is shown to implement it.  *)
(***************************************************************************)
CONSTANTS
    Ids,        \* group ids
    Agents,     \* agents that may be members
    Profiles    \* formation profiles

VARIABLES
    groups,     \* the profile of every group that exists
    members,    \* the membership relation, pairs <<group, agent>>
    ever        \* ids that have ever named a group

vars == <<groups, members, ever>>

Init ==
    /\ groups \in UNION {[S -> Profiles] : S \in SUBSET Ids}
    /\ members \in SUBSET ((DOMAIN groups) \X Agents)
    /\ ever = DOMAIN groups

Create(g, p) ==
    /\ g \notin ever
    /\ groups' = [x \in DOMAIN groups \union {g} |-> IF x = g THEN p ELSE groups[x]]
    /\ ever' = ever \union {g}
    /\ UNCHANGED members

Join(g, a) ==
    /\ g \in DOMAIN groups
    /\ members' = members \union {<<g, a>>}
    /\ UNCHANGED <<groups, ever>>

Leave(g, a) ==
    /\ members' = members \ {<<g, a>>}
    /\ UNCHANGED <<groups, ever>>

Dissolve(g) ==
    /\ groups' = [x \in DOMAIN groups \ {g} |-> groups[x]]
    /\ members' = {e \in members : e[1] # g}
    /\ UNCHANGED ever

Adopt(g, p) ==
    /\ g \in DOMAIN groups
    /\ groups' = [groups EXCEPT ![g] = p]
    /\ UNCHANGED <<members, ever>>

Next ==
    \E g \in Ids :
        \/ \E p \in Profiles : Create(g, p) \/ Adopt(g, p)
        \/ \E a \in Agents : Join(g, a) \/ Leave(g, a)
        \/ Dissolve(g)

Spec == Init /\ [][Next]_vars
=============================================================================
