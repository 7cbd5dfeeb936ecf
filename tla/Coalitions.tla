----------------------------- MODULE Coalitions -----------------------------
(***************************************************************************)
(* Automatic coalitions: the formation pass that proposes a LOOSE group    *)
(* and joins its members one by one, the maintenance that takes members    *)
(* out and dissolves what is too small, and the game master's join and     *)
(* leave commands, all on the world thread and all through the request     *)
(* and completion pairs of GroupLifecycle.                                 *)
(*                                                                         *)
(* Here an operation is in flight until it completes, with either outcome, *)
(* in any order: the tables and workers behind it are GroupLifecycle's.    *)
(* Positions, territories and the agents' lives only decide what a pass    *)
(* finds, so a pass may find anything the profiles allow.                  *)
(***************************************************************************)
EXTENDS Integers, Sequences, FiniteSets, Functions

CONSTANTS
    Agents,         \* registered agents
    Profiles,       \* formation profiles, in the order a pass evaluates them
    Recognizes,     \* the agents whose entry and faction a profile asks for
    MinMembers,     \* LooseMinMembers
    MaxMembers,     \* LooseMaxMembers
    MaxInFlight,    \* AIWorld.CoalitionFormationMaxInFlight
    TopId,          \* the last id the allocator hands out
    Manual          \* agents a game master moves by hand

ProfileIds == Range(Profiles)

NoAgent == "no agent"

ASSUME CoalitionConstants ==
    /\ IsFiniteSet(Agents) /\ NoAgent \notin Agents
    /\ Profiles \in Seq(ProfileIds) /\ Len(Profiles) = 2 /\ Profiles[1] # Profiles[2]
    /\ ProfileIds \intersect {"maintenance", "manual"} = {}
    /\ Recognizes \in [ProfileIds -> SUBSET Agents]
    /\ MinMembers \in Nat \ {0} /\ MaxMembers \in Nat /\ MinMembers <= MaxMembers
    /\ MaxInFlight \in Nat \ {0} /\ TopId \in Nat \ {0} /\ Manual \subseteq Agents

VARIABLES
    groups,         \* AgentGroupRegistry: id -> [profile, members]
    nextId,         \* the id allocator
    ops,            \* lifecycle operations in flight, with who asked for them
    attempts,       \* _formationInFlight and the attempt each callback carries
    reserved,       \* _formationReservedMembers (LOOSE)
    maintaining,    \* _maintenanceInFlight
    due,            \* profiles whose formation timer has run out
    favored         \* profile evaluated first (_formationPassFavorDefiasFirst)

vars == <<groups, nextId, ops, attempts, reserved, maintaining, due, favored>>

Ids == 1..TopId

InFlight == DOMAIN attempts

Op(do, g, a, by) == [do |-> do, group |-> g, agent |-> a, by |-> by]

Grouped(gs) == UNION {gs[g].members : g \in DOMAIN gs}

Without(f, x) == [y \in DOMAIN f \ {x} |-> f[y]]
With(f, x, v) == [y \in DOMAIN f \union {x} |-> IF y = x THEN v ELSE f[y]]

(***************************************************************************)
(* The formation pass.                                                     *)
(***************************************************************************)
TimerRunsOut(p) ==
    /\ p \notin due
    /\ due' = due \union {p}
    /\ UNCHANGED <<groups, nextId, ops, attempts, reserved, maintaining, favored>>

First == IF favored \in due THEN favored ELSE CHOOSE p \in due : TRUE

\* A definition named ..._BadXyz is a plausible slip in the definition after it.
\* Slip: only confirmed memberships count.
Eligible_BadConfirmed(p) == Recognizes[p] \ Grouped(groups)

Eligible(p) == Recognizes[p] \ (Grouped(groups) \union reserved)

\* A seed and its nearest neighbours, in the order they will join; which ones,
\* or none at all, depends on where everybody stands.
Proposals(p) ==
    {m \in UNION {[1..n -> Eligible(p)] : n \in MinMembers..MaxMembers} : IsInjective(m)}

Turn(started) == IF started = {} THEN favored ELSE CHOOSE p \in ProfileIds : p # favored

\* A due profile is evaluated, and its timer reset, unless the one before it
\* has taken the last place; the turn passes on only if an attempt started.
RunCoalitionFormationPass ==
    /\ due # {} /\ Cardinality(InFlight) < MaxInFlight
    /\ \E proposed \in [due -> UNION {Proposals(p) : p \in due} \union {<<>>}] :
        LET started == {p \in due : proposed[p] # <<>>}
            evaluated == {p \in due : p = First \/
                             Cardinality(InFlight \union ({First} \intersect started)) < MaxInFlight}
        IN  /\ started \subseteq evaluated \ InFlight
            /\ \A p \in started : proposed[p] \in Proposals(p)
            /\ \A p, q \in started : p # q => Range(proposed[p]) \intersect Range(proposed[q]) = {}
            /\ due' = due \ evaluated
            /\ favored' = Turn(started)
            /\ attempts' = [p \in InFlight \union started |->
                   IF p \in started THEN [members |-> proposed[p], next |-> 1, group |-> 0]
                   ELSE attempts[p]]
            /\ reserved' = reserved \union UNION {Range(proposed[p]) : p \in started}
            /\ ops' = ops \union {Op("create", 0, NoAgent, p) : p \in started}
    /\ UNCHANGED <<groups, nextId, maintaining>>

(***************************************************************************)
(* The join chain.  at is an attempt, gs and others the registry and the   *)
(* operations when its next step is asked for.                             *)
(***************************************************************************)
\* One operation per group (_pendingGroupOperations); a create has no group yet.
\* Slip: operations in flight are not looked at.
Free_BadBusy(gs, others, g) == g \in DOMAIN gs

Free(gs, others, g) == g \in DOMAIN gs /\ \A o \in others : o.group # g

\* RequestJoinGroupWithPolicy, with the check for a membership gained elsewhere.
MayJoin(gs, others, g, a) ==
    /\ Free(gs, others, g) /\ a \notin Grouped(gs)
    /\ Cardinality(gs[g].members) < MaxMembers

\* AbortCoalitionFormation: the group is dissolved if nobody is at it.
Cleanup(p, at, gs, others) ==
    IF Free(gs, others, at.group) THEN {Op("dissolve", at.group, NoAgent, p)} ELSE {}

\* The operations RunCoalitionJoinStep submits: the next join, the cleanup of
\* the group if that is refused, or none when the attempt is over.
JoinStep(p, at, gs, others) ==
    IF at.next > Len(at.members) THEN {}
    ELSE LET a == at.members[at.next] IN
         IF MayJoin(gs, others, at.group, a) THEN {Op("join", at.group, a, p)}
         ELSE Cleanup(p, at, gs, others)

\* Slip: only a group that is complete gives its reservations back.
Proceed_BadLeak(p, at, more) ==
    IF more # {} THEN /\ attempts' = [attempts EXCEPT ![p] = at]
                      /\ UNCHANGED reserved
    ELSE /\ attempts' = Without(attempts, p)
         /\ reserved' = IF at.next > Len(at.members) THEN reserved \ Range(at.members) ELSE reserved

\* Continue an attempt with the given operations, or end it with none.
Proceed(p, at, more) ==
    IF more # {} THEN /\ attempts' = [attempts EXCEPT ![p] = at]
                      /\ UNCHANGED reserved
    ELSE /\ attempts' = Without(attempts, p)
         /\ reserved' = reserved \ Range(at.members)

\* The allocator refuses a creation when it is exhausted.
HasId == nextId <= TopId

FormationCreated(op, ok) ==
    LET p == op.by
        at == [attempts[p] EXCEPT !.group = nextId]
        gs == With(groups, nextId, [profile |-> p, members |-> {}])
        others == ops \ {op}
        more == IF ok THEN JoinStep(p, at, gs, others) ELSE {}
    IN  /\ op.do = "create" /\ p \in InFlight
        /\ ok => HasId
        /\ groups' = IF ok THEN gs ELSE groups
        /\ nextId' = IF ok THEN nextId + 1 ELSE nextId
        /\ ops' = others \union more
        /\ Proceed(p, at, more)
        /\ UNCHANGED <<maintaining, due, favored>>

FormationJoined(op, ok) ==
    LET p == op.by
        at == IF ok THEN [attempts[p] EXCEPT !.next = @ + 1] ELSE attempts[p]
        gs == IF ok THEN [groups EXCEPT ![op.group].members = @ \union {op.agent}] ELSE groups
        others == ops \ {op}
        more == IF ok THEN JoinStep(p, at, gs, others) ELSE Cleanup(p, at, gs, others)
    IN  /\ op.do = "join" /\ p \in InFlight
        /\ groups' = gs
        /\ ops' = others \union more
        /\ Proceed(p, at, more)
        /\ UNCHANGED <<nextId, maintaining, due, favored>>

\* Slip: an attempt waits until its group is gone.
FormationCleaned_BadStuck(op, ok) ==
    /\ op.do = "dissolve" /\ op.by \in InFlight
    /\ groups' = IF ok THEN Without(groups, op.group) ELSE groups
    /\ ops' = ops \ {op}
    /\ maintaining' = IF ok THEN maintaining \ {op.group} ELSE maintaining
    /\ IF ok THEN Proceed(op.by, attempts[op.by], {}) ELSE UNCHANGED <<attempts, reserved>>
    /\ UNCHANGED <<nextId, due, favored>>

\* The cleanup is over, done or not: a group that is left is maintenance's.
FormationCleaned(op, ok) ==
    /\ op.do = "dissolve" /\ op.by \in InFlight
    /\ groups' = IF ok THEN Without(groups, op.group) ELSE groups
    /\ ops' = ops \ {op}
    /\ maintaining' = IF ok THEN maintaining \ {op.group} ELSE maintaining
    /\ Proceed(op.by, attempts[op.by], {})
    /\ UNCHANGED <<nextId, due, favored>>

(***************************************************************************)
(* Maintenance.  A decision the lifecycle refuses leaves nothing behind    *)
(* and is not a step.                                                      *)
(***************************************************************************)
TooSmall(gs, g) == Cardinality(gs[g].members) < MinMembers

Maintain(g, op) ==
    /\ g \notin maintaining /\ Free(groups, ops, g)
    /\ maintaining' = maintaining \union {g}
    /\ ops' = ops \union {op}
    /\ UNCHANGED <<groups, nextId, attempts, reserved, due, favored>>

MaintenanceDissolve(g) ==
    /\ g \in DOMAIN groups /\ TooSmall(groups, g)
    /\ Maintain(g, Op("dissolve", g, NoAgent, "maintenance"))

\* The member farthest outside the territory.
MaintenanceLeave(g, a) ==
    /\ g \in DOMAIN groups /\ ~ TooSmall(groups, g) /\ a \in groups[g].members
    /\ Maintain(g, Op("leave", g, a, "maintenance"))

\* Slip: the mark of a leave that failed is left behind.
MaintenanceLeft_BadMark(op, ok) ==
    /\ op.do = "leave" /\ op.by = "maintenance"
    /\ groups' = IF ok THEN [groups EXCEPT ![op.group].members = @ \ {op.agent}] ELSE groups
    /\ ops' = ops \ {op}
    /\ maintaining' = IF ok THEN maintaining \ {op.group} ELSE maintaining
    /\ UNCHANGED <<nextId, attempts, reserved, due, favored>>

MaintenanceLeft(op, ok) ==
    LET gs == IF ok THEN [groups EXCEPT ![op.group].members = @ \ {op.agent}] ELSE groups
        others == ops \ {op}
        more == IF ok /\ TooSmall(gs, op.group) /\ Free(gs, others, op.group)
                THEN {Op("dissolve", op.group, NoAgent, "maintenance")} ELSE {}
    IN  /\ op.do = "leave" /\ op.by = "maintenance"
        /\ groups' = gs
        /\ ops' = others \union more
        /\ maintaining' = IF more = {} THEN maintaining \ {op.group} ELSE maintaining
        /\ UNCHANGED <<nextId, attempts, reserved, due, favored>>

MaintenanceDissolved(op, ok) ==
    /\ op.do = "dissolve" /\ op.by = "maintenance"
    /\ groups' = IF ok THEN Without(groups, op.group) ELSE groups
    /\ ops' = ops \ {op}
    /\ maintaining' = maintaining \ {op.group}
    /\ UNCHANGED <<nextId, attempts, reserved, due, favored>>

(***************************************************************************)
(* The game master's commands.                                             *)
(***************************************************************************)
RequestManualJoinGroup(g, a) ==
    /\ a \in Manual /\ Free(groups, ops, g)
    /\ a \notin groups[g].members /\ a \in Recognizes[groups[g].profile]
    /\ Cardinality(groups[g].members) < MaxMembers
    /\ ops' = ops \union {Op("join", g, a, "manual")}
    /\ UNCHANGED <<groups, nextId, attempts, reserved, maintaining, due, favored>>

RequestManualLeaveGroup(g, a) ==
    /\ a \in Manual /\ Free(groups, ops, g) /\ a \in groups[g].members
    /\ ops' = ops \union {Op("leave", g, a, "manual")}
    /\ UNCHANGED <<groups, nextId, attempts, reserved, maintaining, due, favored>>

ManualDone(op, ok) ==
    /\ op.by = "manual"
    /\ groups' = IF ~ ok THEN groups
                 ELSE IF op.do = "join" THEN [groups EXCEPT ![op.group].members = @ \union {op.agent}]
                 ELSE [groups EXCEPT ![op.group].members = @ \ {op.agent}]
    /\ ops' = ops \ {op}
    /\ UNCHANGED <<nextId, attempts, reserved, maintaining, due, favored>>

Complete(op) ==
    /\ op \in ops
    /\ \E ok \in BOOLEAN :
        \/ FormationCreated(op, ok) \/ FormationJoined(op, ok) \/ FormationCleaned(op, ok)
        \/ MaintenanceLeft(op, ok) \/ MaintenanceDissolved(op, ok)
        \/ ManualDone(op, ok)

\* Initialize: a group of an earlier life of the server may have been loaded;
\* the allocator goes on after the highest id there ever was.
Init ==
    /\ \/ groups = <<>> /\ nextId = 1
       \/ /\ nextId = 2
          /\ \E p \in ProfileIds : \E loaded \in SUBSET Recognizes[p] :
                /\ Cardinality(loaded) <= MaxMembers
                /\ groups = <<[profile |-> p, members |-> loaded]>>
    /\ ops = {} /\ attempts = <<>> /\ reserved = {} /\ maintaining = {}
    /\ due = {} /\ favored = Profiles[1]

Next ==
    \/ \E p \in ProfileIds : TimerRunsOut(p)
    \/ RunCoalitionFormationPass
    \/ \E op \in ops : Complete(op)
    \/ \E g \in Ids :
        \/ MaintenanceDissolve(g)
        \/ \E a \in Agents :
            \/ MaintenanceLeave(g, a)
            \/ RequestManualJoinGroup(g, a) \/ RequestManualLeaveGroup(g, a)

Spec == Init /\ [][Next]_vars

AllOps == [do : {"create", "join", "leave", "dissolve"}, group : 0..TopId,
           agent : Agents \union {NoAgent}, by : ProfileIds \union {"maintenance", "manual"}]

\* Every operation is answered (Answered of GroupLifecycle).
FairSpec == Spec /\ \A op \in AllOps : WF_vars(Complete(op))

-----------------------------------------------------------------------------
(***************************************************************************)
(* Properties.                                                             *)
(***************************************************************************)
\* The shape of the state; whoever asks, a group never outgrows its maximum.
TypeOK ==
    /\ DOMAIN groups \subseteq Ids
    /\ \A g \in DOMAIN groups : /\ groups[g] \in [profile : ProfileIds, members : SUBSET Agents]
                                /\ Cardinality(groups[g].members) <= MaxMembers
    /\ nextId \in 1..(TopId + 1) /\ ops \subseteq AllOps
    /\ InFlight \subseteq ProfileIds /\ reserved \subseteq Agents
    /\ maintaining \subseteq Ids /\ due \subseteq ProfileIds /\ favored \in ProfileIds

\* Automatic policies alone never put an agent into two LOOSE groups, nor on
\* its way into a second one, whatever other attempts are in the database; an
\* agent a game master moves may end up in two.
OneLooseGroup ==
    \A a \in Agents \ Manual :
        Cardinality({g \in Ids : \/ g \in DOMAIN groups /\ a \in groups[g].members
                                 \/ \E op \in ops : op.do = "join" /\ op.group = g /\ op.agent = a}) <= 1

\* While a coalition is being formed nobody else changes its group: its
\* members are at all times the ones the chain has joined, in their order.
FormationUnbroken ==
    \A p \in InFlight :
        LET at == attempts[p] IN
        /\ Cardinality({op \in ops : op.by = p}) = 1
        /\ at.group # 0 =>
               /\ at.group \in DOMAIN groups
               /\ groups[at.group].members = Range(SubSeq(at.members, 1, at.next - 1))

\* Reserved are exactly the agents some attempt still needs.
ReservedExact == reserved = UNION {Range(attempts[p].members) : p \in InFlight}

\* A group is marked as being maintained exactly as long as an operation of
\* the maintenance is in flight, so that none is ever left alone for good.
MaintainingExact == maintaining = {op.group : op \in {o \in ops : o.by = "maintenance"}}

\* Whatever fails or is refused on the way, no reservation and no mark of the
\* maintenance is left behind or given back too early.
MarksExact == TypeOK /\ ReservedExact /\ MaintainingExact

\* No attempt keeps its profile's place for ever.
FormationEnds == \A p \in ProfileIds : p \in InFlight ~> p \notin InFlight

=============================================================================
