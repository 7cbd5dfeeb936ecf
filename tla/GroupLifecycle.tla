--------------------------- MODULE GroupLifecycle ---------------------------
(***************************************************************************)
(* Agent groups: the registry the world thread reads, the tables it is     *)
(* loaded from, and the asynchronous transactions between them.            *)
(*                                                                         *)
(* The world thread (AgentGroupLifecycleSystem, AgentGroupPersistence)     *)
(* checks a request against the registry, submits one transaction and      *)
(* changes the registry only in the completion it polls once per update.   *)
(* Database workers take transactions from one queue and may finish them   *)
(* in any order.  A crash, like a shutdown, drops the queue, the open      *)
(* transactions and all memory; the next start reloads the tables.         *)
(*                                                                         *)
(* Kinds, territories, resources and join times are left out: every group  *)
(* here is LOOSE, the only kind a profile names.                           *)
(***************************************************************************)
EXTENDS Integers, Sequences, FiniteSets

CONSTANTS
    Agents,             \* agents that have a row of their own
    Workers,            \* asynchronous connections of the database
    Profiles,           \* formation profiles, NoProfile among them
    NoProfile,          \* CoalitionFormationProfileId::Invalid
    NoFaction,          \* "no requirement" (std::nullopt)
    FactionOf,          \* world faction of each agent
    RequiredFaction,    \* world faction each profile requires, or NoFaction
    AgentSets,          \* the agent registries a start may come up with
    SeedMembers,        \* members of the group the migration leaves behind
    TopId,              \* the allocator's maximum (UINT64_MAX in the code)
    MaxVersion,         \* bound: saves of one group row
    MaxCalls,           \* bound: operations submitted and not answered yet
    MaxLost             \* bound: connections lost inside a transaction

ASSUME GroupConstants ==
    /\ NoProfile \in Profiles
    /\ AgentSets \subseteq SUBSET Agents
    /\ SeedMembers \subseteq Agents
    /\ {TopId, MaxVersion, MaxCalls, MaxLost} \subseteq Nat /\ TopId > 1

Ids == 1..TopId

VARIABLES
    rows,       \* ai_agent_groups: id -> [profile, version]
    edges,      \* ai_agent_group_members: pairs <<group, agent>>
    sequence,   \* ai_agent_group_id_sequence.next_group_id
    ever,       \* ids that have ever had a row (history, read by no action)
    queue,      \* operations submitted and not yet taken by a worker
    worker,     \* what each worker is executing
    results,    \* operations executed, with the outcome their promise carries
    phase,      \* "down", "init" (Initialize) or "running" (Update)
    agents,     \* AgentRegistry
    refused,    \* membership rows the profiles refused at this start (history, read by no action)
    groups,     \* AgentGroupRegistry::_groups: id -> [profile, members, version]
    memberOf,   \* AgentGroupRegistry::_memberGroups
    nextId,     \* AgentGroupPersistence::_nextGroupId
    valid,      \* AgentGroupPersistence::_groupIdAllocatorValid
    pending,    \* AgentGroupLifecycleSystem::_pendingGroupOperations
    adopting,   \* AIWorldMgr::_groupProfileAdoptionInFlight
    calls,      \* AIWorldMgr::_groupLifecyclePending
    lost        \* connections lost so far

tables == <<rows, edges, sequence, ever>>
executor == <<queue, worker, results, lost>>
guards == <<pending, adopting>>
registry == <<groups, memberOf>>
process == <<phase, agents, refused, nextId, valid>>
vars == <<tables, executor, process, registry, guards, calls>>

Idle == [op |-> "idle"]

(***************************************************************************)
(* Operations and their statements.                                        *)
(***************************************************************************)
Op(do, g, arg) == [do |-> do, group |-> g, arg |-> arg]

\* A definition named ..._BadXyz is a plausible slip in the definition after it.
\* Slip: the members are left to a cascade the tables do not declare.
Statements_BadCascade(op) ==
    IF op.do = "create" THEN <<"reserve", "insert group">>
    ELSE IF op.do = "dissolve" THEN <<"delete group">> ELSE <<op.do>>

\* The statements of an operation, in the order they are appended.
Statements(op) ==
    CASE op.do = "create"   -> <<"reserve", "insert group">>
      [] op.do = "dissolve" -> <<"delete members", "delete group">>
      [] OTHER              -> <<op.do>>

\* A primary key that is already there: ER_DUP_ENTRY, the transaction fails.
Duplicate(op, stmt) ==
    \/ stmt = "insert group" /\ op.group \in DOMAIN rows
    \/ stmt = "join" /\ <<op.group, op.arg>> \in edges

\* The tables after the statements in done, executed together.
\* Slip: the sequence is set, not raised, so a late commit sets it back.
Reserved_BadSet(op, done) == IF "reserve" \in done THEN op.group + 1 ELSE sequence

Reserved(op, done) ==
    IF "reserve" \in done /\ op.group + 1 > sequence THEN op.group + 1 ELSE sequence

RowsAfter(op, done) ==
    LET kept == IF "delete group" \in done THEN DOMAIN rows \ {op.group}
                ELSE IF "insert group" \in done THEN DOMAIN rows \union {op.group}
                ELSE DOMAIN rows
        written(g) ==
            CASE g = op.group /\ "insert group" \in done -> [profile |-> op.arg, version |-> 0]
              [] g = op.group /\ "adopt" \in done -> [rows[g] EXCEPT !.profile = op.arg]
              [] g = op.group /\ "save" \in done /\ rows[g].version < op.arg.version -> op.arg
              [] OTHER -> rows[g]
    IN  [g \in kept |-> written(g)]

EdgesAfter(op, done) ==
    LET added == IF "join" \in done THEN {<<op.group, op.arg>>} ELSE {}
        gone  == IF "delete members" \in done THEN {e \in edges : e[1] = op.group}
                 ELSE IF "leave" \in done THEN {<<op.group, op.arg>>} ELSE {}
    IN  (edges \ gone) \union added

Write(op, done) ==
    /\ rows' = RowsAfter(op, done)
    /\ edges' = EdgesAfter(op, done)
    /\ sequence' = Reserved(op, done)
    /\ ever' = ever \union DOMAIN rows'

(***************************************************************************)
(* Database workers: one transaction at a time, statement by statement.    *)
(***************************************************************************)
Busy(w) == worker[w] # Idle

Take(w) ==
    /\ ~ Busy(w) /\ queue # <<>>
    /\ worker' = [worker EXCEPT ![w] =
           [op |-> Head(queue), todo |-> Statements(Head(queue)), done |-> {},
            auto |-> Head(queue).do = "save"]]
    /\ queue' = Tail(queue)
    /\ UNCHANGED <<tables, process, registry, guards, calls, results, lost>>

\* The promise is set; a save (Execute) has none.
Finish(w, ok) ==
    /\ worker' = [worker EXCEPT ![w] = Idle]
    /\ results' = IF worker[w].op.do = "save" THEN results
                  ELSE results \union {[op |-> worker[w].op, ok |-> ok]}

\* One statement: kept for the commit inside a transaction, applied at once
\* on a connection in autocommit mode.
Execute(w) ==
    LET run == worker[w] stmt == Head(run.todo) IN
    /\ Busy(w) /\ run.todo # <<>> /\ ~ Duplicate(run.op, stmt)
    /\ worker' = [worker EXCEPT ![w].todo = Tail(@),
                                ![w].done = IF run.auto THEN @ ELSE @ \union {stmt}]
    /\ IF run.auto THEN Write(run.op, {stmt}) ELSE UNCHANGED tables
    /\ UNCHANGED <<process, registry, guards, calls, queue, results, lost>>

Commit(w) ==
    /\ Busy(w) /\ worker[w].todo = <<>>
    /\ Write(worker[w].op, worker[w].done)
    /\ Finish(w, TRUE)
    /\ UNCHANGED <<process, registry, guards, calls, queue, lost>>

\* A statement fails: the transaction is rolled back and its promise is false.
Abort(w) ==
    /\ Finish(w, FALSE)
    /\ UNCHANGED <<tables, process, registry, guards, calls, queue, lost>>

\* A duplicate key, a deadlock never resolved, or an error the driver does not
\* handle.
Fail(w) == Busy(w) /\ worker[w].todo # <<>> /\ Abort(w)

\* The connection is lost while a statement, or the COMMIT, is executing.  The
\* server rolls back (or has committed already); the driver reconnects and
\* sends only that statement again, outside any transaction.
Reconnect(w) ==
    /\ Busy(w) /\ ~ worker[w].auto /\ lost < MaxLost
    /\ lost' = lost + 1
    /\ worker' = [worker EXCEPT ![w].auto = TRUE, ![w].done = {}]
    /\ \/ UNCHANGED tables
       \/ worker[w].todo = <<>> /\ Write(worker[w].op, worker[w].done)
    /\ UNCHANGED <<process, registry, guards, calls, queue, results>>

(***************************************************************************)
(* Requests, checked against the registry on the world thread.             *)
(***************************************************************************)
Up == phase # "down"

Submit(op) ==
    /\ Cardinality(calls) < MaxCalls
    /\ queue' = Append(queue, op)
    /\ calls' = calls \union {op}

Executor == <<worker, results, lost>>

\* A refused request changes nothing and is not a step.
RequestCreateGroup(p) ==
    LET id == nextId IN
    /\ Up /\ valid /\ nextId < TopId
    /\ nextId' = nextId + 1
    /\ Submit(Op("create", id, p))
    /\ UNCHANGED <<tables, Executor, registry, guards, phase, agents, refused, valid>>

\* An empty group takes what its profile requires, any other the faction of
\* its first member that still has a record.
FactionAdmits(g, a) ==
    LET present == groups[g].members \intersect agents
        required == RequiredFaction[groups[g].profile]
    IN  IF groups[g].members = {} THEN required \in {NoFaction, FactionOf[a]}
        ELSE present = {} \/ \E first \in present : FactionOf[first] = FactionOf[a]

\* Slip: an operation in flight does not stop the next one.
Claim_BadShared(g) ==
    /\ g \in DOMAIN groups
    /\ pending' = pending \union {g}

Claim(g) ==
    /\ g \in DOMAIN groups /\ g \notin pending
    /\ pending' = pending \union {g}

RequestJoinGroup(g, a) ==
    /\ Up /\ Claim(g)
    /\ a \in agents /\ a \notin groups[g].members /\ FactionAdmits(g, a)
    /\ Submit(Op("join", g, a))
    /\ UNCHANGED <<tables, Executor, registry, process, adopting>>

RequestLeaveGroup(g, a) ==
    /\ Up /\ Claim(g)
    /\ a \in groups[g].members
    /\ Submit(Op("leave", g, a))
    /\ UNCHANGED <<tables, Executor, registry, process, adopting>>

RequestDissolveGroup(g) ==
    /\ Up /\ Claim(g)
    /\ Submit(Op("dissolve", g, g))
    /\ UNCHANGED <<tables, Executor, registry, process, adopting>>

\* Startup only, before the first update; at most once per start.
RunGroupProfileAdoption(g, p) ==
    /\ phase = "init" /\ adopting = {}
    /\ p # NoProfile /\ g \in DOMAIN groups /\ groups[g].profile # p
    /\ adopting' = {g}
    /\ Submit(Op("adopt", g, p))
    /\ UNCHANGED <<tables, Executor, registry, process, pending>>

\* The coarse tick of a group whose resources changed: the whole row, with the
\* profile memory holds, is written without a callback.
\* Slip: the save does not wait for the adoption.
SaveGroupState_BadEager(g) ==
    /\ phase = "running" /\ g \in DOMAIN groups
    /\ groups[g].version < MaxVersion
    /\ groups' = [groups EXCEPT ![g].version = @ + 1]
    /\ queue' = Append(queue, Op("save", g,
           [profile |-> groups[g].profile, version |-> groups[g].version + 1]))
    /\ UNCHANGED <<tables, Executor, process, memberOf, guards, calls>>

SaveGroupState(g) ==
    /\ phase = "running" /\ g \in DOMAIN groups /\ g \notin adopting
    /\ groups[g].version < MaxVersion
    /\ groups' = [groups EXCEPT ![g].version = @ + 1]
    /\ queue' = Append(queue, Op("save", g,
           [profile |-> groups[g].profile, version |-> groups[g].version + 1]))
    /\ UNCHANGED <<tables, Executor, process, memberOf, guards, calls>>

(***************************************************************************)
(* Completions, run by ProcessReadyCallbacks() of an update.               *)
(***************************************************************************)
Add(g, record) ==
    IF g \in DOMAIN groups THEN UNCHANGED registry
    ELSE /\ groups' = [x \in DOMAIN groups \union {g} |-> IF x = g THEN record ELSE groups[x]]
         /\ UNCHANGED memberOf

AddMember(g, a) ==
    IF g \in DOMAIN groups /\ a \notin groups[g].members
    THEN /\ groups' = [groups EXCEPT ![g].members = @ \union {a}]
         /\ memberOf' = [memberOf EXCEPT ![a] = @ \union {g}]
    ELSE UNCHANGED registry

RemoveMember(g, a) ==
    IF g \in DOMAIN groups /\ a \in groups[g].members
    THEN /\ groups' = [groups EXCEPT ![g].members = @ \ {a}]
         /\ memberOf' = [memberOf EXCEPT ![a] = @ \ {g}]
    ELSE UNCHANGED registry

Remove(g) ==
    IF g \in DOMAIN groups
    THEN /\ groups' = [x \in DOMAIN groups \ {g} |-> groups[x]]
         /\ memberOf' = [a \in Agents |-> IF a \in groups[g].members THEN memberOf[a] \ {g} ELSE memberOf[a]]
    ELSE UNCHANGED registry

SetProfile(g, p) ==
    IF g \in DOMAIN groups
    THEN groups' = [groups EXCEPT ![g].profile = p] /\ UNCHANGED memberOf
    ELSE UNCHANGED registry

\* What a confirmed operation changes in the registry.
Confirm(op) ==
    CASE op.do = "create"   -> Add(op.group, [profile |-> op.arg, members |-> {}, version |-> 0])
      [] op.do = "join"     -> AddMember(op.group, op.arg)
      [] op.do = "leave"    -> RemoveMember(op.group, op.arg)
      [] op.do = "dissolve" -> Remove(op.group)
      [] op.do = "adopt"    -> SetProfile(op.group, op.arg)

\* The guard of the operation is released first, whatever the outcome.
\* Slip: a failed join keeps its group.
Release_BadKept(op, ok) ==
    /\ pending' = IF op.do \in {"leave", "dissolve"} \/ (op.do = "join" /\ ok)
                  THEN pending \ {op.group} ELSE pending
    /\ adopting' = IF op.do = "adopt" \/ (op.do = "dissolve" /\ ok)
                   THEN adopting \ {op.group} ELSE adopting

Release(op, ok) ==
    /\ pending' = IF op.do \in {"join", "leave", "dissolve"} THEN pending \ {op.group} ELSE pending
    /\ adopting' = IF op.do = "adopt" \/ (op.do = "dissolve" /\ ok)
                   THEN adopting \ {op.group} ELSE adopting

Complete(result) ==
    /\ phase = "running" /\ result \in results /\ result.op \in calls
    /\ calls' = calls \ {result.op}
    /\ results' = results \ {result}
    /\ Release(result.op, result.ok)
    /\ IF result.ok THEN Confirm(result.op) ELSE UNCHANGED registry
    /\ UNCHANGED <<tables, process, queue, worker, lost>>

(***************************************************************************)
(* Start, first update, crash.                                             *)
(***************************************************************************)
\* A membership row is skipped, not deleted, when its group or agent is not
\* registered or the agent's faction is not the one the profile requires.
Loaded(g, known) ==
    LET required == RequiredFaction[rows[g].profile]
    IN  {a \in known : <<g, a>> \in edges /\ required \in {NoFaction, FactionOf[a]}}

Refused(e) ==
    e[1] \in DOMAIN rows /\ RequiredFaction[rows[e[1]].profile] \notin {NoFaction, FactionOf[e[2]]}

HighWaterMark == sequence # 0 /\ \A g \in DOMAIN rows : g < sequence

\* Slip: ids go on after the highest one that is left.
Initialize_BadHighest(known) ==
    /\ phase = "down"
    /\ phase' = "init"
    /\ agents' = known /\ refused' = {e \in edges : Refused(e)}
    /\ valid' = TRUE
    /\ nextId' = 1 + CHOOSE n \in 0..TopId : (n = 0 \/ n \in DOMAIN rows) /\ \A g \in DOMAIN rows : g <= n
    /\ groups' = [g \in DOMAIN rows |->
           [profile |-> rows[g].profile, members |-> Loaded(g, known), version |-> rows[g].version]]
    /\ memberOf' = [a \in Agents |-> {g \in DOMAIN rows : a \in Loaded(g, known)}]
    /\ UNCHANGED <<tables, executor, guards, calls>>

Initialize(known) ==
    /\ phase = "down"
    /\ phase' = "init"
    /\ agents' = known /\ refused' = {e \in edges : Refused(e)}
    /\ valid' = HighWaterMark
    /\ nextId' = IF HighWaterMark THEN sequence ELSE 1
    /\ groups' = [g \in DOMAIN rows |->
           [profile |-> rows[g].profile, members |-> Loaded(g, known), version |-> rows[g].version]]
    /\ memberOf' = [a \in Agents |-> {g \in DOMAIN rows : a \in Loaded(g, known)}]
    /\ UNCHANGED <<tables, executor, guards, calls>>

FirstUpdate ==
    /\ phase = "init"
    /\ phase' = "running"
    /\ UNCHANGED <<tables, executor, registry, guards, calls, agents, refused, nextId, valid>>

\* Cancel() of the queue deletes what no worker has taken, so a shutdown loses
\* the same things.
Crash ==
    /\ Up
    /\ phase' = "down" /\ agents' = {} /\ refused' = {} /\ nextId' = 1 /\ valid' = FALSE
    /\ groups' = <<>> /\ memberOf' = [a \in Agents |-> {}]
    /\ pending' = {} /\ adopting' = {} /\ calls' = {}
    /\ queue' = <<>> /\ worker' = [w \in Workers |-> Idle] /\ results' = {}
    /\ UNCHANGED <<tables, lost>>

Init ==
    /\ rows = [g \in {1} |-> [profile |-> NoProfile, version |-> 0]]
    /\ edges = {1} \X SeedMembers
    /\ sequence = 2 /\ ever = {1} /\ lost = 0
    /\ phase = "down" /\ agents = {} /\ refused = {} /\ nextId = 1 /\ valid = FALSE
    /\ groups = <<>> /\ memberOf = [a \in Agents |-> {}]
    /\ pending = {} /\ adopting = {} /\ calls = {}
    /\ queue = <<>> /\ worker = [w \in Workers |-> Idle] /\ results = {}

World ==
    \/ \E p \in Profiles : RequestCreateGroup(p)
    \/ \E g \in Ids :
        \/ \E a \in Agents : RequestJoinGroup(g, a) \/ RequestLeaveGroup(g, a)
        \/ RequestDissolveGroup(g)
        \/ \E p \in Profiles : RunGroupProfileAdoption(g, p)
        \/ SaveGroupState(g)
    \/ \E result \in results : Complete(result)
    \/ \E known \in AgentSets : Initialize(known)
    \/ FirstUpdate

Database == \E w \in Workers : 
    Take(w) \/ Execute(w) \/ Commit(w) \/ Fail(w) \/ Reconnect(w)

Next == World \/ Database \/ Crash

Spec == Init /\ [][Next]_vars

Operations == [do : {"create", "adopt"}, group : Ids, arg : Profiles]
    \union [do : {"join", "leave"}, group : Ids, arg : Agents]
    \union [do : {"dissolve"}, group : Ids, arg : Ids]

\* Every worker keeps working and every update polls every callback; nothing
\* obliges anybody to request anything, and nothing bounds how often the server
\* crashes.  (The last id is never handed out.)
Fairness ==
    /\ \A w \in Workers : WF_vars(Take(w) \/ Execute(w) \/ Fail(w) \/ Commit(w))
    /\ WF_vars(FirstUpdate)
    /\ \A g \in Ids \ {TopId} :
           WF_vars(\E result \in results : result.op.group = g /\ Complete(result))

FairSpec == Spec /\ Fairness

-----------------------------------------------------------------------------
(***************************************************************************)
(* Properties.                                                             *)
(***************************************************************************)
Saves == [do : {"save"}, group : Ids, arg : [profile : Profiles, version : 0..MaxVersion]]

StatementNames ==
    {"reserve", "insert group", "delete members", "delete group", "join", "leave", "adopt", "save"}

\* The shape of the state.
TypeOK ==
    /\ DOMAIN rows \subseteq Ids
    /\ \A g \in DOMAIN rows : rows[g] \in [profile : Profiles, version : 0..MaxVersion]
    /\ edges \subseteq Ids \X Agents
    /\ sequence \in Ids /\ ever \subseteq Ids /\ lost \in 0..MaxLost
    /\ queue \in Seq(Operations \union Saves)
    /\ \A w \in Workers : Busy(w) =>
           /\ worker[w].op \in Operations \union Saves
           /\ worker[w].todo \in Seq(StatementNames) /\ worker[w].done \subseteq StatementNames
           /\ worker[w].auto \in BOOLEAN
    /\ results \subseteq [op : Operations, ok : BOOLEAN]
    /\ phase \in {"down", "init", "running"} /\ agents \subseteq Agents
    /\ refused \subseteq Ids \X Agents
    /\ DOMAIN groups \subseteq Ids
    /\ \A g \in DOMAIN groups :
           groups[g] \in [profile : Profiles, members : SUBSET agents, version : 0..MaxVersion]
    /\ memberOf \in [Agents -> SUBSET Ids]
    /\ nextId \in Ids /\ valid \in BOOLEAN
    /\ pending \subseteq Ids /\ adopting \subseteq Ids /\ calls \subseteq Operations

\* A membership row names a group that has a row, whatever the order in which
\* the workers commit what the world thread submitted.
NoOrphanMembership == \A e \in edges : e[1] \in DOMAIN rows

\* The reverse index answers exactly what the member lists say.
IndexAgrees ==
    \A a \in Agents : memberOf[a] = {g \in DOMAIN groups : a \in groups[g].members}

Creating(g) == \E op \in calls : op.do = "create" /\ op.group = g

\* An operation holds g, or is about to bring it into being.
UnderWay(g) == g \in pending \/ Creating(g)

Quiet(g) == Up /\ ~ UnderWay(g)

\* When no operation on a group is in flight, the registry has it exactly when
\* the table has, and knows every member the table knows, but for rows the
\* start skipped: agents it did not register or that the profile the group had
\* then refused (an adoption after the start does not load them).
RegistryFollowsTables ==
    /\ TypeOK /\ IndexAgrees
    /\ \A g \in Ids : Quiet(g) =>
          /\ g \in DOMAIN groups <=> g \in DOMAIN rows
          /\ g \in DOMAIN groups =>
                 /\ \A a \in groups[g].members : <<g, a>> \in edges
                 /\ \A a \in agents \ groups[g].members :
                        <<g, a>> \in edges => <<g, a>> \in refused

\* At any moment the server may stop: the sequence row must then still be one
\* the next start trusts, or no group could be created any more; unless a
\* connection was lost inside a transaction (Reconnect).
AllocatorSurvives == lost = 0 => HighWaterMark

\* The profile an adoption was confirmed with, or the one before it, is not
\* undone by a save built from older memory.
ProfileKept ==
    \A g \in DOMAIN groups \intersect DOMAIN rows :
        g \notin adopting => rows[g].profile = groups[g].profile

\* Every operation is answered, and its group is free for the next one, unless
\* the server goes down first (which forgets both).
Answered == \A g \in Ids \ {TopId} : UnderWay(g) ~> ~ UnderWay(g)

\* The tables implement the abstract store of groups.
Store == INSTANCE GroupStore WITH
    groups <- [g \in DOMAIN rows |-> rows[g].profile],
    members <- edges

ImplementsStore == Store!Spec

=============================================================================
