# A TLA+ verification of the AIWorld subsystem

This directory models parts of `src/server/game/AIWorld`, the subsystem that a
TrinityCore 3.3.5a fork adds to the game server: creatures with needs, goals and
memories, a small food economy, groups and coalitions, quests that creatures offer by
themselves, and decisions and advice asked of an external model server.
The rest of the repository (the server core, libraries, SQL, Python services,
tools) is upstream code or tooling; what AIWorld relies on of it (the clock,
`Player::ModifyMoney`, `Unit::Kill`, creatures that load, die and respawn, the database
workers) appears as actions of the modules.

Paths below are relative to `src/src/server/game/AIWorld` unless they start with
`src/`.

## 1. Inventory

### How the server runs AIWorld

`World::Update` runs on one thread. Each round it reads the clock
(`GameTime::UpdateGameTimers`; the *system* clock, which may be set back), handles
the packets of the sessions (gossip clicks), updates the maps (on map threads, and
waits for them) and then calls `AIWorldMgr::Update`. Creature AI hooks and kills run
on map threads and only publish values into mutex-protected buses, which
`AIWorldMgr::Update` drains. The inference client and the telemetry exporter have
threads of their own and hand their answers over in queues. Everything is state in
memory except agents, groups, memories and reputations, which are written to the
database asynchronously.

### Components

| Component | State | Operations | What is hard | What makes it correct |
|---|---|---|---|---|
| Food ledger, `Agent/LivingSupplyState.h` | depots, fields, actors with cargo and a claim, carcasses, claim serial, totals | configure/register, RegisterCarcass, CloseCarcass, Reserve, Commit, Cancel, Expire, HarvestField, Steal, Load, Deliver, EatDepot, DropCargo | harvests and commits sweep what is overdue first; repeated and stale calls; unsigned arithmetic; the clock may go back | reservations equal the claims; food is conserved; an event counts once; no capacity is exceeded; fields grow at their pace |
| Supply runtime, `LivingSupply.cpp`, `LivingFields.cpp`, `LivingWolf.cpp`, `LivingResidentsV11.cpp` | per actor trip, claim, phase; per prey guid, life, alive | observe creatures, claim, commit, deliver, eat | creatures respawn and unload between steps of a trip | one corpse is one carcass; a claim is settled by its owner |
| Caravans and raids, `LivingCaravan.cpp`, `LivingRaid.cpp`, `LivingRaidGroup.cpp` | trips, parties, memory of the last raids | form, travel, load or steal, return | party members drop out; stock changes under way | what leaves a depot arrives, is dropped or is lost, once |
| Dynamic quests, `Quest/*`, `AIWorldMgr.cpp`, `CreatureAI/AIWorldCreatureAI.cpp` | registry with an index by giver, id counter, kill bus, scan cursor | offer, accept, progress, turn in, fail, expire, gossip | kills from map threads, bus overflow, payments that scripts change, givers that respawn, bounded maintenance | see section 3 |
| Dynamic tasks, `AIWorldMgr.cpp`, `Inference/DynamicTask*.cpp` | pending requests by agent | submit, receive, validate | late answers to requests given up | an answer is used only for the request it belongs to, and facts are checked again |
| Inference client, telemetry exporter | sessions, slots, response queue | submit, resolve, connect, write, read, time out | timers race answers, over two strands | exactly one response for each request |
| Advice budget, `Agent/LivingAdvice*.h` | a queue of waiting actors, the one offer, the run of urgent turns | offer, refresh, acquire, cancel, expire | an actor that is offered a turn may never come for it | three returns to one search; nobody waits for ever |
| Agent groups, `Agent/AgentGroup*.cpp`, `Persistence/AgentGroupPersistence.cpp` | groups and members in memory and in the database, the id sequence | create, join, leave, dissolve, adopt, save | asynchronous transactions, lost connections, restart | memory follows the database; an id is used once |
| Coalitions and hunts, `Agent/Coalition*.cpp`, `Agent/HuntIntentSystem.cpp` | attempts in flight, intents | form, maintain, dissolve | membership changes under way | one group for each agent |
| Actions and engine events, `Action/*` | the active action of each agent | start, interrupt, complete, time out | engine events of an action that was replaced | an event completes only its own action |
| World events, perception, memory | bounded bus and stores | publish, drain, observe, remember | overflow | loss is allowed, duplicates are not |
| Schedulers, goals, needs, roles | timers and scores | choose | starvation | every agent is served |
| Factions, spawn reconciliation | tables and plans | load, compare | - | pure functions and catalogues |

`PROJECT.json` lists all of them with their status, and the hazards of the code,
each at the line where it bites.

### How the components interact

The supply runtime, caravans and raids call the ledger on the world thread; the
ledger never calls back. The dynamic task path produces a validated proposal from a
model's answer and calls `CreateDynamicQuestOffer`. Gossip clicks call the accept and
turn-in methods; `Unit::Kill` publishes into the kill bus; `AIWorldMgr::Update` drains
it, looks at the drop counter, and runs maintenance at an interval. Outcomes are
published into the world event bus and come back as memories of the giver.

## 2. Modules

| Module | What it is |
|---|---|
| `PortionSums` | the sum of a function to the naturals over a finite set, and `std::min` |
| `SupplyLedger` | the ledger: one action per method, its properties |
| `SupplyLedgerProofs` | lemmas about sums, the inductive invariant of the ledger, its balances, and that it implements the book, proved |
| `CarcassBook` | abstract: what the ledger promises about carcasses and claims, without portions and times |
| `CarcassBookProofs` | the invariant of the book, proved |
| `SupplyRuntime` | EXTENDS `CarcassBook`: creatures that load, die and respawn, the passes that observe them, hunts, claims and harvests |
| `SupplyRuntimeProofs` | the invariant of the records a pass hands on, and the theorems, proved |
| `DynamicQuest` | the quests: registry, kill bus, turn-in, maintenance, its properties |
| `DynamicQuestProofs` | the shared invariant of the quests, and the theorems, proved |
| `GroupStore` | abstract: what the group tables promise to a reader |
| `GroupLifecycle` | registry, tables, transactions, workers, crashes and starts; implements `GroupStore` |
| `GroupLifecycleProofs` | the invariant of groups, tables and transactions, and that they implement `GroupStore`, proved |
| `Coalitions` | formation, maintenance and manual changes of coalitions over the operations of `GroupLifecycle` |
| `CoalitionsProofs` | the invariant of groups, operations and attempts, and the theorems, proved |
| `Inference` | the sessions of the inference client and what the world thread waits for |
| `InferenceProofs` | the invariant of sessions, counters and marks, and the theorems, proved |
| `AdviceBudget` | the queue for a turn of recovery advice |
| `AdviceBudgetProofs` | the invariant of the queue, its offer and its counters, and the ratio, proved |
| `MCMeat`, `MCVillage`, `MCSupplyRuntime`, `MCQuest`, `MCGroups`, `MCCoalitions`, `MCInference`, `MCAdviceBudget` | instances for TLC |

How they compose. `SupplyRuntime` stands on `CarcassBook` and `SupplyLedger` is proved to
implement `CarcassBook`: what the runtime relies on is what the ledger provides.
`Coalitions` treats a group operation as in flight until it completes with either
outcome; that each one does complete is `Answered` of `GroupLifecycle`. The recovery
requests of `Inference` are the ones whose turn `AdviceBudget` hands out. The offers of
`DynamicQuest` are what an accepted answer of the `task` kind of `Inference` creates.

Definitions named `..._BadXyz` are plausible slips in the definition after them. No
formula uses them. Each stands for a bug, and the `mutants` of `PROJECT.json` say
which property notices which slip.

### `SupplyLedger` and the code

| TLA+ | C++ (`Agent/LivingSupplyState.h`) |
|---|---|
| `depots`, `fields`, `actors`, `carcasses` | `_depots`, `_fields`, `_actors`, `_carcasses` |
| `nextClaim`, `tally` | `_nextClaimSerial`, `_counters` |
| `moved` | history only: what each event serial of an actor has moved |
| `DepotSpec`, `FieldSpec`, `Roster`, `ConfigurationAssumption` | `ConfigureDepot`, `ConfigureField`, `RegisterActor` ... and what they accept |
| `ExpiredFields`, `ExpiredActors`, `ExpiredCarcasses`, `ExpiredTally` | `Expire(now)`, as the state it leads to; `Reserve`, `Commit` and `HarvestField` begin with it |
| `RegisterCarcass` ... `DropCargo` | the methods of these names |

When one of these three is refused after the sweep, it is the `Expire` step; any
other refused call changes nothing. Kept: all guards, early returns and their order, receipts
for repeated events, tombstones, watermarks. Left out: result texts, and counters
nothing reads back. Quantities are naturals: the code keeps them in unsigned integers,
and a subtraction that wraps there leaves the naturals here, which `TypeOK` excludes.
Upper overflow of the running totals (2^32 and 2^64) is not modelled.

A method may be called by anyone at any time with any argument from the input sets;
the real callers call less. So what holds here holds for every caller.

### `DynamicQuest` and the code

| TLA+ | C++ |
|---|---|
| `quests`, `byGiver` | `DynamicQuestRegistry::_quests`, `_questIdsByGiver` |
| `nextId` | `_nextDynamicQuestId` (0 once exhausted) |
| `cursor`, `highWater` | the maintenance cursor and the high-water mark of its cycle |
| `pending`, `nextEvent`, `dropped` | the members of `DynamicQuestKillEventBus` |
| `seenDropped`, `drained`, `updating` | `_lastObservedDynamicQuestKillDropCount` and the loop in `AIWorldMgr::Update` |
| `givers` | the creature of each giver: runtime guid, and alive / materialized / AI-controlled |
| `history`, `published`, `latest` | history only |
| actions | the methods of the same names; `Kill` is `Unit::Kill` with `Publish` |

`Drain`, one `ProcessDynamicQuestKillProgress` per event and
`ReclaimDynamicQuestsAfterKillCreditLoss` are separate steps: kills may enter the bus,
or be dropped, between any two of them, but no other work of the world thread may. The
drop counter is thus read some time after the drain, as in the code. (The server waits
for the map threads before it calls `Update`; the bus itself does not rely on that,
and neither does the model.) A turn-in is one step: the payment, its verification, its reversal and
the containment all happen within one call on the world thread. What scripts make of
an amount is a choice from `ScriptedAmounts`, for the payment and again for its
reversal. Not modelled: ranges, phases and online checks (a refused call changes
nothing), chat texts, the gossip flag bookkeeping of the creature, the memory of
recent outcomes (counts as no quest), the gate that stops publication at shutdown.

### `SupplyRuntime` and the code

| TLA+ | C++ |
|---|---|
| `prey`, `npc`, `spawned`, `deaths` | the creatures of TrinityCore: guid and alive, by spawn |
| `seen` | `_supplySources` (`SourceRuntime`: guid, life, alive) |
| `actors` | `_supplyActors` (`ActorRuntime`: guid, live, claim, corpse) |
| `roles` | `AgentRecord::LivingRole` (guid, phase, target) |
| `last`, `open`, `claims`, `issued`, `receipts` | the ledger, as `CarcassBook` sees it |
| `PreyPass`, `HunterPass` | one needs pass of an agent: `ObserveLivingSupply`, then `UpdateLivingRole` |
| `SourceObserved`, `ActorObserved` | `ObserveLivingSupply` for prey and for hunters |
| `Claimed`, `Committed`, `ClaimCancelled`, `Stopped` | `ClaimSupplyCarcass`, `CommitSupplyCarcass`, `CancelSupplyClaim`, `StopLivingRole` |

A pass runs to its end on the world thread, so it is one action; inside, the state is
passed from call to call as a record. Distances, sight, combat and timers decide which of
several outcomes a pass has, so each of them is possible. A pass starts with `Expire`,
which may end any claims and carcasses; the later calls of the pass come with the same
`nowMs` and find nothing more to sweep.

Assumed of the server: a creature comes back under its old guid (respawn in compatibility
mode) only when its death has been observed and no hunter's role still targets the corpse.
The code knows the short respawn (`LivingRole.cpp:1946`) and witnesses the live prey before
it attacks; what remains outside is a corpse whose whole lie, a minute or more, falls
between two passes that come every few seconds. A creature that is loaded with
its grid is alive, because `Map::ShouldBeSpawnedOnGridLoad` refuses a spawn whose respawn timer
runs. An idle role keeps the guid of its last target in the code; no hunt or meal starts from it, and the
model clears it.

### `GroupLifecycle` and the code

| TLA+ | C++ |
|---|---|
| `rows`, `edges`, `sequence` | `ai_agent_groups`, `ai_agent_group_members`, `ai_agent_group_id_sequence` |
| `queue`, `worker`, `results` | the queue of `DatabaseWorkerPool`, a worker in `ExecuteTransaction`, the promise of a transaction |
| `groups`, `memberOf` | `AgentGroupRegistry` with its reverse index |
| `pending`, `adopting`, `calls` | the guards of `AgentGroupLifecycleSystem` and of the adoption, the callbacks polled by `AIWorldMgr::Update` |
| `nextId`, `valid` | the allocator of `AgentGroupPersistence` |
| `Execute`, `Commit`, `Fail`, `Reconnect` | the steps of `MySQLConnection::ExecuteTransaction` |
| `Initialize`, `FirstUpdate`, `Crash` | a start and an end of the server |

The effect of a transaction appears with its commit, as isolation has it; `Reconnect` is
the driver's reaction to a lost connection: the server rolls back, and the statement that
failed is sent again outside a transaction.

### `Coalitions` and the code

`attempts`, `reserved`, `maintaining`, `due` and `favored` are the members of `AIWorldMgr`
that the comments of the module name; an action per pass, per completion and per manual
command. The two profiles of this commit ask for different entries, so they cannot compete
for an agent; the instance lets them, because that overlap is what
`Agent/CoalitionFormationReservationKey.h` is there for. Agents that a game master moves
(`Manual`) are outside `OneLooseGroup`: the manual join looks at the confirmed groups and not at
the reservations.

### `Inference` and the code

A session is a record: the stage of its chain, the operation that runs, the timer, and how
far its completion has come (`finish`: slot, response, done; each a step, since the world
thread may look in between). `Handle` is one turn of the drain loop in
`AIWorldMgr::Update`. The handlers of a dynamic-task, recovery or npc-agent session share a
strand; those of a decision are split over the strand of the resolver with its timer and
the strand of the stream (`AIClient.cpp:521-534`), and a handler that is queued when its
timer or operation is cancelled still runs.

### `AdviceBudget` and the code

One operator per method of `LivingAdviceBudget`, on the whole object; `UpdateLivingRole`,
`Decide` and `Cancel` are its callers, `Tick` is time. What the check does not promise,
because the code does not: an actor that is offered the turn and suspends it keeps its
place, and one that asks in another class than it was offered completes a turn of that
class. `Served` names both as exceptions.

## 3. Runs

| Run | Instance and bounds | What it shows | States |
|---|---|---|---|
| `meat` | the ledger: two hunters and a wolf, one prey with two lives, 3 claims, 3 times, the clock jumps both ways for a while; fair | `TypeOK`, `ReservationsExact`, `FoodAccounted`, `ClaimsGood`, `TokensUnique`, `MeatOnlyFromNewLife`, `ClaimsSettle`, and the refinement `ImplementsBook` | 62,160 |
| `village` | the ledger: six depots, one field, two farmers, a carrier and a raider, 2 serials, 3 times | `WithinCapacity`, `FoodAccounted`, `EventsOnce`, `DepotBooks`, `CropsKeepPace`, `CropsNotBanked` | 241 thousand |
| `supply_runtime` | one prey and two hunters; the prey and one hunter are loaded twice, 2 deaths, 2 claims | `OneCarcassPerDeath`, `HarvestOfClaimedDeath`, `ClaimsHeld` | 631 thousand |
| `quest_credit` | two players, two kinds of creature, two quests of two kills, a bus for one event, three kills, scripted payments near the money limit, the test hook | `CreditExact`, `KillCreditKept`, `OutcomeOnce`, `RewardExact` | 1.3 million (by symmetry) |
| `quest_registry` | one giver with two incarnations, three ids, two quests at a time, scan one, scripted payments, the test hook, a clock that advances; fair | `IndexExact`, `ShownActionable`, `LiveQuestShown`, `QuestsEnd` | 66 thousand |
| `groups` | two agents of two factions, two workers, three ids, an adoption, one save of a row, crashes | `RegistryFollowsTables`, `ProfileKept`, and the refinement `ImplementsStore` | 1.0 million (by symmetry) |
| `group_creation` | one agent, two workers, four ids, two operations at a time, a lost connection, crashes; fair | `AllocatorSurvives`, `Answered` | 236 thousand |
| `coalitions` | three agents, two profiles that compete for one of them, two ids, one agent moved by hand; fair | `OneLooseGroup`, `FormationUnbroken`, `MarksExact`, `FormationEnds` | 30 thousand |
| `inference` | one agent, four kinds of request, two requests, one place for each kind; fair | `SlotsExact`, `OneAnswer`, `WaitsForWhatComes`, `EveryRequestEnds` | 179 thousand |
| `advice` | two returners, one of which also forages, a forager, two places; fair | `ThreeToOne`, `Served` | 43 thousand |
| `group_reconnect` | a connection lost inside a transaction | expected violation of `NoOrphanMembership` | - |
| `decision_connections` | two decisions, one place | expected violation of `ConnectionsBounded` | - |

Why the bounds are enough. Portions, capacities and periods of the ledger are 1 to 3: a claim takes part of
a carcass or all of it, a field is empty, partly grown or full, and
a growth period leaves a remainder. Two farmers bring a depot close to its capacity, so that
a delivery fits in part. Two lives are the fewest with which a claim can be on a
carcass that was replaced; three claims leave two actors with one each and one more issued
after a release. Serials 1..2 give a repeat, a stale serial and a gap. Two deaths and two
guids let a corpse be reloaded, and a respawned creature die again. A kill bus of one event
overflows with the second kill. Three quests and a scan of one put removals and creations
inside a cycle of the scan; a registry of two is full before the ids run out, and a script
that pays more than was promised and lets nothing be taken back ends a quest by
termination. Three group ids are the group of the migration, one that is created and the one after the last.
`MaxCalls` bounds the operations that are not answered yet: four in `groups`,
more than its ids and agents allow, and two
in `group_creation`, where one waits for a worker, runs or is answered while another is at any
other stage. Two requests are an old and a
new one of one agent: a late answer and the place it left. `KillCreditKept` is stated for
quests that have never been past their deadline: with a clock that is set back, a quest that
was expired when a loss was handled is left alone and may be live again, without the credit
that was lost.

The passing group runs are checked without lost connections, except `group_creation`, in
which `AllocatorSurvives` is stated for states without one; `group_reconnect` is what a lost
connection does.

### What the two violations show

`group_reconnect`. The server loses its connection in a dissolution, after the deletion of
the members. `_HandleMySQLErrno` reconnects and `Execute` repeats the statement that failed
(`src/server/database/Database/MySQLConnection.cpp:251`); the new connection is in autocommit
mode, the server has rolled back the first statement, and so the row of the group is
deleted and its memberships stay, which the comment at `CharacterDatabase.cpp:830` says
cannot happen. The next start skips such rows and never deletes them.

`decision_connections`. The resolve timer of a decision has its handler queued when the
resolver's handler cancels it. The handler completes the request and gives its slot back
while the stream connects; `OnConnect` and `OnWrite` do not look at `_completed`, so the
request is sent, next to the one that took its slot: the server sees more requests than
`MaxDecisionsInFlight`. The answer of the first is dropped, so `OneAnswer` holds.

### Observations without a run

* `FindOfferedByGiver` (`Quest/DynamicQuestRegistry.cpp:175`) returns the first *offered*
  quest of a giver whether it is expired or not, and `GetDynamicQuestGossipContent` then drops
  it because it is expired, so that a newer live offer stays hidden until maintenance removes
  the old one; the comment at `AIWorldMgr.cpp:11009` promises "live Offered from this giver".
  At this commit only a test hook that fires once creates offers.
* The result of `COMMIT` is not looked at (`MySQLConnection.cpp:386`): a connection lost at
  that moment is reported as success. `GroupLifecycle!Reconnect` contains the step.
* `RequestJoinGroup` compares the faction of a new member with the members that are loaded
  (`Agent/AgentGroupLifecycleSystem.cpp:180`). A start that excludes an agent leaves its
  membership row; a member of another faction can then join a group without a profile, and
  the next start loads both.
* The telemetry exporter cancels its resolve timer as the decision session does, and frees
  `_inFlight` while a connection is being made if the handler was already queued.
* Two actors of the advice queue that take it in turns to suspend their offer hold up all
  behind them (`Agent/LivingAdviceBudget.h:51`).

### Fairness

* `SupplyLedger!FairSpec`: a clock that in the end is not set back and advances, and weak
  fairness of `Expire`, which every observation of a supply creature calls
  (`LivingSupply.cpp:267`, `LivingResidentsV11.cpp:126`, from the update of the agents at
  `AIWorldMgr.cpp:11730`). Nothing is assumed of the claimants.
* `DynamicQuest!FairSpec`: a clock that advances and is not set back, weak fairness of the
  update (the loop over the drained events is finite) and of `RunDynamicQuestMaintenance`,
  which runs at its interval unconditionally (`AIWorldMgr.cpp:8806`). Nothing is assumed of
  players or givers.
* `GroupLifecycle!FairSpec`: each worker goes on as long as it has something to do (one
  condition for its loop, not one for each statement), and every update polls every callback, so
  that what was executed for a group is confirmed. Nobody is obliged to request anything, and crashes are not
  bounded.
* `Coalitions!FairSpec`: every operation is answered (`Answered` above).
* `Inference!FairSpec`: the threads of the `io_context` run what is ready, every operation
  has a deadline, and every update drains the responses.
* `AdviceBudget!FairSpec`: time passes, an update of an actor comes to its end, and some
  actor is updated in every interval of the sweep. No actor is obliged to ask for its turn.

Deadlock is checked in `meat`, `village`, `advice` and the quest runs. In the others the
bounds (ids, guids, requests) or an exhausted instance may really leave nothing to do.

## 4. Proofs

`SupplyLedgerProofs` proves, for every configuration that the named assumptions admit
(any finite number of depots, fields, actors and sources, any capacities, any set of
times, lives, serials and requests):

* `LedgerSound`: `Spec => []Sound`
* `LedgerTypes`: `Spec => []TypeOK`
* `LedgerCapacity`: `Spec => []WithinCapacity`
* `LedgerReservations`: `Spec => []ReservationsExact`
* `LedgerClaims`: `Spec => []ClaimsGood`

None of the four invariants is inductive by itself. `Release` subtracts the amount of a
claim from the reservation of its carcass without a check, so that `TypeOK` needs
`ReservationsExact`; a commit takes the claimed amount from the carcass and adds it to
the cargo, so that `WithinCapacity` needs `ClaimsGood`; and a claim is good only because
the room it reserved is still there. `Sound` is the conjunction of the four (lemma
`SoundSplit`), regrouped into the books of claims (`ClaimBooks`, on actors and carcasses)
and the other stores (`StoreBooks`), so that each action touches few of its conjuncts.

The argument. `Settle` shows that releasing the claims of a set of actors and closing a
set of carcasses keeps `ClaimBooks`, provided every claim on a closed carcass is among
those released. `ExpireSound` uses it for the sweep; because `Reserve`, `Commit` and
`HarvestField` begin with the sweep, their lemmas start from the swept state, for which `ClaimBooks` is stated as a
condition on a pair of maps and not of the variables. Then there is one lemma per
action, and `LedgerSound` joins them. The sums over actors are handled by the lemmas of
the first part of the module, which are proved from the theory of finite sets.

The assumptions are `PortionAssumption`, `InputAssumption` and
`ConfigurationAssumption` of `SupplyLedger`; TLC evaluates them in every ledger run. The last states what
the configuration methods of the code accept, since the feature is disabled when one of
them refuses.

### The ledger implements the book of carcasses

`CarcassBook` says what the runtime relies on: a source has at most one open carcass, that
of its last registered life; a claim is on an open carcass, has a serial of its own, and is
honoured at most once. The last part of `SupplyLedgerProofs` proves

* `LedgerImplementsBook`: `Spec => ImplementsBook`, that is, `Spec` of the ledger implies the
  specification of the book under the mapping that forgets portions, times and reservations;
* `LedgerTokens`: `Spec => []TokensUnique`.

Each action of the ledger is one step of the book or leaves it alone: the sweep of `Expire`
is a `Sweep` of what is due, `Reserve` and `Commit` are their namesakes after such a sweep,
`CloseCarcass` and `Cancel` are sweeps of one carcass or claim, `DropCargo` is `Forget`. The
one thing this needs of the ledger is that a commit which finds its claim still pending
after its own sweep honours it (lemma `AlwaysHonoured`, from `ClaimsGood`): otherwise the
branch `CLAIM_INVALIDATED` would be a step of its own.

`BookClaimsOpen` (`CarcassBookProofs`) proves the invariant of the book. `LedgerTokens` is not proved on
the ledger again: the invariant of the book holds of the mapped ledger because the ledger
implements it, and the mapped state says all `TokensUnique` needs of the pending claims.

### The accounts of the ledger

The second part of `SupplyLedgerProofs` proves the balances, from `Sound` and one more conjunct each:

* `LedgerFood`, `LedgerBooks`: `Spec => []FoodAccounted`, `Spec => []DepotBooks`. Both balances
  and the totals over the depots are one invariant, `Balances`, of the stores and the tally. Every action
  changes at most one depot, the cargo of one actor and one carcass or field besides
  those the sweep touches, so the lemmas say once what such a change does to a total, and the
  actions differ only in their amounts.
* `LedgerEvents`: `Spec => []EventsOnce`, inductive only with the watermark of the actor: no
  serial above `lastSerial` has moved anything yet.
* `LedgerCrops`, `LedgerNothingBanked`: `CropsKeepPace` and the action property
  `CropsNotBanked`. Growth is a quotient of two variables, so the lemmas `PeriodsAdd` and
  `WholePeriods` say of products what the properties say of elapsed periods.
* `LedgerMeat`: the action property `MeatOnlyFromNewLife`.

### The supply runtime

`SupplyRuntimeProofs` proves `RuntimeDeaths` (`[]OneCarcassPerDeath`), `RuntimeClaims`
(`[]ClaimsHeld`) and `RuntimeHarvest` (the action property `HarvestOfClaimedDeath`) of
`RuntimeSpec`. A pass changes the records in several calls, so the invariant `WellKept` is
stated of the record that the calls hand on; there is a lemma for each call, and
`Inv == World /\ WellKept(Pass)` is what remains where a pass ends. Its parts:

* `LifeAhead`: the book is never ahead of the observed life, and a creature that is not known to be
  dead has not been registered in this life. Without it a second sight of one death would
  register it again.
* `DeathsApart`: the lives of a source are registered for different deaths, and not for
  one that is still to be observed: `OneCarcassPerDeath` and what makes it inductive.
* `Aimed` and `Watched`: as long as the creature that a hunter is after is there, it is the
  observed one and its carcass is that of its last death. `HarvestOfClaimedDeath` rests on it: a
  commit does not look at the creature again.
* `Held`: a pending claim is remembered by the actor and by its role. It is also what
  makes an interruption find the claim that it has to cancel.

The book inside the record satisfies `SoundIn` of `CarcassBookProofs`, of which the
operators of the book are proved there; the same lemmas thus serve the ledger, which implements
the book, and the runtime, which uses it.

### The dynamic quests

`DynamicQuestProofs` proves, for every number of players, givers, quests, kills and
times and every capacity of the bus, all seven safety properties of the quest runs:
`QuestIndex`, `QuestOutcome`, `QuestReward`, `QuestCredit`, `QuestKillCredit`, `QuestsShown`,
`LiveQuests`. They share one invariant, `Sound` (`QuestsSound`). To the
properties it adds

* `IdsFresh`: an id that was never handed out has no past, so a new quest begins with a clean
  history;
* `QuestsAgree`: an offered quest has no credit and no progress, so that acceptance starts at zero;
* `EventsInOrder`: credited events precede the drained ones, these the pending ones, and all of
  them the next number. `CreditExact` is about a set of event numbers, and an event that is
  processed is new to that set only for this reason;
* `Observed`: the drop counter the world thread has seen is not ahead, and between updates
  no drained event is left. `KillCreditKept` needs it: a drop which nobody has looked at yet is the reason
  why credit may be missing.

The index of a giver is a sequence from which ids are erased. The standard `SelectSeq` is recursive
and out of the prover's reach, and so is induction on the length of the sequence. The model
therefore defines an erase (`Without`) by rank: the k-th element of the result is the one that has k kept
positions up to it; and a search (`FirstOf`) as the first position that holds one of a set of
ids. The lemma `WithoutElements` proves of the ranks that an erase keeps exactly the other elements, in their
order.

### The inference client

`InferenceProofs` proves `InferenceSlots`, `InferenceOneAnswer` and `InferenceWaits` from
`Consistent` (`InferenceConsistent`). The properties speak of the counters, the responses and
the marks of the world thread separately. Inductive is what ties them together: the number in
a mark is a session of that kind and agent (`Expected`), a queued response belongs to a session that
says it has answered, and no two of them are of one session (`Replies`), and the counter of
a kind is the number of sessions that have not freed their slot (`SlotsHeld`).

`InferenceConnections` is the counterpart of the run `decision_connections`: `Spec => []OneStrandBounded`,
that is, `ConnectionsBounded` holds of the task, recovery and NPC requests, whose handlers share one
strand, for any limits. A slot is free before the last handlers of its session
have run; the proof adds `Admissions`: every session of such a kind that is over has its socket closed
(`CutOff`), which no handler undoes, so whoever still talks to the server still holds its slot, and the slots
are never more than the limit. The restriction is necessary: of a decision `CutOff` does not hold, and TLC
finds the bound broken. That a closed session may still be in its writing or reading stage is why the property
looks at the socket and not at the stage.

### The agent groups

`GroupLifecycleProofs` proves, from the invariant `Inv == lost \in 0..MaxLost /\ (lost = 0 => Orderly)`
(`GroupInv`):

* `GroupRegistry`, `GroupProfiles`, `GroupMembers`: `RegistryFollowsTables`, `ProfileKept` and
  `NoOrphanMembership`, as long as no connection was lost inside a transaction;
* `GroupAllocator`: `AllocatorSurvives`, which states that condition itself;
* `GroupImplements`: `Spec /\ [](lost = 0) => ImplementsStore`. Each commit is one step of `GroupStore`,
  and every other step leaves the store alone.

The condition is not a convenience: `Reconnect` breaks `NoOrphanMembership`, which is the
run `group_reconnect`. The instances of the passing runs `groups` (no lost connection) and
`group_creation` are covered.

The invariant has two halves. `Executing` says that a transaction is queued, with one worker,
or has its one result, and that the statements a worker has done and those it has still to do are the
transaction. After that only the set `Unfinished` of the operations on their way matters, and the other
conjuncts speak of it: `Created` (a create has its id for itself), `Claims` (one operation that guards a
group at a time, and its guard is set), `Adoptions`, `Settled` and
`Membership` (every difference between registry and tables is a result that waits to be told),
`ProfilesAgree` (a save on its way carries the profile of the registry, and none is on its way
during an adoption: `ProfileKept` rests on this one), `Tables`, `Registry`, `Stopped`.

The proof found one flaw of the model: after a restart a membership that the profiles refuse
to load (its row stays in the table) looked like one that was yet to be added. `refused` is the history of the rows that
the present start has refused, and `RegistryFollowsTables` excepts them.

### The coalitions

`CoalitionsProofs` proves `CoalitionLoose` (`[]OneLooseGroup`), `CoalitionUnbroken`
(`[]FormationUnbroken`) and `CoalitionMarks` (`[]MarksExact`) from `CoalitionInv`, for any
agents, members, sizes and ids, whichever operations fail and in whatever order they complete. The
properties say who is in a group; inductive is what an operation under way may rely on (`Fits`):
its group is there and has room, its agent is in no other group, and it is the step that its attempt has reached.
Two more conjuncts make sure that nothing takes this away: `OneEach` (one operation
for each group and each attempt) and the part of `Attempts` which says that two attempts
share no agent, for which the pass needs `ReservedExact`.

A completion first changes the registry and then submits the next operation of its
chain, looking at the registry as it now is; between the two the attempt has no operation. So
`Sound` is stated of a registry, operations and attempts, and survives every elementary change
(`Answer`, `Submit`, `GiveUp`, `GoOn`, `ChangeMembers`, `NewGroup`, `DropGroup`); only the end of
a step adds `Driven`, that each attempt has its operation. The assumptions are
`CoalitionConstants`: two different profiles, as the code has, with names other than those
of the two other parties that submit operations, and finitely many agents.

### The advice budget

`AdviceBudgetProofs` proves `AdviceRatio`, `Spec => []ThreeToOne`, from `Inv`
(`AdviceInv`). One call of an actor runs several methods, each handing on the object that the one
before it left, so the invariant is stated of that object (`Sound`), with a lemma
for each method. Its parts:

* `Queue`: no actor waits twice and there are at most `Places` requests. The methods look for *the*
  entry of an actor, append one, move one to the end, erase some; there is a lemma for each.
* `Ratio`: the property counts offers, the code counts completed turns. `passed` is at most `run`
  while nobody is offered a turn, and one more while a return is. This needs a fact that no
  method says: an offer is open only while the spacing is over (`b.idle = Spacing`). `Offer` drops an
  open offer when the spacing is not over, without completing its turn, so that the
  next return would be counted as the first; the invariant shows that this case never meets an
  open offer.

`std::erase_if` is restated by rank (`Keep`), like `Without` of `DynamicQuest`. The
lemmas about ranks are proved here again, because the two modules share nothing else.

### What is only model-checked

Liveness: `ClaimsSettle`, `QuestsEnd`, `Answered`, `FormationEnds`, `EveryRequestEnds`, `Served`.
The prover has no rule for fairness and `ENABLED`. Every invariant, action property and refinement
of a passing run is stated by a theorem.

A theorem is about the model for all values of the constants that the assumptions admit. That the interesting cases
do occur in the model, and that the properties notice plausible bugs, is what the runs and their
mutants show.

## 5. Plan

Done: the ledger with its proofs and its book, the observation of prey and the hunts over
it, the quests, groups and their database, coalitions, the inference client, the advice
budget, with the proofs of section 4. Next, in this order:

1. Proofs: that the runtime drives the ledger and not only its book.
2. Caravans and raids over the ledger: trips with `Load`, `Steal` and `Deliver`, parties whose members
   drop out. An abstract *food store* in which food moves between places atomically.
3. Action ownership and engine events (`Action/*`).
4. The health check and the telemetry exporter as further sessions of `Inference`; the
   validation of dynamic tasks between `Inference` and `DynamicQuest`.
5. Spawn reconciliation and the schedulers, as operators against reference definitions.

## 6. Not modelled

Scoring of goals, needs, perception and memory (floating point, with no state to relate
beyond a bounded store), catalogues of factions and spawns, SQL texts, message texts,
Python services, tools. The TrinityCore server itself, its libraries and its vendored
dependencies make up nearly all of the lines of the repository (AIWorld is about one line in
sixteen); they are third-party to this project, and only the calls AIWorld makes of them
are modelled. A share of the whole repository therefore says little of how much of AIWorld is covered,
and no honest mapping of AIWorld can make it large.
