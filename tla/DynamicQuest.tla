---------------------------- MODULE DynamicQuest ----------------------------
(***************************************************************************)
(* Dynamic quests: AIWorld/Quest/* (lifecycle, registry, id allocator, kill *)
(* event bus, acceptance and completion checks) and their orchestration in *)
(* AIWorldMgr.cpp and AIWorldCreatureAI.cpp.                               *)
(*                                                                         *)
(* Threads.  The registry belongs to the world thread: gossip clicks,      *)
(* turn-ins, offers and maintenance run there to completion.  Kills are    *)
(* published by map threads into the bus, under its mutex, at any time; the *)
(* world thread drains the bus at the start of AIWorldMgr::Update and then  *)
(* looks at the drop counter, so the drain is modelled as several steps     *)
(* that no other work of the world thread can come between.                *)
(*                                                                         *)
(* A call that is refused leaves everything as it is: a stuttering step.   *)
(***************************************************************************)
EXTENDS Sequences, FiniteSetsExt

CONSTANTS
  Givers, Players,
  Targets,             \* (creature entry, map) pairs
  Nobody,              \* the empty ObjectGuid
  MaxLive,             \* AIWorld.DynamicQuestMaxLive
  ScanMaxPerPass,      \* AIWorld.DynamicQuestMaintenanceScanMaxPerPass
  MaxPendingEvents,    \* capacity of the kill event bus
  MaxId,               \* last quest id (numeric_limits<uint64>::max())
  MaxMs,               \* last time (numeric_limits<uint64>::max())
  MaxMoney,            \* MAX_MONEY_AMOUNT
  TestKillCreditLoss,  \* AIWorld.TestDynamicQuestKillCreditLoss
  \* Inputs
  StartMs, Times,
  RequiredCounts, Rewards, Expiries,   \* of a validated QuestProposal
  Balances,            \* what a player may own at a turn-in
  ScriptedAmounts,     \* what an OnMoneyChanged script may make of an amount
  MaxGuid,             \* bound on the incarnations of a giver
  MaxKills             \* bound on the number of kills

VARIABLES
  now,          \* CurrentTimeMs(); the system clock may be set back
  givers,       \* per giver: the runtime guid of its creature, and whether it can be talked to
  quests,       \* _quests: a function on the registered ids
  byGiver,      \* _questIdsByGiver
  nextId,       \* _nextDynamicQuestId; 0 when exhausted
  cursor,       \* _dynamicQuestMaintenanceCursor
  highWater,    \* _dynamicQuestMaintenanceCycleHighWater
  pending,      \* the bus: _pending
  nextEvent,    \* the bus: _nextEventId
  dropped,      \* the bus: _droppedEvents
  seenDropped,  \* _lastObservedDynamicQuestKillDropCount
  drained,      \* the events taken from the bus and not yet processed
  updating,     \* the world thread is between the drain and the drop check
  testArmed,    \* the test hook is enabled and has not fired
  history,      \* per id: outcomes published, reward promised, money moved, kills earned
  published,    \* history: the kills that entered the bus
  latest        \* history: the highest clock value so far

registryVars == <<quests, byGiver, nextId, history>>
scanVars == <<cursor, highWater>>
busVars == <<pending, nextEvent, dropped, published>>
updateVars == <<seenDropped, drained, updating, testArmed>>
worldVars == <<now, latest, givers>>
vars == <<registryVars, scanVars, busVars, updateVars, worldVars>>

Ids == 1..MaxId
Registered == DOMAIN quests

ASSUME QuestAssumption ==
  /\ {MaxLive, ScanMaxPerPass, MaxPendingEvents, MaxId, MaxMoney} \subseteq Nat \ {0}
  /\ RequiredCounts \cup Expiries \subseteq Nat \ {0}
  /\ Rewards \cup Balances \cup Times \cup {MaxMs, MaxGuid, MaxKills} \subseteq Nat
  /\ ScriptedAmounts \subseteq Int
  /\ StartMs \in Times /\ \A t \in Times : t <= MaxMs
  /\ \A b \in Balances : b <= MaxMoney
  /\ Nobody \notin Players
  /\ TestKillCreditLoss \in BOOLEAN
  /\ IsFiniteSet(Givers) /\ IsFiniteSet(Players)

---------------------------------------------------------------------------
(* State *)

Quest == [state : {"Offered", "Active"}, giver : Givers, guid : Nat, target : Targets,
          required : Nat, progress : Nat, reward : Nat, expires : Nat,
          holder : Players \cup {Nobody}, consumed : SUBSET Nat]
Outcomes == {"Completed", "Failed", "Expired"}
KillEvent == [id : Nat, killer : Players, target : Targets]

Init ==
  /\ now = StartMs /\ latest = StartMs
  /\ givers = [g \in Givers |-> [guid |-> 1, available |-> TRUE]]
  /\ quests = <<>> /\ byGiver = [g \in Givers |-> <<>>] /\ nextId = 1
  /\ cursor = 0 /\ highWater = 0
  /\ pending = <<>> /\ nextEvent = 1 /\ dropped = 0 /\ published = {}
  /\ seenDropped = 0 /\ drained = <<>> /\ updating = FALSE
  /\ testArmed = TestKillCreditLoss
  /\ history = [i \in Ids |-> [outcomes |-> <<>>, promised |-> 0, paid |-> 0, earned |-> 0]]

\* IsDynamicQuestExpired, IsDynamicQuestObjectiveComplete.
IsExpired(q) == now >= q.expires
IsObjectiveComplete(q) == q.progress >= q.required

---------------------------------------------------------------------------
(* The world around the quests *)

\* World::Update reads the clock once, before anything else runs.
Clock(t) ==
  /\ ~updating
  /\ now' = t /\ latest' = Max({latest, t})
  /\ UNCHANGED <<givers, registryVars, scanVars, busVars, updateVars>>

\* The giver dies, is unloaded or loses its AIWorld control ...
GiverLeaves(g) ==
  /\ givers[g].available
  /\ givers' = [givers EXCEPT ![g].available = FALSE]
  /\ UNCHANGED <<now, latest, registryVars, scanVars, busVars, updateVars>>

\* ... and comes back as the same or as a new incarnation.
GiverReturns(g, guid) ==
  /\ ~givers[g].available
  /\ guid \in {givers[g].guid, givers[g].guid + 1} /\ guid <= MaxGuid
  /\ givers' = [givers EXCEPT ![g] = [guid |-> guid, available |-> TRUE]]
  /\ UNCHANGED <<now, latest, registryVars, scanVars, busVars, updateVars>>

---------------------------------------------------------------------------
(* The registry.  A definition named ..._BadXyz is a plausible slip in the *)
(* definition that follows it and is used by no formula here.              *)

\* Slip: the counter wraps around to 1.
NextAfter_BadWrap(id) == IF id = MaxId THEN 1 ELSE id + 1

\* AdvanceDynamicQuestIdCounter: 0 for ever once the last id is out.
NextAfter(id) == IF id = MaxId THEN 0 ELSE id + 1

SaturatingAdd(t, d) == IF d > MaxMs - t THEN MaxMs ELSE t + d

RegistryFull == Cardinality(Registered) >= MaxLive

\* Slip: the index by giver is left alone.
Remove_BadIndex(ids) ==
  /\ quests' = Restrict(quests, Registered \ ids)
  /\ byGiver' = byGiver

\* The sequence s without the elements of ids, the rest in their order.
Without(s, ids) ==
  LET kept == {n \in DOMAIN s : s[n] \notin ids}
      Rank(n) == Cardinality({m \in kept : m <= n})
  IN [k \in 1..Cardinality(kept) |-> s[CHOOSE n \in kept : Rank(n) = k]]

\* Remove the quests ids from the registry.
Remove(ids) ==
  /\ quests' = Restrict(quests, Registered \ ids)
  /\ byGiver' = [g \in Givers |-> Without(byGiver[g], Registered \ DOMAIN quests')]

\* A terminal transition of the quests ids and its outcome event.
PublishOutcome(ids, outcome) ==
  [i \in Ids |-> IF i \in ids
                 THEN [history[i] EXCEPT !.outcomes = Append(@, outcome)] ELSE history[i]]

\* CreateDynamicQuestOffer, for a proposal about the giver's present
\* incarnation and a target that is still there.
CreateDynamicQuestOffer(g, target, required, reward, expiry) ==
  LET id == nextId
  IN /\ ~updating
     /\ ~RegistryFull
     /\ givers[g].available
     /\ id # 0
     /\ nextId' = NextAfter(id)
     /\ IF id \in Registered
        THEN UNCHANGED <<quests, byGiver, history>>       \* DuplicateQuestId
        ELSE /\ quests' = [i \in Registered \cup {id} |->
                IF i # id THEN quests[i]
                ELSE [state |-> "Offered", giver |-> g, guid |-> givers[g].guid,
                      target |-> target, required |-> required, progress |-> 0,
                      reward |-> reward, expires |-> SaturatingAdd(now, expiry),
                      holder |-> Nobody, consumed |-> {}]]
             /\ byGiver' = [byGiver EXCEPT ![g] = Append(@, id)]
             /\ history' = [history EXCEPT ![id].promised = reward]
     /\ UNCHANGED <<scanVars, busVars, updateVars, worldVars>>

---------------------------------------------------------------------------
(* What a giver shows a player, and what the player makes of it *)

\* The first of the giver's quests, in the order of the index, that is one of
\* ids; 0 if none is.
FirstOf(g, ids) ==
  LET at == {n \in DOMAIN byGiver[g] : byGiver[g][n] \in ids}
  IN IF at = {} THEN 0 ELSE byGiver[g][Min(at)]

\* Slip: any incarnation of the giver will do.
FindOfferedByGiver_BadGuid(g) ==
  FirstOf(g, {i \in Registered : quests[i].state = "Offered"})

FindOfferedByGiver(g) ==
  FirstOf(g, {i \in Registered : quests[i].state = "Offered" /\ quests[i].guid = givers[g].guid})

\* What p holds of the giver's present incarnation, and what of it is live.
HeldBy(g, p) ==
  {i \in Registered : /\ quests[i].state = "Active"
                      /\ quests[i].guid = givers[g].guid /\ quests[i].holder = p}
LiveHeldBy(g, p) == {i \in HeldBy(g, p) : ~IsExpired(quests[i])}

\* Slip: the first match is taken, expired or not.
FindActiveByGiverAndPlayer_BadFirst(g, p) == FirstOf(g, HeldBy(g, p))

\* A quest that is not expired is preferred.
FindActiveByGiverAndPlayer(g, p) ==
  LET live == FirstOf(g, LiveHeldBy(g, p))
  IN IF live # 0 THEN live ELSE FirstOf(g, HeldBy(g, p))

HasLiveInstanceForGiver(g) ==
  FirstOf(g, {i \in Registered : quests[i].guid = givers[g].guid /\ ~IsExpired(quests[i])}) # 0

\* GetDynamicQuestGossipContent; the memory of a recent outcome counts as NoQuest.
GossipContent(g, p) ==
  LET active == FindActiveByGiverAndPlayer(g, p)
      offered == FindOfferedByGiver(g)
  IN IF active # 0 /\ ~IsExpired(quests[active])
     THEN [kind |-> IF IsObjectiveComplete(quests[active]) THEN "ReadyToTurnIn" ELSE "Active",
           id |-> active]
     ELSE IF offered # 0 /\ ~IsExpired(quests[offered])
     THEN [kind |-> "Offered", id |-> offered]
     ELSE [kind |-> "NoQuest", id |-> 0]

\* The giver of quest q can be talked to and is the incarnation that offered it.
GiverApplicable(q) == givers[q.giver].available /\ givers[q.giver].guid = q.guid

\* AcceptDynamicQuest accepts.
Acceptable(q) == q.state = "Offered" /\ ~IsExpired(q)

\* CompleteDynamicQuest accepts.
Completable(q) == q.state = "Active" /\ ~IsExpired(q) /\ IsObjectiveComplete(q)

\* The player clicks "Accept"; the content is looked up afresh.
AcceptDynamicQuestForPlayer(g, p) ==
  LET content == GossipContent(g, p)
  IN /\ ~updating
     /\ givers[g].available
     /\ content.kind = "Offered"
     /\ GiverApplicable(quests[content.id])
     /\ Acceptable(quests[content.id])
     /\ quests' = [quests EXCEPT ![content.id].state = "Active", ![content.id].holder = p]
     /\ UNCHANGED <<byGiver, nextId, history, scanVars, busVars, updateVars, worldVars>>

\* Player::ModifyMoney of this amount, of which the scripts make `applied'.
ModifyMoney(balance, amount, applied) ==
  IF amount = 0 THEN [ok |-> TRUE, balance |-> balance]
  ELSE IF applied < 0 THEN [ok |-> TRUE, balance |-> Max({balance + applied, 0})]
  ELSE IF balance < MaxMoney - applied THEN [ok |-> TRUE, balance |-> balance + applied]
  ELSE [ok |-> FALSE, balance |-> balance]

\* rewardGranted and exactRewardApplied.
RewardApplied(balance, reward, grant) == grant.ok /\ grant.balance = balance + reward

\* The preflight on the money limit.
RewardFits(balance, reward) == reward = 0 \/ balance + reward < MaxMoney

\* Slip: a failed compensation leaves the quest as it is.
Terminate_BadKept(id, moved) ==
  /\ UNCHANGED <<quests, byGiver>>
  /\ history' = [history EXCEPT ![id].paid = @ + moved]

\* TerminateForReplayContainment, with the outcome if Fail accepts.
Terminate(id, moved) ==
  LET failed == {i \in {id} : quests[i].state = "Active" /\ ~IsExpired(quests[i])}
  IN /\ Remove({id})
     /\ history' = [PublishOutcome(failed, "Failed") EXCEPT ![id].paid = @ + moved]

\* The player clicks "Turn in".  The reward is paid, verified, and then the
\* quest completed; a reward that is not exact is taken back, and if that
\* cannot be verified the quest is terminated.  One that is taken back leaves
\* the quest as it was.
CompleteDynamicQuestForPlayer(g, p, balance) ==
  LET content == GossipContent(g, p)
      id == content.id
      q == quests[id]
  IN /\ ~updating
     /\ givers[g].available
     /\ content.kind = "ReadyToTurnIn"
     /\ GiverApplicable(q) /\ q.holder = p /\ Completable(q)
     /\ RewardFits(balance, q.reward)
     /\ \E applied \in ScriptedAmounts \cup {q.reward} :
          LET grant == ModifyMoney(balance, q.reward, applied)
              delta == grant.balance - balance
          IN \/ /\ RewardApplied(balance, q.reward, grant)
                /\ Remove({id})
                /\ history' = [PublishOutcome({id}, "Completed") EXCEPT ![id].paid = @ + delta]
             \/ /\ ~RewardApplied(balance, q.reward, grant)
                /\ \E reverted \in ScriptedAmounts \cup {-delta} :
                     LET back == ModifyMoney(grant.balance, -delta, reverted)
                     IN /\ ~(back.ok /\ back.balance = balance)
                        /\ Terminate(id, back.balance - balance)
     /\ UNCHANGED <<nextId, scanVars, busVars, updateVars, worldVars>>

---------------------------------------------------------------------------
(* Kills *)

\* The event enters the bus.
Publish(event) ==
  /\ pending' = Append(pending, event)
  /\ published' = published \cup {event}
  /\ nextEvent' = nextEvent + 1
  /\ UNCHANGED dropped

\* Player p kills a creature (Unit::Kill on a map thread).
Kill(p, target) ==
  /\ nextEvent + dropped <= MaxKills
  /\ IF Len(pending) >= MaxPendingEvents
     THEN /\ dropped' = dropped + 1
          /\ UNCHANGED <<pending, nextEvent, published>>
     ELSE Publish([id |-> nextEvent, killer |-> p, target |-> target])
  /\ history' = [i \in Ids |->
        IF /\ i \in Registered
           /\ quests[i].state = "Active" /\ quests[i].holder = p /\ quests[i].target = target
        THEN [history[i] EXCEPT !.earned = @ + 1] ELSE history[i]]
  /\ UNCHANGED <<quests, byGiver, nextId, scanVars, updateVars, worldVars>>

\* AIWorldMgr::Update takes everything from the bus.
Drain ==
  /\ ~updating
  /\ pending # <<>> \/ dropped # seenDropped
  /\ updating' = TRUE
  /\ drained' = pending /\ pending' = <<>>
  /\ UNCHANGED <<seenDropped, testArmed, nextEvent, dropped, published,
                 registryVars, scanVars, worldVars>>

\* FindActiveByPlayerAndVictimEntry.
Matches(q, event) ==
  q.state = "Active" /\ q.holder = event.killer /\ q.target = event.target

\* Slip: the objective may be overfulfilled.
CountsFor_BadUnlimited(q, event) == ~IsExpired(q) /\ event.id \notin q.consumed

\* ApplyDynamicQuestProgress accepts the event for a quest it matches.
CountsFor(q, event) ==
  ~IsExpired(q) /\ event.id \notin q.consumed /\ q.progress < q.required

ProcessDynamicQuestKillProgress ==
  LET event == Head(drained)
  IN /\ updating /\ drained # <<>>
     /\ drained' = Tail(drained)
     /\ quests' = [i \in Registered |->
          IF Matches(quests[i], event) /\ CountsFor(quests[i], event)
          THEN [quests[i] EXCEPT !.progress = @ + 1, !.consumed = @ \cup {event.id}]
          ELSE quests[i]]
     /\ UNCHANGED <<byGiver, nextId, history, seenDropped, updating, testArmed,
                    scanVars, busVars, worldVars>>

\* The quests that FailDynamicQuest accepts.
FailableQuests == {i \in Registered : quests[i].state = "Active" /\ ~IsExpired(quests[i])}

\* ForceFailAllActiveDynamicQuestsForKillCreditLoss.
ForceFailAll ==
  /\ Remove(FailableQuests)
  /\ history' = PublishOutcome(FailableQuests, "Failed")
  /\ UNCHANGED nextId

\* Slip: a drop is noted and nothing else.
LossDetected_BadNever == FALSE

LossDetected == dropped > seenDropped

\* ReclaimDynamicQuestsAfterKillCreditLoss, after the last drained event.
ReclaimDynamicQuestsAfterKillCreditLoss ==
  /\ updating /\ drained = <<>>
  /\ updating' = FALSE
  /\ seenDropped' = dropped
  /\ IF LossDetected THEN ForceFailAll ELSE UNCHANGED registryVars
  /\ UNCHANGED <<drained, testArmed, scanVars, busVars, worldVars>>

\* The test hook simulates one loss.
TryRunTestDynamicQuestKillCreditLoss ==
  /\ ~updating
  /\ testArmed /\ FailableQuests # {}
  /\ testArmed' = FALSE
  /\ ForceFailAll
  /\ UNCHANGED <<seenDropped, drained, updating, scanVars, busVars, worldVars>>

---------------------------------------------------------------------------
(* Maintenance: a bounded scan per pass, in cycles over the ids that were  *)
(* registered when the cycle began.                                        *)

GetHighestId == Max(Registered \cup {0})

\* The first ScanMaxPerPass registered ids after `after' and up to `until'.
GetIdsAfterUntil(after, until) ==
  LET ids == {i \in Registered : after < i /\ i <= until}
  IN {i \in ids : Cardinality({j \in ids : j < i}) < ScanMaxPerPass}

\* Slip: no new cycle is begun at the end of the last one.
ScanFrom_BadEnd ==
  [after |-> cursor, until |-> IF cursor = 0 THEN GetHighestId ELSE highWater]

\* Where this pass starts and how far its cycle goes.
ScanFrom ==
  LET until == IF cursor = 0 THEN GetHighestId ELSE highWater
  IN IF cursor # 0 /\ GetIdsAfterUntil(cursor, until) = {}
     THEN [after |-> 0, until |-> GetHighestId]
     ELSE [after |-> cursor, until |-> until]

RunDynamicQuestMaintenance ==
  LET discovered == GetIdsAfterUntil(ScanFrom.after, ScanFrom.until)
      expired == {i \in discovered : IsExpired(quests[i])}
  IN /\ ~updating
     /\ highWater' = ScanFrom.until
     /\ cursor' = IF discovered = {} THEN ScanFrom.after ELSE Max(discovered)
     /\ Remove(expired)
     /\ history' = PublishOutcome(expired, "Expired")
     /\ UNCHANGED <<nextId, busVars, updateVars, worldVars>>

---------------------------------------------------------------------------
AtGiver(g) ==
  \/ GiverLeaves(g)
  \/ \E guid \in 1..MaxGuid : GiverReturns(g, guid)
  \/ \E target \in Targets, required \in RequiredCounts, reward \in Rewards,
        expiry \in Expiries : CreateDynamicQuestOffer(g, target, required, reward, expiry)
  \/ \E p \in Players : \/ AcceptDynamicQuestForPlayer(g, p)
                        \/ \E balance \in Balances : CompleteDynamicQuestForPlayer(g, p, balance)

Update ==
  \/ Drain
  \/ ProcessDynamicQuestKillProgress
  \/ ReclaimDynamicQuestsAfterKillCreditLoss

Next ==
  \/ \E t \in Times : Clock(t)
  \/ \E g \in Givers : AtGiver(g)
  \/ \E p \in Players, target \in Targets : Kill(p, target)
  \/ Update
  \/ TryRunTestDynamicQuestKillCreditLoss
  \/ RunDynamicQuestMaintenance

Spec == Init /\ [][Next]_vars

\* A clock that keeps advancing, and a world thread that keeps running: every
\* Update finishes its drain and runs maintenance at its interval.
FairSpec ==
  /\ Init
  /\ [][Next /\ now' >= now]_vars
  /\ WF_vars(\E t \in Times : t > now /\ Clock(t))
  /\ WF_vars(Update)
  /\ WF_vars(RunDynamicQuestMaintenance)

---------------------------------------------------------------------------
(* Properties *)

\* Every variable keeps its type: in particular only Offered and Active quests
\* stay in the registry.
TypeOK ==
  /\ now \in Times /\ latest \in Times
  /\ givers \in [Givers -> [guid : Nat, available : BOOLEAN]]
  /\ Registered \subseteq Ids /\ \A i \in Registered : quests[i] \in Quest
  /\ byGiver \in [Givers -> Seq(Ids)]
  /\ nextId \in Ids \cup {0}
  /\ {cursor, highWater} \subseteq Ids \cup {0}
  /\ {pending, drained} \subseteq Seq(KillEvent)
  /\ {nextEvent, dropped, seenDropped} \subseteq Nat
  /\ {updating, testArmed} \subseteq BOOLEAN
  /\ published \subseteq KillEvent
  /\ history \in [Ids -> [outcomes : Seq(Outcomes), promised : Nat, paid : Int, earned : Nat]]

\* The registry never holds more than DynamicQuestMaxLive quests, and its index
\* by giver lists exactly the registered quests of each giver, oldest first,
\* through every removal path (completion, termination, force-fail, expiry).
IndexExact ==
  /\ TypeOK
  /\ Cardinality(Registered) <= MaxLive
  /\ \A g \in Givers :
       /\ {byGiver[g][n] : n \in DOMAIN byGiver[g]} = {i \in Registered : quests[i].giver = g}
       /\ \A m, n \in DOMAIN byGiver[g] : m < n => byGiver[g][m] < byGiver[g][n]

\* Every id that was handed out is either still registered, with no outcome,
\* or gone with exactly one outcome; a finished quest never comes back.  (The
\* removal of a quest is the only guard against a second turn-in.)
OutcomeOnce ==
  \A i \in Ids :
    Len(history[i].outcomes) =
      IF (nextId = 0 \/ i < nextId) /\ i \notin Registered THEN 1 ELSE 0

\* Progress is the number of distinct kills that count: kills that the holder
\* made of the right creature, each once, and no more than are required.
CreditExact ==
  \A i \in Registered :
    LET q == quests[i]
    IN /\ q.progress = Cardinality(q.consumed) /\ q.progress <= q.required
       /\ \A e \in q.consumed : [id |-> e, killer |-> q.holder, target |-> q.target] \in published

\* Kill credit is authoritative: unless a loss is still to be acted on, an
\* active quest that has never been past its deadline has, or will get from
\* the events under way, every credit its holder earned since accepting it.
\* DynamicQuestKillEventBus promises that a drop never leaves a quest at a
\* progress count that may be wrong.
KillCreditKept ==
  \A i \in Registered :
    LET q == quests[i]
        Due(events) == Cardinality({n \in DOMAIN events : Matches(q, events[n])})
    IN q.state = "Active" /\ latest < q.expires /\ dropped = seenDropped =>
         q.progress + Due(drained) + Due(pending) >= Min({q.required, history[i].earned})

\* The reward is paid exactly once, in full, and only on completion: a quest
\* that can still be turned in has moved no money, whatever scripts did to the
\* payment and to its reversal, and neither has an expired one.
RewardExact ==
  \A i \in Ids :
    /\ i \in Registered => history[i].paid = 0
    /\ history[i].outcomes = <<"Completed">> => history[i].paid = history[i].promised
    /\ history[i].outcomes = <<"Expired">> => history[i].paid = 0

\* What a giver shows can be acted on: an offer it shows would be accepted and
\* a turn-in it shows would pass the lifecycle checks for that very player,
\* and the giver's gossip flag is up.
ShownActionable ==
  \A g \in Givers, p \in Players :
    LET content == GossipContent(g, p)
        q == quests[content.id]
    IN givers[g].available =>
         /\ content.kind = "Offered" => GiverApplicable(q) /\ Acceptable(q)
         /\ content.kind = "ReadyToTurnIn" => GiverApplicable(q) /\ Completable(q) /\ q.holder = p
         /\ content.kind # "NoQuest" => HasLiveInstanceForGiver(g)

\* A player who holds a live quest of the giver's present incarnation is shown
\* a quest of theirs, although an expired one may still be registered.
LiveQuestShown ==
  \A i \in Registered :
    quests[i].state = "Active" /\ ~IsExpired(quests[i])
      /\ quests[i].guid = givers[quests[i].giver].guid
    => GossipContent(quests[i].giver, quests[i].holder).kind \in {"Active", "ReadyToTurnIn"}

\* Every quest leaves the registry in the end, whatever cursor and scan limit
\* maintenance works with: the registry cannot fill up with expired quests.
QuestsEnd ==
  \A i \in Ids : i \in Registered ~> i \notin Registered
=============================================================================
