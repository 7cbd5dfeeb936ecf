--------------------------- MODULE SupplyRuntime ---------------------------
(***************************************************************************)
(* How the world thread turns what it sees of creatures into calls of the  *)
(* food ledger: deaths of prey into carcasses, and the hunts of hunters    *)
(* and predators into claims and harvests (AIWorld/LivingSupply.cpp and    *)
(* the hunting part of LivingRole.cpp).                                    *)
(*                                                                         *)
(* Creatures live, die, and are unloaded and loaded on their own; a record *)
(* learns of it when its agent has a needs pass, or when a hunter looks.   *)
(* A pass runs to its end before the next, so it is one action; it passes  *)
(* the state on from call to call as a record.                             *)
(*                                                                         *)
(* Distances, combat, sight and time are left out: whatever a check of     *)
(* these may say, the outcome is one of those listed for the pass.         *)
(***************************************************************************)
EXTENDS CarcassBook, FiniteSets

CONSTANTS
  MaxGuid,    \* bound: creatures of each spawn, one after the other
  MaxDeaths,  \* bound: deaths of a prey spawn
  MaxClaims   \* bound: claims issued

ASSUME SupplyRuntimeConstants ==
  /\ MaxGuid \in [Sources \union Actors -> Nat] /\ MaxDeaths \in Nat /\ MaxClaims \in Nat
  /\ Sources \subseteq Nat \ {0}

VARIABLES
  prey,       \* the creature of a prey spawn: [guid, alive]
  npc,        \* the creature of a hunter
  spawned,    \* guids given out for a spawn
  seen,       \* _supplySources
  actors,     \* _supplyActors: [guid, live, claim, corpse]
  roles,      \* LivingRole: [guid, phase, target]
  deaths,     \* deaths of a prey spawn (history)
  ofDeath,    \* the death for which a life of a source was registered (history)
  claimant    \* the creature that made the pending claim, or 0 (history)

creatures == <<prey, npc, spawned, deaths>>
records == <<seen, actors, roles, ofDeath, claimant>>
allVars == <<vars, creatures, records>>

Unloaded == [guid |-> 0, alive |-> FALSE]
Nothing == [source |-> 0, life |-> 0]
NoTarget == [source |-> 0, guid |-> 0]
Idle == [phase |-> "idle", target |-> NoTarget]

Spawns == Sources \union Actors

---------------------------------------------------------------------------
(* The world (TrinityCore) *)

Load(s) ==
  /\ spawned[s] < MaxGuid[s]
  /\ spawned' = [spawned EXCEPT ![s] = @ + 1]
  /\ \/ /\ s \in Sources /\ prey[s] = Unloaded
        /\ prey' = [prey EXCEPT ![s] = [guid |-> spawned[s] + 1, alive |-> TRUE]]
        /\ UNCHANGED npc
     \/ /\ s \in Actors /\ npc[s] = Unloaded
        /\ npc' = [npc EXCEPT ![s] = [guid |-> spawned[s] + 1, alive |-> TRUE]]
        /\ UNCHANGED prey
  /\ UNCHANGED <<vars, deaths, records>>

Unload(s) ==
  /\ \/ /\ s \in Sources /\ prey[s] # Unloaded
        /\ prey' = [prey EXCEPT ![s] = Unloaded] /\ UNCHANGED npc
     \/ /\ s \in Actors /\ npc[s] # Unloaded
        /\ npc' = [npc EXCEPT ![s] = Unloaded] /\ UNCHANGED prey
  /\ UNCHANGED <<vars, spawned, deaths, records>>

PreyDies(s) ==
  /\ prey[s].alive /\ deaths[s] < MaxDeaths
  /\ prey' = [prey EXCEPT ![s].alive = FALSE]
  /\ deaths' = [deaths EXCEPT ![s] = @ + 1]
  /\ UNCHANGED <<vars, npc, spawned, records>>

HunterDies(a) ==
  /\ npc[a].alive
  /\ npc' = [npc EXCEPT ![a].alive = FALSE]
  /\ UNCHANGED <<vars, prey, spawned, deaths, records>>

\* A spawn may come back as the same creature.  A corpse lies for a minute or
\* more and a pass comes every few seconds: the death has been seen by then,
\* and no hunter is still after the corpse.
Respawn(s) ==
  /\ \/ /\ s \in Sources /\ prey[s].guid # 0 /\ ~ prey[s].alive
        /\ seen[s].guid = prey[s].guid /\ ~ seen[s].alive
        /\ \A a \in Actors : roles[a].target # [source |-> s, guid |-> prey[s].guid]
        /\ prey' = [prey EXCEPT ![s].alive = TRUE] /\ UNCHANGED npc
     \/ /\ s \in Actors /\ npc[s].guid # 0 /\ ~ npc[s].alive
        /\ ~ actors[s].live
        /\ npc' = [npc EXCEPT ![s].alive = TRUE] /\ UNCHANGED prey
  /\ UNCHANGED <<vars, spawned, deaths, records>>

---------------------------------------------------------------------------
(* The state of a pass *)

Pass == [book |-> Book, seen |-> seen, actors |-> actors, roles |-> roles,
         ofDeath |-> ofDeath, claimant |-> claimant]

Ends(p) ==
  /\ Becomes(p.book)
  /\ seen' = p.seen /\ actors' = p.actors /\ roles' = p.roles
  /\ ofDeath' = p.ofDeath
  /\ claimant' = [a \in Actors |-> IF p.book.claims[a] = NoClaim THEN 0 ELSE p.claimant[a]]
  /\ UNCHANGED creatures

\* Expire, at the head of a pass.
Expired(p, C, A) == [p EXCEPT !.book = Swept(@, C, A)]

CloseCarcass(b, s, life) == IF b.last[s] = life THEN Swept(b, {s}, {}) ELSE b

RegisterCarcass(b, s, life) == IF life > b.last[s] THEN Registered(b, s, life) ELSE b

NewGuid(p, s) == p.seen[s].guid # prey[s].guid

NewLife(p, s) == NewGuid(p, s) \/ (prey[s].alive /\ ~ p.seen[s].alive)

NewDeath(p, s) == ~ prey[s].alive /\ (NewGuid(p, s) \/ p.seen[s].alive)

LifeNow(p, s) == IF NewLife(p, s) THEN p.seen[s].life + 1 ELSE p.seen[s].life

\* A definition named ..._BadXyz is a plausible slip in the definition after it.
\* Slip: only a live creature is remembered, but each call may begin a life.
Observed_BadForgotten(p, s) ==
  [p.seen[s] EXCEPT !.life = LifeNow(p, s), !.alive = prey[s].alive,
                    !.guid = IF prey[s].alive THEN prey[s].guid ELSE @]

\* The observation that is kept.
Observed(p, s) == [guid |-> prey[s].guid, life |-> LifeNow(p, s), alive |-> prey[s].alive]

\* ObserveLivingSupply for the record of a prey.
SourceObserved(p, s) ==
  LET life == LifeNow(p, s)
      closes == p.seen[s].life # 0 /\ (prey[s] = Unloaded \/ NewLife(p, s))
      closed == IF closes THEN CloseCarcass(p.book, s, p.seen[s].life) ELSE p.book
      dies == NewDeath(p, s) /\ life # 0
  IN IF prey[s] = Unloaded THEN [p EXCEPT !.book = closed]
     ELSE [p EXCEPT !.seen[s] = Observed(p, s),
                    !.book = IF dies THEN RegisterCarcass(closed, s, life) ELSE closed,
                    !.ofDeath[s] = IF dies /\ life > closed.last[s]
                                   THEN [l \in DOMAIN @ \union {life} |->
                                           IF l = life THEN deaths[s] ELSE @[l]]
                                   ELSE @]

Rebinds(p, a) == ~ npc[a].alive \/ ~ p.actors[a].live \/ p.actors[a].guid # npc[a].guid

\* ObserveLivingSupply for the record of a hunter or predator.
ActorObserved(p, a) ==
  IF ~ Rebinds(p, a) THEN p
  ELSE [p EXCEPT !.book = Forgotten(@, a),
                 !.actors[a] = [guid |-> IF npc[a].alive THEN npc[a].guid ELSE @.guid,
                                live |-> npc[a].alive, claim |-> 0, corpse |-> Nothing]]

\* CancelSupplyClaim
ClaimCancelled(p, a) ==
  [p EXCEPT !.book = IF p.actors[a].claim # 0 /\ @.claims[a].serial = p.actors[a].claim
                     THEN Swept(@, {}, {a}) ELSE @,
            !.actors[a].claim = 0]

InPhase(p, a, phase, target) ==
  [p EXCEPT !.roles[a].phase = phase, !.roles[a].target = target]

\* Slip: the claim is not given back.
Stopped_BadHeld(p, a) == InPhase(p, a, "idle", NoTarget)

\* StopLivingRole
Stopped(p, a) ==
  InPhase(IF p.roles[a].phase = "feeding" THEN ClaimCancelled(p, a) ELSE p, a, "idle", NoTarget)

---------------------------------------------------------------------------
(* The hunting part of UpdateLivingRole: what a pass may lead to *)

Present(target) == target.source \in Sources /\ prey[target.source].guid = target.guid

\* Slip: the prey is not looked at before it is attacked.
Witnessed_BadUnseen(p, s) == p

\* The live incarnation is witnessed before combat.
Witnessed(p, s) == SourceObserved(p, s)

HuntOutcomes(p, a) ==
  UNION {{Witnessed(p, s), InPhase(Witnessed(p, s), a, "hunting", [source |-> s, guid |-> prey[s].guid])} :
         s \in {x \in Sources : prey[x].alive}}

\* ClaimSupplyCarcass: the ledger answers a repeated request with the pending claim.
Claimable(p, a, s) ==
  /\ p.seen[s].guid = prey[s].guid /\ p.seen[s].life # 0 /\ ~ p.seen[s].alive
  /\ p.actors[a].guid = npc[a].guid
  /\ p.book.open[s] /\ p.book.last[s] = p.seen[s].life

Claimed(p, a, s) ==
  LET b == IF p.book.claims[a] = NoClaim THEN Granted(p.book, a, s) ELSE p.book
  IN [p EXCEPT !.book = b,
               !.actors[a].claim = b.claims[a].serial,
               !.actors[a].corpse = [source |-> s, life |-> p.seen[s].life],
               !.claimant[a] = npc[a].guid]

\* The prey is dead: a claim, and the meal if the action starts.
ClaimOutcomes(p0, a, s) ==
  LET target == p0.roles[a].target
      p == SourceObserved(Stopped(p0, a), s)
      pending == p.book.claims[a]
      granted == \/ pending = NoClaim /\ p.book.issued < MaxClaims
                 \/ pending.source = s /\ pending.life = p.seen[s].life
  IN {p} \union (IF Claimable(p, a, s) /\ granted
                 THEN {InPhase(Claimed(p, a, s), a, "feeding", target),
                       ClaimCancelled(Claimed(p, a, s), a)}
                 ELSE {})

ValidMeal(p, a, s) ==
  /\ p.actors[a].guid = npc[a].guid
  /\ p.seen[s].guid = prey[s].guid /\ ~ p.seen[s].alive
  /\ p.actors[a].corpse = [source |-> s, life |-> p.seen[s].life]

\* CommitSupplyCarcass, after five seconds.  The claim may have lapsed.
Committed(p, a, s) ==
  LET claim == p.actors[a].claim
  IN IF claim = 0 THEN p
     ELSE IF ~ ValidMeal(p, a, s) THEN ClaimCancelled(p, a)
     ELSE [p EXCEPT !.book = IF @.claims[a].serial = claim THEN Honoured(@, a) ELSE @,
                    !.actors[a].claim = 0]

\* Everything a pass of hunter a may do after the observation.
RoleOutcomes(p, a) ==
  LET role == p.roles[a]
      s == role.target.source
      corpse == Present(role.target) /\ ~ prey[s].alive
  IN CASE role.phase = "idle" -> {p} \union HuntOutcomes(p, a)
       [] role.phase = "hunting" ->
            {p, Stopped(p, a)} \union (IF corpse THEN ClaimOutcomes(p, a, s) ELSE {})
       [] role.phase = "feeding" ->
            {Stopped(p, a)} \union (IF corpse THEN {p, Stopped(Committed(p, a, s), a)} ELSE {})

\* The role of a creature that is gone or dead starts anew, and so does that of
\* a new creature.
Rebound(p, a) ==
  IF npc[a].alive /\ p.roles[a].guid = npc[a].guid THEN p
  ELSE [p EXCEPT !.roles[a] = [guid |-> IF npc[a].alive THEN npc[a].guid ELSE 0,
                               phase |-> "idle", target |-> NoTarget]]

---------------------------------------------------------------------------
(* Needs passes *)

\* The first call of a pass runs Expire; whatever carcasses C and claims A may
\* have expired, the later calls of the pass come at the same time and find no more.
Opened == {s \in Sources : open[s]}
Claiming == {a \in Actors : claims[a] # NoClaim}

PreyPass(s) ==
  \E C \in SUBSET Opened, A \in SUBSET Claiming :
    Ends(SourceObserved(Expired(Pass, C, A), s))

HunterPass(a) ==
  \E C \in SUBSET Opened, A \in SUBSET Claiming :
    LET p == Rebound(ActorObserved(Expired(Pass, C, A), a), a)
    IN IF npc[a].alive THEN \E q \in RoleOutcomes(p, a) : Ends(q) ELSE Ends(p)

RuntimeInit ==
  /\ Init
  /\ prey = [s \in Sources |-> Unloaded] /\ npc = [a \in Actors |-> Unloaded]
  /\ spawned = [s \in Spawns |-> 0] /\ deaths = [s \in Sources |-> 0]
  /\ seen = [s \in Sources |-> [guid |-> 0, life |-> 0, alive |-> FALSE]]
  /\ actors = [a \in Actors |-> [guid |-> 0, live |-> FALSE, claim |-> 0, corpse |-> Nothing]]
  /\ roles = [a \in Actors |-> [guid |-> 0, phase |-> "idle", target |-> NoTarget]]
  /\ ofDeath = [s \in Sources |-> <<>>]
  /\ claimant = [a \in Actors |-> 0]

RuntimeNext ==
  \/ \E s \in Spawns : Load(s) \/ Unload(s) \/ Respawn(s)
  \/ \E s \in Sources : PreyDies(s) \/ PreyPass(s)
  \/ \E a \in Actors : HunterDies(a) \/ HunterPass(a)

RuntimeSpec == RuntimeInit /\ [][RuntimeNext]_allVars

---------------------------------------------------------------------------
(* Properties *)

\* The shape of the records; a role that eats or hunts has a target.
RuntimeTypeOK ==
  /\ prey \in [Sources -> [guid : Nat, alive : BOOLEAN]]
  /\ npc \in [Actors -> [guid : Nat, alive : BOOLEAN]]
  /\ seen \in [Sources -> [guid : Nat, life : Nat, alive : BOOLEAN]]
  /\ \A a \in Actors :
       /\ actors[a].claim \in 0..issued
       /\ roles[a].phase \in {"idle", "hunting", "feeding"}
       /\ roles[a].phase = "idle" <=> roles[a].target = NoTarget

\* One death gives one carcass: whatever is missed between two passes, loaded
\* again or seen twice, no two lives of a source are registered for the same
\* death of its creature, so six portions are not minted twice from one corpse.
OneCarcassPerDeath ==
  \A s \in Sources : \A l, m \in DOMAIN ofDeath[s] :
    l # m => ofDeath[s][l] # ofDeath[s][m]

\* What a hunter is given comes from the corpse that lies there, from this
\* death and no earlier one of the same creature, and goes to the creature that
\* claimed it: nothing that happened in the seconds of the work, or between the
\* kill and the claim, turns the harvest into that of another life.
HarvestOfClaimedDeath ==
  [][\A a \in Actors :
       receipts'[a] \notin {0, receipts[a]} =>
         LET c == claims[a] IN
         /\ prey[c.source].guid # 0 /\ ~ prey[c.source].alive
         /\ ofDeath[c.source][c.life] = deaths[c.source]
         /\ npc[a].alive /\ npc[a].guid = claimant[a]]_allVars

\* A claim is pending only for an actor that remembers it and works on that
\* very carcass: no interruption, failed start, death or reload leaves one behind
\* to keep meat from the others.
ClaimsHeld ==
  /\ RuntimeTypeOK /\ ClaimsOpen
  /\ \A a \in Actors : claims[a] # NoClaim =>
       /\ actors[a].claim = claims[a].serial
       /\ actors[a].corpse = [source |-> claims[a].source, life |-> claims[a].life]
       /\ roles[a].phase = "feeding" /\ roles[a].target.source = claims[a].source
       /\ roles[a].guid = claimant[a]
=============================================================================
