--------------------------- MODULE SupplyLedger ---------------------------
(***************************************************************************)
(* The food ledger of the living world (LivingSupply::Ledger,              *)
(* AIWorld/Agent/LivingSupplyState.h).  It is world-thread state: every    *)
(* method runs to completion before the next, so a method is one action.   *)
(* The callers are the per-creature behaviours; which of them calls what,  *)
(* when, how often and with which (possibly old) arguments is left open,   *)
(* so the inputs of an action range over small sets.                       *)
(*                                                                         *)
(* Food goes  carcass or field (potential) -> cargo -> depot -> eaten,     *)
(* and besides  depot -> cargo  by theft or by loading a caravan.          *)
(*                                                                         *)
(* A call that is refused, or answered from a stored receipt, leaves the   *)
(* ledger as it is and is a stuttering step.  Reserve, Commit and          *)
(* HarvestField run Expire before they can refuse, so a refusal of theirs  *)
(* is an Expire step.                                                      *)
(***************************************************************************)
EXTENDS PortionSums, Integers

CONSTANTS
  ResidentsV11,          \* TRUE for the living-residents layout, FALSE for preview v8
  DepotSpec,             \* depot id -> [initial, capacity, target, low]
  FieldSpec,             \* field id -> [initial, capacity, regrow]
  Roster,                \* actor -> [kind, depot, capacity, allVillages]
  Sources,               \* spawn ids of the prey whose corpses are food
  MaxSources,            \* bound on the carcass map (256)
  CarcassPortions, PredatorMealPortions,
  HunterCargoCapacity, RaiderCargoCapacity, FarmerCargoCapacity, CarrierCargoCapacity,
  FieldCapacity, FieldRegrowMs,
  ClaimTtlMs,            \* claimTtlMs of Reserve
  StartMs,               \* clock value at which the ledger is configured
  MaxClaims,             \* last claim serial (numeric_limits<uint64>::max())
  \* Inputs of the callers
  Times, Lives, Serials, Requests

VARIABLES
  now,         \* the nowMs that the caller reads from the system clock
  depots,      \* _depots
  fields,      \* _fields
  actors,      \* _actors, the part that changes
  carcasses,   \* _carcasses; life 0: the source has no entry yet
  nextClaim,   \* _nextClaimSerial
  tally,       \* _counters
  moved        \* history: what each event serial of each actor has moved

vars == <<now, depots, fields, actors, carcasses, nextClaim, tally, moved>>

Depots == DOMAIN DepotSpec
Fields == DOMAIN FieldSpec
Actors == DOMAIN Roster

---------------------------------------------------------------------------
(* Configuration: what ConfigureDepot, ConfigureField and the Register     *)
(* methods accept.  A failure resets the ledger and disables the feature.  *)

CityDepot == IF ResidentsV11 THEN 5 ELSE 7
CampDepot == IF ResidentsV11 THEN 6 ELSE 3
RaidSource == 1
RaidedVillages == IF ResidentsV11 THEN 1..4 ELSE 4..6
LoadedVillages == IF ResidentsV11 THEN 1..3 ELSE {1, 4, 5, 6}
FarmVillages == IF ResidentsV11 THEN 1..3 ELSE 4..6

DepotAccepted(d) ==
  LET spec == DepotSpec[d]
  IN /\ spec \in [initial : Nat, capacity : Nat \ {0}, target : Nat, low : Nat]
     /\ spec.low <= spec.target
     /\ spec.target <= spec.capacity
     /\ spec.initial <= spec.capacity

LayoutAccepted ==
  ResidentsV11 => Depots = 1..6 /\ \A d \in Depots : DepotSpec[d].initial = 0

FieldAccepted(f) ==
  LET spec == FieldSpec[f]
  IN /\ f \in FarmVillages \cap Depots
     /\ spec \in [initial : Nat, capacity : 1..FieldCapacity, regrow : Nat]
     /\ spec.initial <= spec.capacity
     /\ spec.regrow >= FieldRegrowMs

Kinds == {"hunter", "predator", "consumer", "farmer", "raider", "carrier"}

ActorAccepted(a) ==
  LET role == Roster[a]
  IN /\ role \in [kind : Kinds, depot : Nat, capacity : Nat, allVillages : BOOLEAN]
     /\ role.kind = "hunter" => role.depot \in Depots /\ role.capacity \in 1..HunterCargoCapacity
     /\ role.kind = "predator" => role.depot = 0 /\ role.capacity = 0
     /\ role.kind = "consumer" => role.depot \in Depots /\ role.capacity = 0
     /\ role.kind = "farmer" => /\ role.depot \in Fields \cap Depots
                                /\ role.capacity \in 1..FarmerCargoCapacity
     /\ role.kind = "raider" => /\ role.depot = CampDepot
                                /\ role.capacity = RaiderCargoCapacity
                                /\ {CampDepot, RaidSource} \subseteq Depots
                                /\ role.allVillages => RaidedVillages \subseteq Depots
     /\ role.kind = "carrier" => /\ role.depot = CityDepot
                                 /\ role.capacity = CarrierCargoCapacity
                                 /\ {CityDepot, 1} \cup RaidedVillages \subseteq Depots

ASSUME PortionAssumption ==
  /\ {CarcassPortions, PredatorMealPortions, HunterCargoCapacity, RaiderCargoCapacity,
      FarmerCargoCapacity, CarrierCargoCapacity, FieldCapacity, FieldRegrowMs,
      ClaimTtlMs} \subseteq Nat \ {0}
  /\ ResidentsV11 \in BOOLEAN
  /\ MaxClaims \in Nat
  /\ MaxSources \in Nat

ASSUME InputAssumption ==
  /\ Times \subseteq Nat
  /\ StartMs \in Times
  /\ Lives \subseteq Nat
  /\ Serials \subseteq Nat
  /\ Requests \subseteq Nat

ASSUME ConfigurationAssumption ==
  /\ IsFiniteSet(Depots) /\ Depots \subseteq Nat \ {0}
  /\ IsFiniteSet(Fields)
  /\ IsFiniteSet(Actors)
  /\ IsFiniteSet(Sources) /\ Sources \subseteq Nat \ {0}
  /\ \A d \in Depots : DepotAccepted(d)
  /\ LayoutAccepted
  /\ \A f \in Fields : FieldAccepted(f)
  /\ \A a \in Actors : ActorAccepted(a)

Hunts(a) == Roster[a].kind = "hunter"
IsPredator(a) == Roster[a].kind = "predator"

---------------------------------------------------------------------------
(* State *)

\* An absent std::optional<Claim>; serial 0 is never issued.
NoClaim == [serial |-> 0, source |-> 0, life |-> 0, requested |-> 0, amount |-> 0, expires |-> 0]
NoCommit == [serial |-> 0, portions |-> 0]
NoEvent == [serial |-> 0, kind |-> "None", place |-> 0, requested |-> 0, portions |-> 0]
NoMove == [times |-> 0, portions |-> 0]

EventKinds == {"Delivery", "Meal", "Theft", "FieldHarvest", "Loading"}

Claim == [serial : Nat, source : Sources \cup {0}, life : Nat,
          requested : Nat, amount : Nat, expires : Nat]
Commitment == [serial : Nat, portions : Nat]
Event == [serial : Nat, kind : EventKinds \cup {"None"}, place : Nat,
          requested : Nat, portions : Nat]
Depot == [stock : Nat, stolen : Nat, exported : Nat, delivered : Nat, consumed : Nat]
Field == [remaining : Nat, last : Nat, harvested : Nat, regrown : Nat]
Actor == [cargo : Nat, pending : Claim, committed : Commitment,
          lastSerial : Nat, lastEvent : Event]
Carcass == [life : Nat, remaining : Nat, reserved : Nat, expires : Nat, active : BOOLEAN]
Counters == [harvested : Nat, consumed : Nat, lost : Nat, delivered : Nat, stolen : Nat,
             loaded : Nat, predatorConsumed : Nat, depotConsumed : Nat,
             potentialCreated : Nat, potentialLost : Nat]
Move == [times : Nat, portions : Nat]

InitialFood == Total([d \in Depots |-> DepotSpec[d].initial])
InitialCrops == Total([f \in Fields |-> FieldSpec[f].initial])

Init ==
  /\ now = StartMs
  /\ depots = [d \in Depots |-> [stock |-> DepotSpec[d].initial, stolen |-> 0,
                                 exported |-> 0, delivered |-> 0, consumed |-> 0]]
  /\ fields = [f \in Fields |-> [remaining |-> FieldSpec[f].initial, last |-> StartMs,
                                 harvested |-> 0, regrown |-> 0]]
  /\ actors = [a \in Actors |-> [cargo |-> 0, pending |-> NoClaim, committed |-> NoCommit,
                                 lastSerial |-> 0, lastEvent |-> NoEvent]]
  /\ carcasses = [s \in Sources |-> [life |-> 0, remaining |-> 0, reserved |-> 0,
                                     expires |-> 0, active |-> FALSE]]
  /\ nextClaim = 0
  /\ tally = [harvested |-> 0, consumed |-> 0, lost |-> 0, delivered |-> 0, stolen |-> 0,
              loaded |-> 0, predatorConsumed |-> 0, depotConsumed |-> 0,
              potentialCreated |-> InitialCrops, potentialLost |-> 0]
  /\ moved = [a \in Actors |-> [n \in Serials |-> NoMove]]

\* The system clock is read anew by each call and may be set back.
Clock(t) ==
  /\ now' = t
  /\ UNCHANGED <<depots, fields, actors, carcasses, nextClaim, tally, moved>>

---------------------------------------------------------------------------
(* A definition named ..._BadXyz is a plausible slip in the definition that *)
(* follows it; it is used by no formula here and shows, when it replaces   *)
(* that definition, which property notices.                                *)

\* The free cargo space of actor a.
CargoRoom(a, actor) == Roster[a].capacity - actor.cargo

\* Slip: what the depot already holds is forgotten.
DepotRoom_BadFull(d) == DepotSpec[d].capacity

\* The free space of depot d.
DepotRoom(d) == DepotSpec[d].capacity - depots[d].stock

\* Depot d can give the whole amount now.
Affords(d, amount) == depots[d].stock >= amount

---------------------------------------------------------------------------
(* Claims on carcasses and their expiry *)

\* The claim c is on the carcass of source s in its life (FindCarcass, Key ==).
On(c, s, life) == c.source = s /\ c.life = life

\* The actors in as whose claim is on one of the carcasses C.
Claimants(as, cs, C) ==
  {a \in Actors : \E s \in C : On(as[a].pending, s, cs[s].life)}

\* What the claims of the actors A hold on source s.
HeldBy(as, cs, A, s) ==
  [a \in Actors |-> IF a \in A /\ On(as[a].pending, s, cs[s].life)
                    THEN as[a].pending.amount ELSE 0]

\* Release the claims of A: the carcasses get their reservations back ...
Release(as, cs, A) ==
  [s \in Sources |-> [cs[s] EXCEPT !.reserved = @ - Total(HeldBy(as, cs, A, s))]]

\* Slip: a released claim stays pending and is released again.
Unclaimed_BadKept(as, A) == as

\* ... and the actors lose their claims.
Unclaimed(as, A) ==
  [a \in Actors |-> IF a \in A THEN [as[a] EXCEPT !.pending = NoClaim] ELSE as[a]]

\* Slip: a closed carcass is forgotten, life and all.
Entombed_BadErased(cs, C) ==
  [s \in Sources |-> IF s \in C THEN [cs[s] EXCEPT !.life = 0, !.remaining = 0, !.active = FALSE]
                     ELSE cs[s]]

\* The carcasses C become tombstones: nothing left, life kept.
Entombed(cs, C) ==
  [s \in Sources |-> IF s \in C THEN [cs[s] EXCEPT !.remaining = 0, !.active = FALSE]
                     ELSE cs[s]]

\* Slip: the reserved part of a closed carcass is not booked as lost.
MeatOf_BadUnreserved(cs, C) ==
  Total([s \in Sources |-> IF s \in C THEN cs[s].remaining - cs[s].reserved ELSE 0])

\* The meat that closing the carcasses C gives up.
MeatOf(cs, C) == Total([s \in Sources |-> IF s \in C THEN cs[s].remaining ELSE 0])

\* Whole portions that field f has grown since its anchor, at clock t.
Growth(f, field, t) ==
  IF t <= field.last THEN 0
  ELSE Smaller((t - field.last) \div FieldSpec[f].regrow, FieldSpec[f].capacity - field.remaining)

\* Slip: the anchor stays where it was after a partial growth.
Regrow_BadAnchor(f, field, t) ==
  LET growth == Growth(f, field, t)
  IN [field EXCEPT !.remaining = @ + growth, !.regrown = @ + growth,
                   !.last = IF field.remaining + growth = FieldSpec[f].capacity /\ t > @ THEN t ELSE @]

\* Slip: a full field keeps its old anchor and so banks the time.
Regrow_BadBanked(f, field, t) ==
  LET growth == Growth(f, field, t)
  IN [field EXCEPT !.remaining = @ + growth, !.regrown = @ + growth,
                   !.last = @ + growth * FieldSpec[f].regrow]

\* A full field only moves its anchor; a partial growth keeps the remainder.
Regrow(f, field, t) ==
  LET growth == Growth(f, field, t)
      ripe == field.remaining + growth
      full == ripe = FieldSpec[f].capacity
  IN IF t <= field.last \/ (growth = 0 /\ ~full) THEN field
     ELSE [field EXCEPT !.remaining = ripe,
                        !.regrown = @ + growth,
                        !.last = IF full THEN t ELSE @ + growth * FieldSpec[f].regrow]

\* Expire(now), as the state it leads to.
DueCarcasses == {s \in Sources : carcasses[s].active /\ now >= carcasses[s].expires}
LapsedClaims == {a \in Actors : actors[a].pending # NoClaim /\ now >= actors[a].pending.expires}
SweptClaims == LapsedClaims \cup Claimants(actors, carcasses, DueCarcasses)

ExpiredFields == [f \in Fields |-> Regrow(f, fields[f], now)]
ExpiredActors == Unclaimed(actors, SweptClaims)
ExpiredCarcasses == Entombed(Release(actors, carcasses, SweptClaims), DueCarcasses)

ExpiredTally ==
  [tally EXCEPT !.potentialCreated = @ + Total([f \in Fields |-> Growth(f, fields[f], now)]),
                !.potentialLost = @ + MeatOf(carcasses, DueCarcasses)]

\* Slip: only the fields are looked after.
Expire_BadFieldsOnly ==
  /\ fields' = ExpiredFields
  /\ tally' = [tally EXCEPT !.potentialCreated =
                 @ + Total([f \in Fields |-> Growth(f, fields[f], now)])]
  /\ UNCHANGED <<now, depots, actors, carcasses, nextClaim, moved>>

Expire ==
  /\ fields' = ExpiredFields
  /\ actors' = ExpiredActors
  /\ carcasses' = ExpiredCarcasses
  /\ tally' = ExpiredTally
  /\ UNCHANGED <<now, depots, nextClaim, moved>>

\* A reviewed death is registered once per life; the previous life's carcass
\* is closed first.
RegisterCarcass(s, life, expires, portions) ==
  LET C == {r \in {s} : carcasses[r].active}
      A == Claimants(actors, carcasses, C)
  IN /\ life # 0 /\ expires > now /\ portions \in 1..CarcassPortions
     /\ life > carcasses[s].life
     /\ \/ carcasses[s].life # 0
        \/ Cardinality({r \in Sources : carcasses[r].life # 0}) < MaxSources
     /\ actors' = Unclaimed(actors, A)
     /\ carcasses' = [carcasses EXCEPT ![s] = [life |-> life, remaining |-> portions,
                         reserved |-> 0, expires |-> expires, active |-> TRUE]]
     /\ tally' = [tally EXCEPT !.potentialCreated = @ + portions,
                               !.potentialLost = @ + MeatOf(carcasses, C)]
     /\ UNCHANGED <<now, depots, fields, nextClaim, moved>>

CloseCarcass(s, life) ==
  LET A == Claimants(actors, carcasses, {s})
  IN /\ carcasses[s].active /\ carcasses[s].life = life
     /\ actors' = Unclaimed(actors, A)
     /\ carcasses' = Entombed(Release(actors, carcasses, A), {s})
     /\ tally' = [tally EXCEPT !.potentialLost = @ + MeatOf(carcasses, {s})]
     /\ UNCHANGED <<now, depots, fields, nextClaim, moved>>

\* Slip: portions reserved by others are offered again.
Claimable_BadReserved(as, cs, a, s, requested) ==
  LET free == Smaller(requested, cs[s].remaining)
  IN IF IsPredator(a) THEN free ELSE Smaller(free, CargoRoom(a, as[a]))

\* Slip: the hunter's cargo is not considered.
Claimable_BadRoom(as, cs, a, s, requested) ==
  Smaller(requested, cs[s].remaining - cs[s].reserved)

\* What a new claim of actor a on source s would get.
Claimable(as, cs, a, s, requested) ==
  LET free == Smaller(requested, cs[s].remaining - cs[s].reserved)
  IN IF IsPredator(a) THEN free ELSE Smaller(free, CargoRoom(a, as[a]))

\* A new claim.  A repeated request returns the pending token, any other
\* request of an actor with a claim is refused: both leave the ledger alone.
Reserve(a, s, life, requested) ==
  LET as == ExpiredActors
      cs == ExpiredCarcasses
      amount == Claimable(as, cs, a, s, requested)
  IN /\ cs[s].active /\ cs[s].life = life
     /\ requested # 0
     /\ Roster[a].kind \in {"hunter", "predator"}
     /\ requested <= IF IsPredator(a) THEN PredatorMealPortions ELSE Roster[a].capacity
     /\ as[a].pending = NoClaim
     /\ amount # 0
     /\ nextClaim # MaxClaims
     /\ nextClaim' = nextClaim + 1
     /\ actors' = [as EXCEPT ![a].pending =
                     [serial |-> nextClaim + 1, source |-> s, life |-> life,
                      requested |-> requested, amount |-> amount,
                      expires |-> Smaller(now + ClaimTtlMs, cs[s].expires)]]
     /\ carcasses' = [cs EXCEPT ![s].reserved = @ + amount]
     /\ fields' = ExpiredFields
     /\ tally' = ExpiredTally
     /\ UNCHANGED <<now, depots, moved>>

\* The conditions under which Commit still honours a pending claim.
Honourable(as, cs, a) ==
  LET claim == as[a].pending
      s == claim.source
  IN /\ cs[s].active /\ cs[s].life = claim.life
     /\ now < claim.expires
     /\ cs[s].reserved >= claim.amount /\ cs[s].remaining >= claim.amount
     /\ Hunts(a) => as[a].cargo <= Roster[a].capacity - claim.amount

\* The claim with this serial becomes food: cargo for a hunter, a meal for a
\* predator.  A claim that cannot be honoured is cancelled.
Commit(a, serial) ==
  LET as == ExpiredActors
      cs == ExpiredCarcasses
      claim == as[a].pending
      portions == claim.amount
      eaten == IF IsPredator(a) THEN portions ELSE 0
  IN /\ serial # 0 /\ as[a].committed.serial # serial
     /\ claim.serial = serial
     /\ fields' = ExpiredFields
     /\ IF Honourable(as, cs, a)
        THEN /\ carcasses' = [cs EXCEPT ![claim.source].remaining = @ - portions,
                                        ![claim.source].reserved = @ - portions]
             /\ actors' = [as EXCEPT ![a].pending = NoClaim,
                                     ![a].cargo = @ + (portions - eaten),
                                     ![a].committed = [serial |-> serial, portions |-> portions]]
             /\ tally' = [ExpiredTally EXCEPT !.harvested = @ + portions,
                                              !.consumed = @ + eaten,
                                              !.predatorConsumed = @ + eaten]
        ELSE /\ carcasses' = Release(as, cs, {a})
             /\ actors' = Unclaimed(as, {a})
             /\ tally' = ExpiredTally
     /\ UNCHANGED <<now, depots, nextClaim, moved>>

\* Slip: a cancelled serial is handed out again.
Cancel_BadReissue(a, serial) ==
  /\ serial # 0 /\ actors[a].pending.serial = serial
  /\ carcasses' = Release(actors, carcasses, {a})
  /\ actors' = Unclaimed(actors, {a})
  /\ nextClaim' = nextClaim - 1
  /\ UNCHANGED <<now, depots, fields, tally, moved>>

Cancel(a, serial) ==
  /\ serial # 0 /\ actors[a].pending.serial = serial
  /\ carcasses' = Release(actors, carcasses, {a})
  /\ actors' = Unclaimed(actors, {a})
  /\ UNCHANGED <<now, depots, fields, nextClaim, tally, moved>>

---------------------------------------------------------------------------
(* Completed actions.  Each carries the event serial of its actor; only a  *)
(* serial above the actor's watermark may move food.  An equal repeat of   *)
(* the last event is answered from lastEvent, anything else is stale: both *)
(* stutter.  A call that is not physically completed is refused.           *)

\* ReplayEvent lets the event through, and the serial is a valid one.
Fresh(a, serial) == serial # 0 /\ serial > actors[a].lastSerial

\* SaveEvent: watermark and receipt of the actor.
SaveEvent(actor, serial, kind, place, requested, portions) ==
  [actor EXCEPT !.lastSerial = serial,
                !.lastEvent = [serial |-> serial, kind |-> kind, place |-> place,
                               requested |-> requested, portions |-> portions]]

\* The history of the event.
Record(a, serial, portions) ==
  moved' = [moved EXCEPT ![a][serial] = [times |-> @.times + 1,
                                         portions |-> @.portions + portions]]

\* The depots at which actor a delivers and eats.
ServedBy(a, d) ==
  \/ Roster[a].depot = d
  \/ ResidentsV11 /\ Roster[a].kind = "carrier" /\ d \in {4, 5}

HarvestField(a, serial, f, requested) ==
  LET field == ExpiredFields[f]
      owner == ExpiredActors[a]
      amount == Smaller(requested, Smaller(CargoRoom(a, owner), field.remaining))
  IN /\ Fresh(a, serial)
     /\ requested # 0 /\ requested <= Roster[a].capacity
     /\ Roster[a].kind = "farmer" /\ Roster[a].depot = f
     /\ amount # 0
     /\ fields' = [ExpiredFields EXCEPT ![f].remaining = @ - amount,
                                        ![f].harvested = @ + amount]
     /\ actors' = [ExpiredActors EXCEPT ![a] =
                     SaveEvent([owner EXCEPT !.cargo = @ + amount],
                               serial, "FieldHarvest", f, requested, amount)]
     /\ tally' = [ExpiredTally EXCEPT !.harvested = @ + amount]
     /\ carcasses' = ExpiredCarcasses
     /\ Record(a, serial, amount)
     /\ UNCHANGED <<now, depots, nextClaim>>

\* The whole debit is rechecked at the commit: all of it or nothing.
Steal(a, serial, d, requested) ==
  LET amount == Smaller(requested, CargoRoom(a, actors[a]))
  IN /\ Fresh(a, serial)
     /\ requested # 0 /\ requested <= RaiderCargoCapacity
     /\ Roster[a].kind = "raider"
     /\ d = RaidSource \/ (Roster[a].allVillages /\ d \in RaidedVillages)
     /\ amount # 0
     /\ Affords(d, amount)
     /\ depots' = [depots EXCEPT ![d].stock = @ - amount, ![d].stolen = @ + amount]
     /\ actors' = [actors EXCEPT ![a] = SaveEvent([actors[a] EXCEPT !.cargo = @ + amount],
                                          serial, "Theft", d, requested, amount)]
     /\ tally' = [tally EXCEPT !.stolen = @ + amount]
     /\ Record(a, serial, amount)
     /\ UNCHANGED <<now, fields, carcasses, nextClaim>>

\* What a caravan may take from depot d: the stock above the low reserve.
Surplus(d) ==
  IF depots[d].stock > DepotSpec[d].low THEN depots[d].stock - DepotSpec[d].low ELSE 0

Load(a, serial, d, requested) ==
  LET amount == Smaller(requested, Smaller(CargoRoom(a, actors[a]), Surplus(d)))
  IN /\ Fresh(a, serial)
     /\ requested # 0 /\ requested <= CarrierCargoCapacity
     /\ Roster[a].kind = "carrier" /\ Roster[a].depot = CityDepot
     /\ d \in LoadedVillages
     /\ amount # 0
     /\ depots' = [depots EXCEPT ![d].stock = @ - amount, ![d].exported = @ + amount]
     /\ actors' = [actors EXCEPT ![a] = SaveEvent([actors[a] EXCEPT !.cargo = @ + amount],
                                          serial, "Loading", d, requested, amount)]
     /\ tally' = [tally EXCEPT !.loaded = @ + amount]
     /\ Record(a, serial, amount)
     /\ UNCHANGED <<now, fields, carcasses, nextClaim>>

\* Slip: what does not fit into the depot is taken from the carrier as well.
Deliver_BadRest(a, serial, d, requested) ==
  LET offered == Smaller(requested, actors[a].cargo)
      amount == Smaller(offered, DepotRoom(d))
  IN /\ Fresh(a, serial)
     /\ requested # 0
     /\ Roster[a].kind \notin {"predator", "consumer"}
     /\ ServedBy(a, d)
     /\ amount # 0
     /\ depots' = [depots EXCEPT ![d].stock = @ + amount, ![d].delivered = @ + amount]
     /\ actors' = [actors EXCEPT ![a] = SaveEvent([actors[a] EXCEPT !.cargo = @ - offered],
                                          serial, "Delivery", d, requested, amount)]
     /\ tally' = [tally EXCEPT !.delivered = @ + amount]
     /\ Record(a, serial, amount)
     /\ UNCHANGED <<now, fields, carcasses, nextClaim>>

Deliver(a, serial, d, requested) ==
  LET amount == Smaller(requested, Smaller(actors[a].cargo, DepotRoom(d)))
  IN /\ Fresh(a, serial)
     /\ requested # 0
     /\ Roster[a].kind \notin {"predator", "consumer"}
     /\ ServedBy(a, d)
     /\ amount # 0
     /\ depots' = [depots EXCEPT ![d].stock = @ + amount, ![d].delivered = @ + amount]
     /\ actors' = [actors EXCEPT ![a] = SaveEvent([actors[a] EXCEPT !.cargo = @ - amount],
                                          serial, "Delivery", d, requested, amount)]
     /\ tally' = [tally EXCEPT !.delivered = @ + amount]
     /\ Record(a, serial, amount)
     /\ UNCHANGED <<now, fields, carcasses, nextClaim>>

\* Slip: a meal is not booked at its depot.
EatDepot_BadUnbooked(a, serial, d, portions) ==
  /\ Fresh(a, serial)
  /\ portions # 0
  /\ ~IsPredator(a)
  /\ ServedBy(a, d)
  /\ Affords(d, portions)
  /\ depots' = [depots EXCEPT ![d].stock = @ - portions]
  /\ actors' = [actors EXCEPT ![a] =
                  SaveEvent(actors[a], serial, "Meal", d, portions, portions)]
  /\ tally' = [tally EXCEPT !.consumed = @ + portions, !.depotConsumed = @ + portions]
  /\ Record(a, serial, portions)
  /\ UNCHANGED <<now, fields, carcasses, nextClaim>>

EatDepot(a, serial, d, portions) ==
  /\ Fresh(a, serial)
  /\ portions # 0
  /\ ~IsPredator(a)
  /\ ServedBy(a, d)
  /\ Affords(d, portions)
  /\ depots' = [depots EXCEPT ![d].stock = @ - portions, ![d].consumed = @ + portions]
  /\ actors' = [actors EXCEPT ![a] =
                  SaveEvent(actors[a], serial, "Meal", d, portions, portions)]
  /\ tally' = [tally EXCEPT !.consumed = @ + portions, !.depotConsumed = @ + portions]
  /\ Record(a, serial, portions)
  /\ UNCHANGED <<now, fields, carcasses, nextClaim>>

\* Slip: a new incarnation starts its serials afresh.
DropCargo_BadRewind(a) ==
  /\ carcasses' = Release(actors, carcasses, {a})
  /\ actors' = [actors EXCEPT ![a] = [@ EXCEPT !.pending = NoClaim, !.cargo = 0,
                      !.committed = NoCommit, !.lastEvent = NoEvent, !.lastSerial = 0]]
  /\ tally' = [tally EXCEPT !.lost = @ + actors[a].cargo]
  /\ UNCHANGED <<now, depots, fields, nextClaim, moved>>

\* Death, unloading or a new incarnation of the actor: the claim and the cargo
\* go, and so do the receipts, but never the serial watermark.
DropCargo(a) ==
  /\ carcasses' = Release(actors, carcasses, {a})
  /\ actors' = [actors EXCEPT ![a] = [@ EXCEPT !.pending = NoClaim, !.cargo = 0,
                                               !.committed = NoCommit, !.lastEvent = NoEvent]]
  /\ tally' = [tally EXCEPT !.lost = @ + actors[a].cargo]
  /\ UNCHANGED <<now, depots, fields, nextClaim, moved>>

---------------------------------------------------------------------------
Completed(a, serial, requested) ==
  \/ \E f \in Fields : HarvestField(a, serial, f, requested)
  \/ \E d \in Depots : \/ Steal(a, serial, d, requested)
                       \/ Load(a, serial, d, requested)
                       \/ Deliver(a, serial, d, requested)
                       \/ EatDepot(a, serial, d, requested)

OnCarcass(s, life) ==
  \/ \E t \in Times : RegisterCarcass(s, life, t, CarcassPortions)
  \/ CloseCarcass(s, life)
  \/ \E a \in Actors, n \in Requests : Reserve(a, s, life, n)

ByActor(a) ==
  \/ \E n \in 1..nextClaim : Commit(a, n) \/ Cancel(a, n)
  \/ DropCargo(a)
  \/ \E n \in Serials, requested \in Requests : Completed(a, n, requested)

Next ==
  \/ \E t \in Times : Clock(t)
  \/ Expire
  \/ \E s \in Sources, life \in Lives : OnCarcass(s, life)
  \/ \E a \in Actors : ByActor(a)

Spec == Init /\ [][Next]_vars

\* A clock that is set back only for a while and keeps advancing, and a world
\* thread that keeps sweeping: ObserveLivingSupply runs Expire for every resident
\* on every needs tick.
FairSpec ==
  /\ Spec
  /\ <>[][now' >= now]_vars
  /\ WF_vars(\E t \in Times : t > now /\ Clock(t))
  /\ WF_vars(Expire)

---------------------------------------------------------------------------
(* Properties *)

\* Every variable keeps its type; in particular no counter, stock or
\* reservation that the code keeps unsigned is ever driven below zero.
TypeOK ==
  /\ now \in Times
  /\ depots \in [Depots -> Depot]
  /\ fields \in [Fields -> Field]
  /\ actors \in [Actors -> Actor]
  /\ carcasses \in [Sources -> Carcass]
  /\ nextClaim \in Nat
  /\ tally \in Counters
  /\ moved \in [Actors -> [Serials -> Move]]

\* No store is ever overfilled: the differences capacity - cargo,
\* capacity - stock and capacity - remaining that Reserve, HarvestField,
\* Steal, Load, Deliver and Regrow take on uint32 never wrap around.
WithinCapacity ==
  /\ \A a \in Actors : actors[a].cargo <= Roster[a].capacity
  /\ \A d \in Depots : depots[d].stock <= DepotSpec[d].capacity
  /\ \A f \in Fields : fields[f].remaining <= FieldSpec[f].capacity

DepotFood == Total([d \in Depots |-> depots[d].stock])
CargoFood == Total([a \in Actors |-> actors[a].cargo])
RemainingPotential == Total([s \in Sources |-> carcasses[s].remaining])
                      + Total([f \in Fields |-> fields[f].remaining])

\* Ledger::Conserved(): all food that was ever there is stored, carried,
\* eaten or lost, whatever the order of harvests, thefts, deliveries, meals
\* and deaths.
Conserved ==
  InitialFood + tally.harvested = DepotFood + CargoFood + tally.consumed + tally.lost

\* Ledger::PotentialConserved(): crops and meat are harvested, still there, or
\* given up when a carcass closes; expiry in the middle of another call
\* included.
PotentialConserved ==
  tally.potentialCreated = RemainingPotential + tally.harvested + tally.potentialLost

\* Both balances, which Ledger::Conserved() and PotentialConserved() report to
\* the telemetry: no order of harvests, meals, thefts, deaths and sweeps makes
\* or loses a portion.
FoodAccounted == Conserved /\ PotentialConserved

\* The reservation of a carcass is exactly what the pending claims hold on its
\* present life, and never more than what is left; a tombstone has neither.
\* Release subtracts without a check, so any drift would wrap the uint32.
ReservationsExact ==
  \A s \in Sources :
    /\ carcasses[s].reserved = Total(HeldBy(actors, carcasses, Actors, s))
    /\ carcasses[s].reserved <= carcasses[s].remaining
    /\ ~carcasses[s].active => carcasses[s].remaining = 0

\* A pending claim is good until it lapses: its carcass is active in the
\* claimed life for at least as long, holds the portions, and its owner is a
\* predator or a hunter that still has room for them.  The branch of Commit
\* that answers CLAIM_INVALIDATED is never taken.
ClaimsGood ==
  \A a \in Actors :
    LET claim == actors[a].pending
        carcass == carcasses[claim.source]
    IN claim # NoClaim =>
         /\ claim.source \in Sources /\ Roster[a].kind \in {"hunter", "predator"}
         /\ carcass.active /\ carcass.life = claim.life
         /\ claim.expires <= carcass.expires
         /\ claim.amount # 0 /\ claim.amount <= carcass.reserved
         /\ Hunts(a) => actors[a].cargo + claim.amount <= Roster[a].capacity

\* Claim serials are never shared or reissued: no two claims have the same
\* one, and a committed serial can never be pending again, so a repeated
\* Commit cannot extract meat twice.
TokensUnique ==
  LET Pending == {a \in Actors : actors[a].pending # NoClaim}
  IN /\ \A a \in Pending : actors[a].pending.serial \in 1..nextClaim
     /\ \A a \in Actors : actors[a].committed.serial <= nextClaim
     /\ \A a, b \in Pending : a # b => actors[a].pending.serial # actors[b].pending.serial
     /\ \A a \in Pending, b \in Actors : actors[a].pending.serial # actors[b].committed.serial

\* One event serial of an actor moves food at most once, over deliveries,
\* meals, thefts, harvests and loadings together and across deaths of the
\* actor; and the receipt that a repeat would get tells what it moved.
EventsOnce ==
  \A a \in Actors :
    /\ \A n \in Serials : moved[a][n].times <= 1
    /\ actors[a].lastEvent # NoEvent =>
         moved[a][actors[a].lastEvent.serial]
           = [times |-> 1, portions |-> actors[a].lastEvent.portions]

\* The books of each depot balance on their own, and the totals of the ledger
\* are the sums over the depots: no movement is booked at the wrong depot or
\* only on one side.
DepotBooks ==
  /\ \A d \in Depots :
       depots[d].stock + depots[d].stolen + depots[d].exported + depots[d].consumed
         = DepotSpec[d].initial + depots[d].delivered
  /\ tally.stolen = Total([d \in Depots |-> depots[d].stolen])
  /\ tally.loaded = Total([d \in Depots |-> depots[d].exported])
  /\ tally.delivered = Total([d \in Depots |-> depots[d].delivered])
  /\ tally.depotConsumed = Total([d \in Depots |-> depots[d].consumed])
  /\ tally.consumed = tally.depotConsumed + tally.predatorConsumed

\* A field never regrows faster than one portion per regrow period since the
\* start, and its crops are its seed plus its growth less its harvests, however
\* the clock jumps: a clock set back and forth grows nothing twice.
CropsKeepPace ==
  \A f \in Fields :
    /\ fields[f].last >= StartMs
    /\ fields[f].regrown * FieldSpec[f].regrow <= fields[f].last - StartMs
    /\ fields[f].remaining + fields[f].harvested = FieldSpec[f].initial + fields[f].regrown

\* Time that a field spends full is not banked: the harvest that takes it from
\* full starts its growth period at that moment, even when no sweep had moved
\* the anchor while it was full.
CropsNotBanked ==
  [][\A f \in Fields :
       /\ fields[f].remaining = FieldSpec[f].capacity
       /\ fields'[f].remaining < FieldSpec[f].capacity
       => fields'[f].last >= now]_vars

\* Meat appears only with a new, higher life of its source; a life never goes
\* back.  A repeated or late death observation mints nothing.
MeatOnlyFromNewLife ==
  [][\A s \in Sources :
       /\ carcasses'[s].life >= carcasses[s].life
       /\ carcasses'[s].remaining > carcasses[s].remaining
            => carcasses'[s].life > carcasses[s].life]_vars

\* The carcasses and claims without their portions, times and reservations.
LastOf(cs) == [s \in Sources |-> cs[s].life]
OpenOf(cs) == [s \in Sources |-> cs[s].active]
ClaimsOf(as) == [a \in Actors |-> [serial |-> as[a].pending.serial,
                                   source |-> as[a].pending.source,
                                   life |-> as[a].pending.life]]
ReceiptsOf(as) == [a \in Actors |-> as[a].committed.serial]

Carcasses ==
  INSTANCE CarcassBook WITH
    last <- LastOf(carcasses), open <- OpenOf(carcasses), claims <- ClaimsOf(actors),
    issued <- nextClaim, receipts <- ReceiptsOf(actors)

\* Every call of the ledger, with the sweep it may begin with, is one step of the
\* book the world thread relies on: an open carcass for a new life, one claim per
\* actor and only on an open carcass, one receipt for a claim that still holds.
ImplementsBook == Carcasses!Spec

\* Every claim is settled: a hunter that dies unseen, is unloaded or never
\* comes back cannot keep meat reserved for ever.
ClaimsSettle ==
  \A a \in Actors : actors[a].pending # NoClaim ~> actors[a].pending = NoClaim
=============================================================================
