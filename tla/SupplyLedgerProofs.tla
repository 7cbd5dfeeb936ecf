------------------------ MODULE SupplyLedgerProofs ------------------------
(***************************************************************************)
(* The invariants of the food ledger for every roster, layout, clock and   *)
(* number of calls.  TypeOK is not inductive by itself: Release subtracts  *)
(* from an unsigned reservation, so it needs ReservationsExact, which      *)
(* needs ClaimsGood, which needs WithinCapacity.  Sound is equivalent to   *)
(* the conjunction of these four and is inductive.                         *)
(*                                                                         *)
(* The second part of the module is about the balances: no order of        *)
(* harvests, meals, thefts, deliveries, deaths and sweeps makes or loses a *)
(* portion, books one at the wrong depot, moves food twice for one event,  *)
(* or grows a crop ahead of the clock.  Every action changes at most one   *)
(* depot, the cargo of at most one actor, and one carcass or field besides *)
(* those the sweep touches; lemmas say what such a change does to the      *)
(* totals, and the actions then only differ in the amounts.                *)
(*                                                                         *)
(* The third part shows that the ledger implements the book of carcasses   *)
(* and claims: its initial state is an empty book, and each of its steps   *)
(* is a step of the book or leaves the book alone.  That needs Sound: a    *)
(* sweep of the book takes the claims on the carcasses it closes, and that *)
(* these are the claims of Claimants is known only because a pending claim *)
(* is of its carcass's present life.  Sound also shows that Commit never   *)
(* cancels a claim its own sweep has left.                                 *)
(***************************************************************************)
EXTENDS SupplyLedger, FiniteSetTheorems, TLAPS

---------------------------------------------------------------------------
(* What the proofs need to know about Total: it is additive, and changing  *)
(* a quantity at one owner changes the total by the same amount.           *)

\* Adding portions, and taking away no more than there is, gives portions.
LEMMA Portions == \A m, n \in Nat : m + n \in Nat /\ (m <= n => n - m \in Nat)
OBVIOUS

\* What fits into the room left may be added.
LEMMA RoomLeft == \A k, m, n \in Nat : k <= n - m => m + k <= n
OBVIOUS

\* A portion of f is an owner of f with a number between 1 and its share.
LEMMA UnitsMember ==
  ASSUME NEW f, NEW p
  PROVE  p \in Units(f) <=> \E x \in DOMAIN f : \E n \in 1..f[x] : p = <<x, n>>
BY DEF Units

\* A quantity over a finite set of owners has finitely many portions.
LEMMA UnitsFinite ==
  ASSUME NEW S, IsFiniteSet(S), NEW f \in [S -> Nat]
  PROVE  IsFiniteSet(Units(f))
<1> DEFINE Share(x) == {x} \X (1..f[x])
<1> DEFINE Shares == {Share(x) : x \in S}
<1>1. IsFiniteSet(Shares)
  <2>1. \E g : g \in Surjection(S, Shares)
    <3> DEFINE g == [x \in S |-> Share(x)]
    <3>1. g \in Surjection(S, Shares)
      BY DEF Surjection
    <3> QED BY <3>1
  <2> QED BY <2>1, FS_Surjection
<1>2. ASSUME NEW x \in S PROVE IsFiniteSet(Share(x))
  <2>1. f[x] \in Nat /\ IsFiniteSet(1..f[x])
    BY FS_Interval
  <2> DEFINE g == [n \in 1..f[x] |-> <<x, n>>]
  <2>2. g \in Surjection(1..f[x], Share(x))
    BY DEF Surjection
  <2> QED BY <2>1, <2>2, FS_Surjection
<1>3. \A T \in Shares : IsFiniteSet(T)
  BY <1>2
<1>4. IsFiniteSet(UNION Shares)
  BY <1>1, <1>3, FS_UNION
<1>5. Units(f) = UNION Shares
  BY DEF Units
<1> QED BY <1>4, <1>5

\* A total is a natural number.
LEMMA TotalType ==
  ASSUME NEW S, IsFiniteSet(S), NEW f \in [S -> Nat]
  PROVE  Total(f) \in Nat
BY UnitsFinite, FS_CardinalityType DEF Total

\* h is the pointwise sum of f and g over S.
IsSum(S, h, f, g) == \A x \in S : h[x] = f[x] + g[x]

\* Totals add up: the portions of f + g are those of f followed, at each
\* owner, by those of g.
LEMMA TotalAdd ==
  ASSUME NEW S, IsFiniteSet(S),
         NEW f \in [S -> Nat], NEW g \in [S -> Nat], NEW h \in [S -> Nat],
         IsSum(S, h, f, g)
  PROVE  Total(h) = Total(f) + Total(g)
<1> DEFINE Above == {p \in Units(h) : p \notin Units(f)}
<1>1. IsFiniteSet(Units(f)) /\ IsFiniteSet(Units(g)) /\ IsFiniteSet(Units(h))
  BY UnitsFinite
<1>2. \A x \in S : f[x] \in Nat /\ g[x] \in Nat /\ h[x] \in Nat /\ h[x] = f[x] + g[x]
  BY DEF IsSum
<1>3. Units(f) \subseteq Units(h)
  <2> SUFFICES ASSUME NEW x \in S, NEW n \in 1..f[x]
               PROVE  <<x, n>> \in Units(h)
    BY UnitsMember
  <2>1. n \in 1..h[x]
    BY <1>2
  <2> QED BY <2>1, UnitsMember
<1>4. Above = {p \in UNION {{x} \X (1..h[x]) : x \in S} : p[2] > f[p[1]]}
  <2>1. ASSUME NEW x \in S, NEW n \in 1..h[x]
        PROVE  <<x, n>> \in Units(f) <=> n <= f[x]
    <3>1. <<x, n>> \in Units(f) <=> n \in 1..f[x]
      BY UnitsMember
    <3> QED BY <3>1, <1>2
  <2>2. Units(h) = UNION {{x} \X (1..h[x]) : x \in S}
    BY DEF Units
  <2>3. \A p \in Units(h) : p \notin Units(f) <=> p[2] > f[p[1]]
    <3> SUFFICES ASSUME NEW x \in S, NEW n \in 1..h[x]
                 PROVE  <<x, n>> \notin Units(f) <=> n > f[x]
      BY UnitsMember
    <3> QED BY <2>1, <1>2
  <2> QED BY <2>2, <2>3
<1>5. Cardinality(Above) = Cardinality(Units(g))
  <2> DEFINE shift == [p \in Units(g) |-> <<p[1], f[p[1]] + p[2]>>]
  <2>1. \A p \in Units(g) : p[1] \in S /\ p[2] \in 1..g[p[1]] /\ p = <<p[1], p[2]>>
    BY UnitsMember
  <2>2. ASSUME NEW p \in Units(g) PROVE shift[p] \in Above
    <3>1. p[1] \in S /\ p[2] \in 1..g[p[1]]
      BY <2>1
    <3>2. f[p[1]] + p[2] \in 1..h[p[1]] /\ f[p[1]] + p[2] > f[p[1]]
      BY <3>1, <1>2
    <3>3. shift[p] \in Units(h)
      BY <3>1, <3>2, UnitsMember
    <3> QED BY <3>1, <3>2, <3>3, <1>4 DEF Units
  <2>3. ASSUME NEW p \in Units(g), NEW q \in Units(g), shift[p] = shift[q]
        PROVE  p = q
    <3>1. p[1] = q[1] /\ f[p[1]] + p[2] = f[q[1]] + q[2]
      BY <2>3
    <3>2. p[2] \in Int /\ q[2] \in Int /\ f[p[1]] \in Int
      BY <2>1, <1>2
    <3>3. \A i, j, k \in Int : k + i = k + j => i = j
      OBVIOUS
    <3>4. f[p[1]] + p[2] = f[p[1]] + q[2]
      BY <3>1
    <3>5. p[2] = q[2]
      BY <3>2, <3>3, <3>4, Zenon
    <3> QED BY <3>1, <3>5, <2>1
  <2>4. ASSUME NEW q \in Above PROVE \E p \in Units(g) : shift[p] = q
    <3>0. PICK x \in S : \E n \in 1..h[x] : q = <<x, n>>
      BY UnitsMember
    <3>1. PICK n \in 1..h[x] : q = <<x, n>>
      BY <3>0
    <3>2. n > f[x]
      BY <3>1, <1>4
    <3>3. n - f[x] \in 1..g[x] /\ f[x] + (n - f[x]) = n
      BY <3>2, <1>2
    <3>4. <<x, n - f[x]>> \in Units(g)
      BY <3>3, UnitsMember
    <3>5. shift[<<x, n - f[x]>>] = q
      BY <3>1, <3>3, <3>4
    <3> QED BY <3>4, <3>5
  <2>5. shift \in Bijection(Units(g), Above)
    <3>1. shift \in [Units(g) -> Above]
      BY <2>2
    <3> HIDE DEF shift, Above
    <3> QED BY <3>1, <2>3, <2>4, Zenon DEF Bijection, Injection, IsInjective, Surjection
  <2>6. ExistsBijection(Units(g), Above)
    BY <2>5 DEF ExistsBijection
  <2> QED BY <2>6, <1>1, FS_Bijection
<1>6. Units(f) \cap Above = {} /\ Units(h) = Units(f) \cup Above
  BY <1>3
<1>7. IsFiniteSet(Above)
  BY <1>1, FS_Subset
<1>8. Cardinality(Units(h)) = Cardinality(Units(f)) + Cardinality(Above) - Cardinality({})
  BY <1>1, <1>6, <1>7, FS_Union
<1>9. Cardinality({}) = 0 /\ Cardinality(Units(f)) \in Nat /\ Cardinality(Above) \in Nat
  BY <1>1, <1>7, FS_EmptySet, FS_CardinalityType
<1> QED BY <1>5, <1>8, <1>9 DEF Total

\* A quantity that is 0 but for one owner totals that owner's share.
LEMMA TotalSingle ==
  ASSUME NEW S, IsFiniteSet(S), NEW x \in S, NEW f \in [S -> Nat],
         \A y \in S \ {x} : f[y] = 0
  PROVE  Total(f) = f[x]
<1> DEFINE g == [n \in 1..f[x] |-> <<x, n>>]
<1>0. f[x] \in Nat
  OBVIOUS
<1>1. Units(f) = {x} \X (1..f[x])
  <2>1. \A p : p \in Units(f) <=> \E n \in 1..f[x] : p = <<x, n>>
    <3> TAKE p
    <3>1. \A y \in S : y # x => 1..f[y] = {}
      OBVIOUS
    <3> QED BY <3>1, UnitsMember
  <2> QED BY <2>1
<1>2. g \in Bijection(1..f[x], Units(f))
  <2>1. g \in [1..f[x] -> Units(f)]
    BY <1>1
  <2>2. \A m, n \in 1..f[x] : g[m] = g[n] => m = n
    OBVIOUS
  <2>3. \A p \in Units(f) : \E n \in 1..f[x] : g[n] = p
    BY <1>1
  <2> HIDE DEF g
  <2> QED BY <2>1, <2>2, <2>3, Zenon DEF Bijection, Injection, IsInjective, Surjection
<1>3. ExistsBijection(1..f[x], Units(f))
  BY <1>2 DEF ExistsBijection
<1> QED BY <1>0, <1>3, FS_CountingElements DEF Total

\* Changing a quantity at one owner changes the total by the difference.
LEMMA TotalUpdate ==
  ASSUME NEW S, IsFiniteSet(S), NEW f \in [S -> Nat], NEW g \in [S -> Nat],
         NEW x \in S, \A y \in S \ {x} : g[y] = f[y]
  PROVE  Total(g) + f[x] = Total(f) + g[x]
<1> DEFINE rest == [y \in S |-> IF y = x THEN 0 ELSE f[y]]
<1> DEFINE fx == [y \in S |-> IF y = x THEN f[x] ELSE 0]
<1> DEFINE gx == [y \in S |-> IF y = x THEN g[x] ELSE 0]
<1>1. rest \in [S -> Nat] /\ fx \in [S -> Nat] /\ gx \in [S -> Nat]
      /\ f[x] \in Nat /\ g[x] \in Nat
  OBVIOUS
<1>2. IsSum(S, f, rest, fx) /\ IsSum(S, g, rest, gx)
  BY DEF IsSum
<1>3. fx[x] = f[x] /\ gx[x] = g[x]
      /\ \A y \in S \ {x} : fx[y] = 0 /\ gx[y] = 0
  OBVIOUS
<1> HIDE DEF rest, fx, gx
<1>4. Total(rest) \in Nat
  BY <1>1, TotalType
<1>5. Total(fx) = f[x] /\ Total(gx) = g[x]
  BY <1>1, <1>3, TotalSingle
<1>6. Total(f) = Total(rest) + Total(fx)
  BY <1>1, <1>2, TotalAdd
<1>7. Total(g) = Total(rest) + Total(gx)
  BY <1>1, <1>2, TotalAdd
<1>8. \A r, m, n \in Nat : (r + n) + m = (r + m) + n
  OBVIOUS
<1> QED BY <1>1, <1>4, <1>5, <1>6, <1>7, <1>8

\* A quantity that is 0 everywhere totals 0.
LEMMA TotalZero ==
  ASSUME NEW S, IsFiniteSet(S), NEW f \in [S -> Nat], \A x \in S : f[x] = 0
  PROVE  Total(f) = 0
<1>1. Total(f) = Total(f) + Total(f)
  BY TotalAdd DEF IsSum
<1>2. Total(f) \in Nat
  BY TotalType
<1>3. \A n \in Nat : n = n + n => n = 0
  OBVIOUS
<1> QED BY <1>1, <1>2, <1>3, Zenon

\* No owner holds more than the total.
LEMMA TotalBounds ==
  ASSUME NEW S, IsFiniteSet(S), NEW f \in [S -> Nat], NEW x \in S
  PROVE  f[x] <= Total(f)
<1> DEFINE rest == [y \in S |-> IF y = x THEN 0 ELSE f[y]]
<1>1. rest \in [S -> Nat] /\ rest[x] = 0 /\ f[x] \in Nat
  OBVIOUS
<1>2. Total(rest) + f[x] = Total(f) + rest[x]
  BY <1>1, TotalUpdate
<1>3. Total(rest) \in Nat /\ Total(f) \in Nat
  BY <1>1, TotalType
<1> HIDE DEF rest
<1> QED BY <1>1, <1>2, <1>3

---------------------------------------------------------------------------
(* The invariant *)

\* The claim invariants as conditions on a pair of maps, so that they can be
\* stated of the state that Expire leads to in the middle of another call.
Exact(as, cs) ==
  \A s \in Sources :
    /\ cs[s].reserved = Total(HeldBy(as, cs, Actors, s))
    /\ cs[s].reserved <= cs[s].remaining
    /\ ~cs[s].active => cs[s].remaining = 0

GoodClaim(as, cs, a) ==
  LET claim == as[a].pending
      carcass == cs[claim.source]
  IN claim # NoClaim =>
       /\ claim.source \in Sources /\ Roster[a].kind \in {"hunter", "predator"}
       /\ carcass.active /\ carcass.life = claim.life
       /\ claim.expires <= carcass.expires
       /\ claim.amount # 0 /\ claim.amount <= carcass.reserved
       /\ Hunts(a) => as[a].cargo + claim.amount <= Roster[a].capacity

ClaimBooks(as, cs) ==
  /\ as \in [Actors -> Actor]
  /\ cs \in [Sources -> Carcass]
  /\ \A a \in Actors : as[a].cargo <= Roster[a].capacity
  /\ Exact(as, cs)
  /\ \A a \in Actors : GoodClaim(as, cs, a)

\* The rest of the state.
StoreBooks(ds, fs, nc, tl, mv) ==
  /\ ds \in [Depots -> Depot] /\ \A d \in Depots : ds[d].stock <= DepotSpec[d].capacity
  /\ fs \in [Fields -> Field] /\ \A f \in Fields : fs[f].remaining <= FieldSpec[f].capacity
  /\ nc \in Nat /\ tl \in Counters /\ mv \in [Actors -> [Serials -> Move]]

Sound == /\ now \in Times
         /\ ClaimBooks(actors, carcasses)
         /\ StoreBooks(depots, fields, nextClaim, tally, moved)

\* Sound is what the four invariants say together.
LEMMA SoundSplit == Sound <=> TypeOK /\ WithinCapacity /\ ReservationsExact /\ ClaimsGood
BY DEF Sound, TypeOK, WithinCapacity, ReservationsExact, ClaimsGood,
       ClaimBooks, StoreBooks, Exact, GoodClaim

\* What the proofs use of the assumptions about the configuration.
LEMMA Domains ==
  /\ IsFiniteSet(Depots) /\ IsFiniteSet(Fields) /\ IsFiniteSet(Actors) /\ IsFiniteSet(Sources)
  /\ 0 \notin Sources
BY ConfigurationAssumption

\* The quantities of an accepted depot, from the configuration.
LEMMA DepotFacts ==
  ASSUME NEW d \in Depots
  PROVE  /\ DepotSpec[d].initial \in Nat /\ DepotSpec[d].capacity \in Nat
         /\ DepotSpec[d].low \in Nat
         /\ DepotSpec[d].initial <= DepotSpec[d].capacity
<1>1. DepotAccepted(d)
  BY ConfigurationAssumption
<1> QED BY <1>1 DEF DepotAccepted

\* The quantities of an accepted field; its period is never zero.
LEMMA FieldFacts ==
  ASSUME NEW f \in Fields
  PROVE  /\ FieldSpec[f].initial \in Nat /\ FieldSpec[f].capacity \in Nat
         /\ FieldSpec[f].regrow \in Nat /\ FieldSpec[f].regrow > 0
         /\ FieldSpec[f].initial <= FieldSpec[f].capacity
<1>1. FieldRegrowMs \in Nat \ {0} /\ FieldCapacity \in Nat \ {0}
  BY PortionAssumption
<1>2. FieldAccepted(f)
  BY ConfigurationAssumption
<1> QED BY <1>1, <1>2 DEF FieldAccepted

\* The capacity and the kind of an accepted actor.
LEMMA RosterFacts ==
  ASSUME NEW a \in Actors
  PROVE  Roster[a].capacity \in Nat /\ Roster[a].kind \in Kinds
<1>1. ActorAccepted(a)
  BY ConfigurationAssumption
<1> QED BY <1>1 DEF ActorAccepted

\* The share of one actor in what the claims of A hold on s.
LEMMA HeldAt ==
  ASSUME NEW as, NEW cs, NEW A, NEW s, NEW a \in Actors
  PROVE  HeldBy(as, cs, A, s)[a] = IF a \in A /\ On(as[a].pending, s, cs[s].life)
                                   THEN as[a].pending.amount ELSE 0
BY DEF HeldBy

\* What the claims hold is a quantity.
LEMMA HeldType ==
  ASSUME NEW as \in [Actors -> Actor], NEW cs, NEW A, NEW s
  PROVE  /\ HeldBy(as, cs, A, s) \in [Actors -> Nat]
         /\ Total(HeldBy(as, cs, A, s)) \in Nat
<1>1. HeldBy(as, cs, A, s) \in [Actors -> Nat]
  BY DEF HeldBy, Actor, Claim
<1> QED BY <1>1, TotalType, Domains

---------------------------------------------------------------------------
(* Releasing claims and closing carcasses keeps the claim books, as long   *)
(* as every claim on a carcass that is closed is released.                 *)

LEMMA Settle ==
  ASSUME NEW as, NEW cs, ClaimBooks(as, cs),
         NEW A \in SUBSET Actors, NEW C \in SUBSET Sources,
         Claimants(as, cs, C) \subseteq A
  PROVE  ClaimBooks(Unclaimed(as, A), Entombed(Release(as, cs, A), C))
<1> DEFINE as2 == Unclaimed(as, A)
           cs2 == Entombed(Release(as, cs, A), C)
<1>1. as \in [Actors -> Actor] /\ cs \in [Sources -> Carcass]
  BY DEF ClaimBooks
<1>2. \A a \in Actors : /\ as2[a].cargo = as[a].cargo
                        /\ as2[a].pending = IF a \in A THEN NoClaim ELSE as[a].pending
  BY <1>1 DEF Unclaimed, Actor
<1>3. as2 \in [Actors -> Actor]
  <2>1. NoClaim \in Claim
    BY DEF NoClaim, Claim
  <2> QED BY <1>1, <2>1 DEF Unclaimed, Actor
<1>4. \A s \in Sources :
        /\ cs2[s].life = cs[s].life /\ cs2[s].expires = cs[s].expires
        /\ cs2[s].reserved = cs[s].reserved - Total(HeldBy(as, cs, A, s))
        /\ cs2[s].remaining = IF s \in C THEN 0 ELSE cs[s].remaining
        /\ cs2[s].active = IF s \in C THEN FALSE ELSE cs[s].active
        /\ DOMAIN cs2[s] = {"life", "remaining", "reserved", "expires", "active"}
  BY <1>1 DEF Entombed, Release, Carcass
<1>5. cs2 = [s \in Sources |-> cs2[s]]
  BY DEF Entombed
<1> HIDE DEF as2, cs2
<1>6. ASSUME NEW s \in Sources
      PROVE  /\ Total(HeldBy(as, cs, Actors, s))
                  = Total(HeldBy(as, cs, A, s)) + Total(HeldBy(as2, cs2, Actors, s))
             /\ Total(HeldBy(as, cs, A, s)) \in Nat
             /\ Total(HeldBy(as2, cs2, Actors, s)) \in Nat
  <2>1. ~On(NoClaim, s, cs2[s].life) /\ IsFiniteSet(Actors)
    BY Domains DEF On, NoClaim
  <2>2. ASSUME NEW a \in Actors
        PROVE  HeldBy(as, cs, Actors, s)[a]
                 = HeldBy(as, cs, A, s)[a] + HeldBy(as2, cs2, Actors, s)[a]
    <3>0. \A n \in Nat : n + 0 = n /\ 0 + n = n
      OBVIOUS
    <3>1. as[a].pending.amount \in Nat
      BY <1>1 DEF Actor, Claim
    <3>2. CASE a \in A
      <4>1. as2[a].pending = NoClaim
        BY <1>2, <3>2
      <4>2. HeldBy(as2, cs2, Actors, s)[a] = 0
        BY <2>1, <4>1, HeldAt
      <4>3. HeldBy(as, cs, Actors, s)[a] = HeldBy(as, cs, A, s)[a]
        <5>1. HeldBy(as, cs, A, s)[a]
                = IF On(as[a].pending, s, cs[s].life) THEN as[a].pending.amount ELSE 0
          BY <3>2, HeldAt, Zenon
        <5>2. HeldBy(as, cs, Actors, s)[a]
                = IF On(as[a].pending, s, cs[s].life) THEN as[a].pending.amount ELSE 0
          BY HeldAt, Zenon
        <5> QED BY <5>1, <5>2
      <4>4. HeldBy(as, cs, A, s)[a] \in Nat
        BY <1>1, HeldType
      <4> QED BY <3>0, <4>2, <4>3, <4>4, Zenon
    <3>3. CASE a \notin A
      <4>1. as2[a].pending = as[a].pending /\ cs2[s].life = cs[s].life
        BY <1>2, <1>4, <3>3
      <4>2. HeldBy(as, cs, A, s)[a] = 0
        BY <3>3, HeldAt
      <4>3. HeldBy(as, cs, Actors, s)[a] = HeldBy(as2, cs2, Actors, s)[a]
        <5>1. HeldBy(as, cs, Actors, s)[a]
                = IF On(as[a].pending, s, cs[s].life) THEN as[a].pending.amount ELSE 0
          BY HeldAt, Zenon
        <5>2. HeldBy(as2, cs2, Actors, s)[a]
                = IF On(as2[a].pending, s, cs2[s].life) THEN as2[a].pending.amount ELSE 0
          BY HeldAt, Zenon
        <5> QED BY <4>1, <5>1, <5>2
      <4>4. HeldBy(as2, cs2, Actors, s)[a] \in Nat
        BY <1>3, HeldType
      <4> QED BY <3>0, <4>2, <4>3, <4>4, Zenon
    <3> QED BY <3>2, <3>3
  <2>3. IsSum(Actors, HeldBy(as, cs, Actors, s), HeldBy(as, cs, A, s), HeldBy(as2, cs2, Actors, s))
    BY <2>2 DEF IsSum
  <2>4. /\ HeldBy(as, cs, Actors, s) \in [Actors -> Nat]
        /\ HeldBy(as, cs, A, s) \in [Actors -> Nat]
        /\ HeldBy(as2, cs2, Actors, s) \in [Actors -> Nat]
        /\ Total(HeldBy(as, cs, A, s)) \in Nat
        /\ Total(HeldBy(as2, cs2, Actors, s)) \in Nat
    BY <1>1, <1>3, HeldType
  <2>5. Total(HeldBy(as, cs, Actors, s))
          = Total(HeldBy(as, cs, A, s)) + Total(HeldBy(as2, cs2, Actors, s))
    <3> DEFINE h == HeldBy(as, cs, Actors, s)
               f == HeldBy(as, cs, A, s)
               g == HeldBy(as2, cs2, Actors, s)
    <3> HIDE DEF h, f, g
    <3>1. /\ h \in [Actors -> Nat] /\ f \in [Actors -> Nat] /\ g \in [Actors -> Nat]
          /\ IsSum(Actors, h, f, g)
      BY <2>3, <2>4 DEF h, f, g
    <3>2. Total(h) = Total(f) + Total(g)
      BY <2>1, <3>1, TotalAdd
    <3> QED BY <3>2 DEF h, f, g
  <2> QED BY <2>4, <2>5
<1>7. ASSUME NEW s \in C PROVE Total(HeldBy(as2, cs2, Actors, s)) = 0
  <2>1. s \in Sources
    OBVIOUS
  <2>2. ASSUME NEW a \in Actors PROVE HeldBy(as2, cs2, Actors, s)[a] = 0
    <3>1. CASE a \in A
      <4>1. as2[a].pending = NoClaim
        BY <1>2, <3>1
      <4>2. ~On(as2[a].pending, s, cs2[s].life)
        BY <2>1, <4>1, Domains DEF On, NoClaim
      <4> QED BY <4>2, HeldAt, Zenon
    <3>2. CASE a \notin A
      <4>1. ~On(as[a].pending, s, cs[s].life)
        BY <3>2 DEF Claimants
      <4>2. ~On(as2[a].pending, s, cs2[s].life)
        BY <1>2, <1>4, <2>1, <3>2, <4>1
      <4> QED BY <4>2, HeldAt, Zenon
    <3> QED BY <3>1, <3>2
  <2>3. HeldBy(as2, cs2, Actors, s) \in [Actors -> Nat] /\ IsFiniteSet(Actors)
    BY <1>3, HeldType, Domains
  <2> QED BY <2>2, <2>3, TotalZero, Zenon
<1>8. Exact(as2, cs2)
  <2> SUFFICES ASSUME NEW s \in Sources
               PROVE  /\ cs2[s].reserved = Total(HeldBy(as2, cs2, Actors, s))
                      /\ cs2[s].reserved <= cs2[s].remaining
                      /\ ~cs2[s].active => cs2[s].remaining = 0
    BY DEF Exact
  <2>1. /\ cs[s].reserved = Total(HeldBy(as, cs, Actors, s))
        /\ cs[s].reserved <= cs[s].remaining
        /\ ~cs[s].active => cs[s].remaining = 0
        /\ cs[s].reserved \in Nat /\ cs[s].remaining \in Nat
    BY <1>1 DEF ClaimBooks, Exact, Carcass
  <2> DEFINE all == Total(HeldBy(as, cs, Actors, s))
             gone == Total(HeldBy(as, cs, A, s))
             kept == Total(HeldBy(as2, cs2, Actors, s))
  <2>2. all = gone + kept /\ gone \in Nat /\ kept \in Nat
    BY <1>6
  <2>3. cs[s].reserved = all /\ cs2[s].reserved = cs[s].reserved - gone
    BY <1>4, <2>1
  <2>4. s \in C => kept = 0
    BY <1>7
  <2> HIDE DEF all, gone, kept
  <2>5. cs2[s].reserved = kept
    BY <2>2, <2>3
  <2>6. cs2[s].reserved <= cs2[s].remaining
    <3>0. \A g, k, r \in Nat : g + k <= r => k <= r
      OBVIOUS
    <3>1. CASE s \in C
      <4>1. cs2[s].remaining = 0 /\ cs2[s].reserved = 0
        BY <1>4, <2>4, <2>5, <3>1
      <4> QED BY <4>1
    <3>2. CASE s \notin C
      <4>1. cs2[s].remaining = cs[s].remaining /\ gone + kept <= cs[s].remaining
        BY <1>4, <2>1, <2>2, <2>3, <3>2
      <4> QED BY <2>1, <2>2, <2>5, <3>0, <4>1, Zenon
    <3> QED BY <3>1, <3>2
  <2>7. ~cs2[s].active => cs2[s].remaining = 0
    BY <1>4, <2>1
  <2> QED BY <2>5, <2>6, <2>7 DEF kept
<1>9. cs2 \in [Sources -> Carcass]
  <2> SUFFICES ASSUME NEW s \in Sources PROVE cs2[s] \in Carcass
    BY <1>5
  <2>1. cs[s] \in Carcass /\ cs2[s].reserved \in Nat
    BY <1>1, <1>6, <1>8 DEF Exact
  <2>2. cs2[s] = [life |-> cs2[s].life, remaining |-> cs2[s].remaining,
                  reserved |-> cs2[s].reserved, expires |-> cs2[s].expires,
                  active |-> cs2[s].active]
    BY <2>1 DEF cs2, Entombed, Release, Carcass
  <2>3. /\ cs2[s].life \in Nat /\ cs2[s].remaining \in Nat /\ cs2[s].expires \in Nat
        /\ cs2[s].active \in BOOLEAN
    <3>1. /\ cs[s].life \in Nat /\ cs[s].remaining \in Nat /\ cs[s].expires \in Nat
          /\ cs[s].active \in BOOLEAN
      BY <2>1 DEF Carcass
    <3>2. CASE s \in C
      <4>1. 0 \in Nat
        OBVIOUS
      <4>2. cs2[s].remaining = 0 /\ cs2[s].active = FALSE
        BY <1>4, <3>2, Zenon
      <4> QED BY <1>4, <3>1, <4>1, <4>2, Zenon
    <3>3. CASE s \notin C
      BY <1>4, <3>1, <3>3, Zenon
    <3> QED BY <3>2, <3>3, Zenon
  <2> QED BY <2>1, <2>2, <2>3 DEF Carcass
<1>10. ASSUME NEW a \in Actors PROVE GoodClaim(as2, cs2, a)
  <2> SUFFICES ASSUME as2[a].pending # NoClaim PROVE GoodClaim(as2, cs2, a)
    BY DEF GoodClaim
  <2>1. a \notin A /\ as2[a].pending = as[a].pending /\ as2[a].cargo = as[a].cargo
    BY <1>2
  <2> DEFINE claim == as[a].pending
  <2>2. /\ claim.source \in Sources /\ Roster[a].kind \in {"hunter", "predator"}
        /\ cs[claim.source].active /\ cs[claim.source].life = claim.life
        /\ claim.expires <= cs[claim.source].expires
        /\ claim.amount # 0
        /\ Hunts(a) => as[a].cargo + claim.amount <= Roster[a].capacity
    BY <2>1 DEF ClaimBooks, GoodClaim
  <2>3. claim.source \notin C
    BY <2>1, <2>2 DEF Claimants, On
  <2>4. HeldBy(as2, cs2, Actors, claim.source)[a] = claim.amount
    <3>1. On(as2[a].pending, claim.source, cs2[claim.source].life)
      BY <1>4, <2>1, <2>2 DEF On
    <3> QED BY <2>1, <3>1, HeldAt, ZenonT(60)
  <2>5. claim.amount <= cs2[claim.source].reserved
    <3>1. /\ HeldBy(as2, cs2, Actors, claim.source) \in [Actors -> Nat]
          /\ IsFiniteSet(Actors)
      BY <1>3, HeldType, Domains
    <3>2. HeldBy(as2, cs2, Actors, claim.source)[a]
            <= Total(HeldBy(as2, cs2, Actors, claim.source))
      BY <3>1, TotalBounds, Zenon
    <3>3. cs2[claim.source].reserved = Total(HeldBy(as2, cs2, Actors, claim.source))
      BY <1>8, <2>2 DEF Exact
    <3> QED BY <2>4, <3>2, <3>3, Zenon
  <2>6. /\ cs2[claim.source].active = cs[claim.source].active
        /\ cs2[claim.source].life = cs[claim.source].life
        /\ cs2[claim.source].expires = cs[claim.source].expires
    BY <1>4, <2>2, <2>3
  <2>7. as2[a].pending = claim /\ as2[a].cargo = as[a].cargo
    BY <2>1
  <2> HIDE DEF claim
  <2> QED BY <2>2, <2>5, <2>6, <2>7 DEF GoodClaim
<1>11. \A a \in Actors : as2[a].cargo <= Roster[a].capacity
  BY <1>2 DEF ClaimBooks
<1>12. ClaimBooks(as2, cs2)
  BY <1>3, <1>8, <1>9, <1>10, <1>11 DEF ClaimBooks
<1> QED BY <1>12 DEF as2, cs2

\* Releasing claims alone keeps the claim books.
LEMMA SettleOnly ==
  ASSUME NEW as, NEW cs, ClaimBooks(as, cs), NEW A \in SUBSET Actors
  PROVE  ClaimBooks(Unclaimed(as, A), Release(as, cs, A))
<1>1. Claimants(as, cs, {}) \subseteq A
  BY DEF Claimants
<1>2. Entombed(Release(as, cs, A), {}) = Release(as, cs, A)
  <2>1. Release(as, cs, A) = [s \in Sources |-> Release(as, cs, A)[s]]
    BY DEF Release
  <2> HIDE DEF Release
  <2> QED BY <2>1 DEF Entombed
<1>3. ClaimBooks(Unclaimed(as, A), Entombed(Release(as, cs, A), {}))
  BY <1>1, Settle
<1> QED BY <1>2, <1>3

\* Cargo, receipts and serials may change as long as the cargo fits and no
\* hunter with a claim loses room.
LEMMA Carry ==
  ASSUME NEW as, NEW cs, ClaimBooks(as, cs), NEW as2 \in [Actors -> Actor],
         \A a \in Actors : /\ as2[a].pending = as[a].pending
                           /\ as2[a].cargo <= Roster[a].capacity
                           /\ Hunts(a) /\ as[a].pending # NoClaim => as2[a].cargo <= as[a].cargo
  PROVE  ClaimBooks(as2, cs)
<1>1. \A s \in Sources : HeldBy(as2, cs, Actors, s) = HeldBy(as, cs, Actors, s)
  BY DEF HeldBy
<1>2. Exact(as2, cs)
  BY <1>1 DEF ClaimBooks, Exact
<1>3. ASSUME NEW a \in Actors PROVE GoodClaim(as2, cs, a)
  <2>1. GoodClaim(as, cs, a) /\ as2[a].pending = as[a].pending
    BY DEF ClaimBooks
  <2>2. /\ as[a].cargo \in Nat /\ as2[a].cargo \in Nat /\ as[a].pending.amount \in Nat
        /\ Roster[a].capacity \in Nat
    BY RosterFacts DEF ClaimBooks, Actor, Claim
  <2>3. \A m, n, k, c \in Nat : m <= n /\ n + k <= c => m + k <= c
    OBVIOUS
  <2>4. Hunts(a) /\ as[a].pending # NoClaim
          => (as[a].cargo + as[a].pending.amount <= Roster[a].capacity
              => as2[a].cargo + as[a].pending.amount <= Roster[a].capacity)
    BY <2>2, <2>3, Zenon
  <2> QED BY <2>1, <2>4, Zenon DEF GoodClaim
<1> QED BY <1>2, <1>3 DEF ClaimBooks

\* Unreserved meat may go.
LEMMA Butcher ==
  ASSUME NEW as, NEW cs, ClaimBooks(as, cs), NEW cs2 \in [Sources -> Carcass],
         \A s \in Sources : /\ cs2[s].life = cs[s].life /\ cs2[s].expires = cs[s].expires
                            /\ cs2[s].active = cs[s].active
                            /\ cs2[s].reserved = cs[s].reserved
                            /\ cs2[s].reserved <= cs2[s].remaining
                            /\ ~cs2[s].active => cs2[s].remaining = 0
  PROVE  ClaimBooks(as, cs2)
<1>1. \A s \in Sources : HeldBy(as, cs2, Actors, s) = HeldBy(as, cs, Actors, s)
  BY DEF HeldBy
<1>2. Exact(as, cs2)
  BY <1>1 DEF ClaimBooks, Exact
<1>3. ASSUME NEW a \in Actors PROVE GoodClaim(as, cs2, a)
  <2>1. GoodClaim(as, cs, a)
    BY DEF ClaimBooks
  <2> QED BY <2>1 DEF GoodClaim
<1> QED BY <1>2, <1>3 DEF ClaimBooks

\* A carcass that nobody claims may be replaced by a fresh one.
LEMMA FreshCarcass ==
  ASSUME NEW as, NEW cs, ClaimBooks(as, cs), NEW s \in Sources,
         \A a \in Actors : as[a].pending.source # s,
         NEW new \in Carcass, new.reserved = 0, new.active
  PROVE  ClaimBooks(as, [cs EXCEPT ![s] = new])
<1> DEFINE cs2 == [cs EXCEPT ![s] = new]
<1>1. as \in [Actors -> Actor] /\ cs \in [Sources -> Carcass]
  BY DEF ClaimBooks
<1>2. cs2 \in [Sources -> Carcass] /\ cs2[s] = new /\ \A r \in Sources \ {s} : cs2[r] = cs[r]
  BY <1>1
<1> HIDE DEF cs2
<1>3. Total(HeldBy(as, cs2, Actors, s)) = 0
  <2>1. \A a \in Actors : HeldBy(as, cs2, Actors, s)[a] = 0
    BY DEF HeldBy, On
  <2>2. HeldBy(as, cs2, Actors, s) \in [Actors -> Nat] /\ IsFiniteSet(Actors)
    BY <1>1, HeldType, Domains
  <2> QED BY <2>1, <2>2, TotalZero, Zenon
<1>4. Exact(as, cs2)
  <2> SUFFICES ASSUME NEW r \in Sources
               PROVE  /\ cs2[r].reserved = Total(HeldBy(as, cs2, Actors, r))
                      /\ cs2[r].reserved <= cs2[r].remaining
                      /\ ~cs2[r].active => cs2[r].remaining = 0
    BY DEF Exact
  <2>1. CASE r = s
    <3>1. cs2[r].reserved = 0 /\ cs2[r].remaining \in Nat /\ cs2[r].active
      BY <1>2, <2>1 DEF Carcass
    <3>2. cs2[r].reserved <= cs2[r].remaining
      BY <3>1
    <3> QED BY <1>3, <2>1, <3>1, <3>2, Zenon
  <2>2. CASE r # s
    <3>1. cs2[r] = cs[r]
      BY <1>2, <2>2
    <3>2. HeldBy(as, cs2, Actors, r) = HeldBy(as, cs, Actors, r)
      BY <3>1 DEF HeldBy
    <3> QED BY <3>1, <3>2 DEF ClaimBooks, Exact
  <2> QED BY <2>1, <2>2
<1>5. ASSUME NEW a \in Actors PROVE GoodClaim(as, cs2, a)
  <2>1. GoodClaim(as, cs, a) /\ as[a].pending.source # s
    BY DEF ClaimBooks
  <2> QED BY <1>2, <2>1 DEF GoodClaim
<1> QED BY <1>1, <1>2, <1>4, <1>5 DEF ClaimBooks, cs2

\* An actor without a claim may claim free meat of an active carcass.
LEMMA NewClaim ==
  ASSUME NEW as, NEW cs, ClaimBooks(as, cs), NEW a \in Actors, NEW s \in Sources,
         NEW claim \in Claim,
         as[a].pending = NoClaim, Roster[a].kind \in {"hunter", "predator"}, cs[s].active,
         claim.source = s, claim.life = cs[s].life, claim.expires <= cs[s].expires,
         claim.amount # 0, cs[s].reserved + claim.amount <= cs[s].remaining,
         Hunts(a) => as[a].cargo + claim.amount <= Roster[a].capacity
  PROVE  ClaimBooks([as EXCEPT ![a].pending = claim],
                    [cs EXCEPT ![s].reserved = @ + claim.amount])
<1> DEFINE as2 == [as EXCEPT ![a].pending = claim]
           cs2 == [cs EXCEPT ![s].reserved = @ + claim.amount]
<1>1. as \in [Actors -> Actor] /\ cs \in [Sources -> Carcass]
  BY DEF ClaimBooks
<1>2. /\ as2 \in [Actors -> Actor]
      /\ \A b \in Actors : as2[b].cargo = as[b].cargo
      /\ as2[a].pending = claim
      /\ \A b \in Actors \ {a} : as2[b] = as[b]
  BY <1>1 DEF Actor
<1>3. claim.amount \in Nat /\ cs[s].reserved \in Nat
  BY <1>1 DEF Claim, Carcass
<1>4. /\ cs2 \in [Sources -> Carcass]
      /\ \A r \in Sources : /\ cs2[r].life = cs[r].life /\ cs2[r].expires = cs[r].expires
                            /\ cs2[r].active = cs[r].active /\ cs2[r].remaining = cs[r].remaining
      /\ cs2[s].reserved = cs[s].reserved + claim.amount
      /\ \A r \in Sources \ {s} : cs2[r] = cs[r]
  BY <1>1, <1>3 DEF Carcass
<1> HIDE DEF as2, cs2
<1>5. ASSUME NEW r \in Sources PROVE ~On(NoClaim, r, cs[r].life)
  BY Domains DEF On, NoClaim
<1>6. Total(HeldBy(as2, cs2, Actors, s)) = Total(HeldBy(as, cs, Actors, s)) + claim.amount
  <2> DEFINE f == HeldBy(as, cs, Actors, s)
             g == HeldBy(as2, cs2, Actors, s)
  <2>1. f \in [Actors -> Nat] /\ g \in [Actors -> Nat] /\ IsFiniteSet(Actors)
        /\ Total(f) \in Nat /\ Total(g) \in Nat
    BY <1>1, <1>2, HeldType, Domains
  <2>2. f[a] = 0
    <3>1. ~On(as[a].pending, s, cs[s].life)
      BY <1>5
    <3> QED BY <3>1 DEF HeldBy
  <2>3. g[a] = claim.amount
    <3>1. On(as2[a].pending, s, cs2[s].life)
      BY <1>2, <1>4 DEF On
    <3> QED BY <1>2, <3>1, HeldAt
  <2>4. \A b \in Actors \ {a} : g[b] = f[b]
    BY <1>2, <1>4 DEF HeldBy
  <2> HIDE DEF f, g
  <2>5. Total(g) + f[a] = Total(f) + g[a]
    BY <2>1, <2>4, TotalUpdate
  <2>6. Total(g) = Total(f) + claim.amount
    <3> DEFINE m == Total(f)
               n == Total(g)
    <3>1. m \in Nat /\ n \in Nat /\ n + 0 = m + claim.amount
      BY <2>1, <2>2, <2>3, <2>5
    <3> HIDE DEF m, n
    <3>2. n = m + claim.amount
      BY <1>3, <3>1
    <3> QED BY <3>2 DEF m, n
  <2> QED BY <2>6 DEF f, g
<1>7. ASSUME NEW r \in Sources \ {s}
      PROVE  HeldBy(as2, cs2, Actors, r) = HeldBy(as, cs, Actors, r)
  <2>1. ASSUME NEW b \in Actors
        PROVE  On(as2[b].pending, r, cs2[r].life) <=> On(as[b].pending, r, cs[r].life)
    <3>1. CASE b = a
      <4>1. ~On(claim, r, cs2[r].life)
        BY DEF On
      <4> QED BY <1>2, <1>5, <3>1, <4>1
    <3>2. CASE b # a
      BY <1>2, <1>4, <3>2
    <3> QED BY <3>1, <3>2
  <2>2. \A b \in Actors : b # a => as2[b].pending = as[b].pending
    BY <1>2
  <2>3. ~On(as2[a].pending, r, cs2[r].life)
    BY <1>2 DEF On
  <2> QED BY <2>1, <2>2, <2>3 DEF HeldBy
<1>8. Exact(as2, cs2)
  <2> SUFFICES ASSUME NEW r \in Sources
               PROVE  /\ cs2[r].reserved = Total(HeldBy(as2, cs2, Actors, r))
                      /\ cs2[r].reserved <= cs2[r].remaining
                      /\ ~cs2[r].active => cs2[r].remaining = 0
    BY DEF Exact
  <2>1. /\ cs[r].reserved = Total(HeldBy(as, cs, Actors, r))
        /\ cs[r].reserved <= cs[r].remaining
        /\ ~cs[r].active => cs[r].remaining = 0
    BY DEF ClaimBooks, Exact
  <2>2. CASE r = s
    BY <1>4, <1>6, <2>1, <2>2, Zenon
  <2>3. CASE r # s
    BY <1>4, <1>7, <2>1, <2>3
  <2> QED BY <2>2, <2>3
<1>9. ASSUME NEW b \in Actors PROVE GoodClaim(as2, cs2, b)
  <2>1. CASE b = a
    <3>1. claim.amount <= cs2[s].reserved
      <4>1. \A m, n \in Nat : m <= n + m
        OBVIOUS
      <4> QED BY <1>3, <1>4, <4>1, Zenon
    <3> QED BY <1>2, <1>4, <2>1, <3>1 DEF GoodClaim
  <2>2. CASE b # a
    <3>1. GoodClaim(as, cs, b) /\ as2[b] = as[b]
      BY <1>2, <2>2 DEF ClaimBooks
    <3>2. \A r \in Sources : cs2[r].life = cs[r].life /\ cs2[r].expires = cs[r].expires
                             /\ cs2[r].active = cs[r].active
      BY <1>4
    <3>3. ASSUME NEW r \in Sources, as[b].pending.amount <= cs[r].reserved
          PROVE  as[b].pending.amount <= cs2[r].reserved
      <4>1. \A k, m, n \in Nat : k <= n => k <= n + m
        OBVIOUS
      <4>2. as[b].pending.amount \in Nat
        BY <1>1 DEF Actor, Claim
      <4>3. CASE r = s
        BY <1>3, <1>4, <3>3, <4>1, <4>2, <4>3, Zenon
      <4>4. CASE r # s
        BY <1>4, <3>3, <4>4
      <4> QED BY <4>3, <4>4
    <3> QED BY <3>1, <3>2, <3>3, Zenon DEF GoodClaim
  <2> QED BY <2>1, <2>2
<1>10. \A b \in Actors : as2[b].cargo <= Roster[b].capacity
  BY <1>2 DEF ClaimBooks
<1>11. ClaimBooks(as2, cs2)
  BY <1>2, <1>4, <1>8, <1>9, <1>10 DEF ClaimBooks
<1> QED BY <1>11 DEF as2, cs2

\* Releasing the good claim of one actor changes its own carcass alone.
LEMMA ReleaseOne ==
  ASSUME NEW as, NEW cs, ClaimBooks(as, cs), NEW a \in Actors, as[a].pending # NoClaim
  PROVE  /\ as[a].pending.source \in Sources
         /\ Total(HeldBy(as, cs, {a}, as[a].pending.source)) = as[a].pending.amount
         /\ \A r \in Sources : r # as[a].pending.source => Total(HeldBy(as, cs, {a}, r)) = 0
<1> DEFINE s == as[a].pending.source
<1>1. as \in [Actors -> Actor] /\ s \in Sources /\ cs[s].life = as[a].pending.life
  BY DEF ClaimBooks, GoodClaim
<1>2. ASSUME NEW r \in Sources PROVE Total(HeldBy(as, cs, {a}, r)) = HeldBy(as, cs, {a}, r)[a]
  <2>1. HeldBy(as, cs, {a}, r) \in [Actors -> Nat] /\ IsFiniteSet(Actors)
    BY <1>1, HeldType, Domains
  <2>2. \A b \in Actors \ {a} : HeldBy(as, cs, {a}, r)[b] = 0
    BY DEF HeldBy
  <2> DEFINE h == HeldBy(as, cs, {a}, r)
  <2>3. h \in [Actors -> Nat] /\ \A b \in Actors \ {a} : h[b] = 0
    BY <2>1, <2>2
  <2> HIDE DEF h
  <2>4. Total(h) = h[a]
    BY <2>1, <2>3, TotalSingle
  <2> QED BY <2>4 DEF h
<1>3. ASSUME NEW r \in Sources
      PROVE  On(as[a].pending, r, cs[r].life) <=> r = s
  BY <1>1 DEF On
<1>4. ASSUME NEW r \in Sources
      PROVE  HeldBy(as, cs, {a}, r)[a] = IF r = s THEN as[a].pending.amount ELSE 0
  <2>1. HeldBy(as, cs, {a}, r)[a]
          = IF On(as[a].pending, r, cs[r].life) THEN as[a].pending.amount ELSE 0
    BY HeldAt
  <2> QED BY <1>3, <2>1
<1> QED BY <1>1, <1>2, <1>4

\* The claim of actor a turns into carried portions of cargo.
Spent(as, cs, a, carried, as2, cs2) ==
  LET s == as[a].pending.source
  IN /\ as2 \in [Actors -> Actor] /\ cs2 \in [Sources -> Carcass]
     /\ \A b \in Actors : b # a => as2[b] = as[b]
     /\ as2[a].pending = NoClaim /\ as2[a].cargo = as[a].cargo + carried
     /\ \A r \in Sources : r # s => cs2[r] = cs[r]
     /\ cs2[s].life = cs[s].life /\ cs2[s].expires = cs[s].expires
     /\ cs2[s].active = cs[s].active
     /\ cs2[s].reserved = cs[s].reserved - as[a].pending.amount
     /\ cs2[s].remaining = cs[s].remaining - as[a].pending.amount

\* A good claim may be turned into cargo, or into a meal.
LEMMA Spend ==
  ASSUME NEW as, NEW cs, ClaimBooks(as, cs), NEW a \in Actors, as[a].pending # NoClaim,
         NEW carried \in Nat, as[a].cargo + carried <= Roster[a].capacity,
         NEW as2, NEW cs2, Spent(as, cs, a, carried, as2, cs2)
  PROVE  ClaimBooks(as2, cs2)
<1> DEFINE s == as[a].pending.source
           as1 == Unclaimed(as, {a})
           cs1 == Release(as, cs, {a})
<1>1. as \in [Actors -> Actor] /\ cs \in [Sources -> Carcass] /\ s \in Sources
  BY ReleaseOne DEF ClaimBooks
<1>2. ClaimBooks(as1, cs1)
  BY SettleOnly
<1>3. \A b \in Actors : /\ as1[b].cargo = as[b].cargo
                        /\ as1[b].pending = IF b = a THEN NoClaim ELSE as[b].pending
  BY <1>1 DEF Unclaimed, Actor
<1>4. \A r \in Sources :
        /\ cs1[r].life = cs[r].life /\ cs1[r].expires = cs[r].expires
        /\ cs1[r].active = cs[r].active /\ cs1[r].remaining = cs[r].remaining
        /\ cs1[r].reserved = cs[r].reserved - Total(HeldBy(as, cs, {a}, r))
  BY <1>1 DEF Release, Carcass
<1> HIDE DEF as1, cs1
<1>5. \A r \in Sources : cs1[r].reserved = cs2[r].reserved
  <2> SUFFICES ASSUME NEW r \in Sources PROVE cs1[r].reserved = cs2[r].reserved
    OBVIOUS
  <2>1. CASE r = s
    <3>1. Total(HeldBy(as, cs, {a}, r)) = as[a].pending.amount
      BY <2>1, ReleaseOne, Zenon
    <3> QED BY <1>4, <2>1, <3>1 DEF Spent
  <2>2. CASE r # s
    <3>1. Total(HeldBy(as, cs, {a}, r)) = 0
      BY <2>2, ReleaseOne, Zenon
    <3>4. cs2[r] = cs[r]
      BY <2>2 DEF Spent
    <3>2. cs[r].reserved \in Nat
      BY <1>1 DEF Carcass
    <3>3. \A n \in Nat : n - 0 = n
      OBVIOUS
    <3> QED BY <1>4, <3>1, <3>2, <3>3, <3>4, Zenon
  <2> QED BY <2>1, <2>2
<1>6. ASSUME NEW r \in Sources
      PROVE  /\ cs2[r].life = cs1[r].life /\ cs2[r].expires = cs1[r].expires
             /\ cs2[r].active = cs1[r].active
             /\ cs2[r].reserved = cs1[r].reserved
             /\ cs2[r].reserved <= cs2[r].remaining
             /\ ~cs2[r].active => cs2[r].remaining = 0
  <2>1. /\ cs[r].reserved <= cs[r].remaining
        /\ ~cs[r].active => cs[r].remaining = 0
        /\ cs[s].active
    BY DEF ClaimBooks, Exact, GoodClaim
  <2>2. CASE r = s
    <3>1. cs[r].reserved \in Nat /\ cs[r].remaining \in Nat /\ as[a].pending.amount \in Nat
      BY <1>1 DEF Carcass, Actor, Claim
    <3>2. \A k, m, n \in Nat : m <= n => m - k <= n - k
      OBVIOUS
    <3>3. cs2[r].reserved <= cs2[r].remaining
      <4>1. cs[r].reserved - as[a].pending.amount <= cs[r].remaining - as[a].pending.amount
        BY <2>1, <3>1, <3>2, Zenon
      <4> QED BY <2>2, <4>1 DEF Spent
    <3> QED BY <1>4, <1>5, <2>1, <2>2, <3>3, Zenon DEF Spent
  <2>3. CASE r # s
    <3>1. cs2[r] = cs[r]
      BY <2>3 DEF Spent
    <3> QED BY <1>4, <1>5, <2>1, <3>1
  <2> QED BY <2>2, <2>3
<1>7. ClaimBooks(as1, cs2)
  <2>1. cs2 \in [Sources -> Carcass]
    BY DEF Spent
  <2> QED BY <1>2, <1>6, <2>1, Butcher
<1>8. ASSUME NEW b \in Actors
      PROVE  /\ as2[b].pending = as1[b].pending
             /\ as2[b].cargo <= Roster[b].capacity
             /\ Hunts(b) /\ as1[b].pending # NoClaim => as2[b].cargo <= as1[b].cargo
  <2>1. CASE b = a
    BY <1>3, <2>1 DEF Spent
  <2>2. CASE b # a
    <3>1. as2[b] = as[b] /\ as[b].cargo <= Roster[b].capacity /\ as[b].cargo \in Nat
      BY <1>1, <2>2 DEF Spent, ClaimBooks, Actor
    <3>2. \A n \in Nat : n <= n
      OBVIOUS
    <3>3. as1[b].cargo = as[b].cargo /\ as1[b].pending = as[b].pending
      BY <1>3, <2>2
    <3> QED BY <3>1, <3>2, <3>3, Zenon
  <2> QED BY <2>1, <2>2
<1>9. as2 \in [Actors -> Actor]
  BY DEF Spent
<1> QED BY <1>7, <1>8, <1>9, Carry

---------------------------------------------------------------------------
(* Expiry, as a step of its own and in the middle of another call *)

\* Growth is a quantity and fits on the field.
LEMMA GrowthType ==
  ASSUME NEW f \in Fields, NEW field \in Field, NEW t \in Nat,
         field.remaining <= FieldSpec[f].capacity
  PROVE  Growth(f, field, t) \in Nat /\ field.remaining + Growth(f, field, t) <= FieldSpec[f].capacity
<1>1. /\ field.last \in Nat /\ field.remaining \in Nat
      /\ FieldSpec[f].capacity \in Nat /\ FieldSpec[f].regrow \in Nat /\ FieldSpec[f].regrow > 0
  BY FieldFacts DEF Field
<1>2. \A m, n \in Nat : n > 0 => m \div n \in Nat
  OBVIOUS
<1>3. CASE t <= field.last
  <2>1. Growth(f, field, t) = 0
    BY <1>3 DEF Growth
  <2> QED BY <1>1, <2>1
<1>4. CASE ~(t <= field.last)
  <2> DEFINE grown == (t - field.last) \div FieldSpec[f].regrow
             room == FieldSpec[f].capacity - field.remaining
  <2>1. t - field.last \in Nat /\ room \in Nat /\ field.remaining + room = FieldSpec[f].capacity
    BY <1>1, <1>4
  <2>2. grown \in Nat
    BY <1>1, <1>2, <2>1, Zenon
  <2>3. Growth(f, field, t) = Smaller(grown, room)
    BY <1>4 DEF Growth
  <2> HIDE DEF grown, room
  <2>4. Smaller(grown, room) \in Nat /\ Smaller(grown, room) <= room
    BY <2>1, <2>2 DEF Smaller
  <2>5. \A k, m, n, c \in Nat : k <= n /\ m + n = c => m + k <= c
    OBVIOUS
  <2> QED BY <1>1, <2>1, <2>3, <2>4, <2>5, Zenon
<1> QED BY <1>3, <1>4

\* A regrown field keeps its type and stays within its capacity.
LEMMA RegrowType ==
  ASSUME NEW f \in Fields, NEW field \in Field, NEW t \in Nat,
         field.remaining <= FieldSpec[f].capacity
  PROVE  /\ Regrow(f, field, t) \in Field
         /\ Regrow(f, field, t).remaining <= FieldSpec[f].capacity
<1> DEFINE growth == Growth(f, field, t)
           step == growth * FieldSpec[f].regrow
<1>1. growth \in Nat /\ field.remaining + growth <= FieldSpec[f].capacity
  BY GrowthType
<1>2. FieldSpec[f].regrow \in Nat
  BY FieldFacts
<1>3. step \in Nat
  <2>1. \A m, n \in Nat : m * n \in Nat
    OBVIOUS
  <2> QED BY <1>1, <1>2, <2>1, Zenon
<1>4. \/ Regrow(f, field, t) = field
      \/ Regrow(f, field, t) = [field EXCEPT !.remaining = @ + growth, !.regrown = @ + growth,
                                             !.last = t]
      \/ Regrow(f, field, t) = [field EXCEPT !.remaining = @ + growth, !.regrown = @ + growth,
                                             !.last = @ + step]
  BY DEF Regrow
<1> HIDE DEF growth, step
<1>5. field \in [remaining : Nat, last : Nat, harvested : Nat, regrown : Nat]
  BY DEF Field
<1>6. ASSUME NEW last \in Nat
      PROVE  LET new == [field EXCEPT !.remaining = @ + growth, !.regrown = @ + growth, !.last = last]
             IN new \in Field /\ new.remaining <= FieldSpec[f].capacity
  <2> DEFINE new == [field EXCEPT !.remaining = @ + growth, !.regrown = @ + growth, !.last = last]
  <2>1. field.remaining + growth \in Nat /\ field.regrown + growth \in Nat
    BY <1>1, <1>5
  <2>2. new \in Field
    BY <1>5, <2>1 DEF Field
  <2>3. new.remaining = field.remaining + growth
    BY <1>5
  <2> QED BY <1>1, <2>2, <2>3
<1>7. field.last + step \in Nat
  BY <1>3, <1>5
<1> QED BY <1>4, <1>5, <1>6, <1>7 DEF Field

\* Meat given up is a quantity.
LEMMA MeatType ==
  ASSUME NEW cs \in [Sources -> Carcass], NEW C
  PROVE  MeatOf(cs, C) \in Nat
<1> DEFINE m == [s \in Sources |-> IF s \in C THEN cs[s].remaining ELSE 0]
<1>1. m \in [Sources -> Nat] /\ IsFiniteSet(Sources)
  BY Domains DEF Carcass
<1> HIDE DEF m
<1>2. Total(m) \in Nat
  BY <1>1, TotalType
<1> QED BY <1>2 DEF m, MeatOf

\* The sweep at the start of Reserve, Commit and HarvestField leads to a sound state.
LEMMA ExpireSound ==
  ASSUME Sound
  PROVE  /\ ClaimBooks(ExpiredActors, ExpiredCarcasses)
         /\ StoreBooks(depots, ExpiredFields, nextClaim, ExpiredTally, moved)
<1>1. ClaimBooks(ExpiredActors, ExpiredCarcasses)
  <2>1. SweptClaims \in SUBSET Actors /\ DueCarcasses \in SUBSET Sources
        /\ Claimants(actors, carcasses, DueCarcasses) \subseteq SweptClaims
    BY DEF SweptClaims, LapsedClaims, DueCarcasses, Claimants
  <2>2. ClaimBooks(actors, carcasses)
    BY DEF Sound
  <2> QED BY <2>1, <2>2, Settle DEF ExpiredActors, ExpiredCarcasses
<1>2. now \in Nat
  BY InputAssumption DEF Sound
<1>3. \A f \in Fields : fields[f] \in Field /\ fields[f].remaining <= FieldSpec[f].capacity
  BY DEF Sound, StoreBooks
<1>4. /\ ExpiredFields \in [Fields -> Field]
      /\ \A f \in Fields : ExpiredFields[f].remaining <= FieldSpec[f].capacity
  BY <1>2, <1>3, RegrowType DEF ExpiredFields
<1>5. ExpiredTally \in Counters
  <2> DEFINE g == [f \in Fields |-> Growth(f, fields[f], now)]
             grown == Total(g)
             gone == MeatOf(carcasses, DueCarcasses)
  <2>1. g \in [Fields -> Nat] /\ IsFiniteSet(Fields)
    <3>1. \A f \in Fields : Growth(f, fields[f], now) \in Nat
      BY <1>2, <1>3, GrowthType
    <3> QED BY <3>1, Domains
  <2>2. gone \in Nat
    <3>1. carcasses \in [Sources -> Carcass]
      BY DEF Sound, ClaimBooks
    <3> QED BY <3>1, MeatType
  <2> HIDE DEF g, gone
  <2>3. grown \in Nat
    BY <2>1, TotalType
  <2> HIDE DEF grown
  <2>4. tally \in Counters
    BY DEF Sound, StoreBooks
  <2>5. [tally EXCEPT !.potentialCreated = @ + grown, !.potentialLost = @ + gone] \in Counters
    <3>1. tally.potentialCreated + grown \in Nat /\ tally.potentialLost + gone \in Nat
      BY <2>2, <2>3, <2>4 DEF Counters
    <3> QED BY <2>4, <3>1 DEF Counters
  <2> QED BY <2>5 DEF ExpiredTally, grown, g, gone
<1> QED BY <1>1, <1>4, <1>5 DEF Sound, StoreBooks

---------------------------------------------------------------------------
(* Bookkeeping common to the actions *)

\* Adding quantities to counters leaves counters.
LEMMA Booked ==
  ASSUME NEW tl \in Counters, NEW m \in Nat, NEW n \in Nat
  PROVE  /\ [tl EXCEPT !.potentialCreated = @ + m, !.potentialLost = @ + n] \in Counters
         /\ [tl EXCEPT !.potentialLost = @ + m] \in Counters
         /\ [tl EXCEPT !.harvested = @ + m] \in Counters
         /\ [tl EXCEPT !.harvested = @ + m, !.consumed = @ + n, !.predatorConsumed = @ + n] \in Counters
         /\ [tl EXCEPT !.consumed = @ + m, !.depotConsumed = @ + m] \in Counters
         /\ [tl EXCEPT !.stolen = @ + m] \in Counters
         /\ [tl EXCEPT !.loaded = @ + m] \in Counters
         /\ [tl EXCEPT !.delivered = @ + m] \in Counters
         /\ [tl EXCEPT !.lost = @ + m] \in Counters
<1>1. /\ tl.potentialCreated + m \in Nat /\ tl.potentialLost + m \in Nat
      /\ tl.potentialLost + n \in Nat
      /\ tl.harvested + m \in Nat /\ tl.consumed + m \in Nat /\ tl.consumed + n \in Nat
      /\ tl.predatorConsumed + n \in Nat /\ tl.depotConsumed + m \in Nat
      /\ tl.stolen + m \in Nat /\ tl.loaded + m \in Nat
      /\ tl.delivered + m \in Nat /\ tl.lost + m \in Nat
  BY DEF Counters
<1>2. /\ [tl EXCEPT !.potentialCreated = @ + m, !.potentialLost = @ + n] \in Counters
      /\ [tl EXCEPT !.potentialLost = @ + m] \in Counters
      /\ [tl EXCEPT !.harvested = @ + m] \in Counters
  BY <1>1 DEF Counters
<1>3. /\ [tl EXCEPT !.harvested = @ + m, !.consumed = @ + n, !.predatorConsumed = @ + n] \in Counters
      /\ [tl EXCEPT !.consumed = @ + m, !.depotConsumed = @ + m] \in Counters
      /\ [tl EXCEPT !.stolen = @ + m] \in Counters
  BY <1>1 DEF Counters
<1>4. /\ [tl EXCEPT !.loaded = @ + m] \in Counters
      /\ [tl EXCEPT !.delivered = @ + m] \in Counters
      /\ [tl EXCEPT !.lost = @ + m] \in Counters
  BY <1>1 DEF Counters
<1> QED BY <1>2, <1>3, <1>4

\* The history keeps its type.
LEMMA RecordType ==
  ASSUME moved \in [Actors -> [Serials -> Move]],
         NEW a \in Actors, NEW n \in Serials, NEW portions \in Nat, Record(a, n, portions)
  PROVE  moved' \in [Actors -> [Serials -> Move]]
<1> DEFINE new == [times |-> moved[a][n].times + 1, portions |-> moved[a][n].portions + portions]
<1>1. moved[a] \in [Serials -> Move] /\ moved[a][n] \in Move
  OBVIOUS
<1>2. new \in Move
  BY <1>1 DEF Move
<1>3. moved' = [moved EXCEPT ![a] = [moved[a] EXCEPT ![n] = new]]
  BY DEF Record
<1> HIDE DEF new
<1>4. [moved[a] EXCEPT ![n] = new] \in [Serials -> Move]
  BY <1>1, <1>2
<1> QED BY <1>3, <1>4

\* Saving an event keeps the claim and the cargo of the actor.
LEMMA SaveType ==
  ASSUME NEW actor \in Actor, NEW serial \in Nat, NEW kind \in EventKinds, NEW place \in Nat,
         NEW requested \in Nat, NEW portions \in Nat
  PROVE  /\ SaveEvent(actor, serial, kind, place, requested, portions) \in Actor
         /\ SaveEvent(actor, serial, kind, place, requested, portions).pending = actor.pending
         /\ SaveEvent(actor, serial, kind, place, requested, portions).cargo = actor.cargo
<1> DEFINE event == [serial |-> serial, kind |-> kind, place |-> place,
                     requested |-> requested, portions |-> portions]
<1>1. event \in Event
  BY DEF Event
<1>2. SaveEvent(actor, serial, kind, place, requested, portions)
        = [actor EXCEPT !.lastSerial = serial, !.lastEvent = event]
  BY DEF SaveEvent
<1> HIDE DEF event
<1> QED BY <1>1, <1>2 DEF Actor

\* A completed action of one actor keeps the claim books.
LEMMA Completes ==
  ASSUME NEW as, NEW cs, ClaimBooks(as, cs), NEW a \in Actors, NEW new \in Actor,
         new.pending = as[a].pending, new.cargo <= Roster[a].capacity,
         Hunts(a) => new.cargo <= as[a].cargo
  PROVE  ClaimBooks([as EXCEPT ![a] = new], cs)
<1> DEFINE as2 == [as EXCEPT ![a] = new]
<1>1. as \in [Actors -> Actor]
  BY DEF ClaimBooks
<1>2. as2 \in [Actors -> Actor] /\ as2[a] = new /\ \A b \in Actors : b # a => as2[b] = as[b]
  BY <1>1
<1> HIDE DEF as2
<1>3. ASSUME NEW b \in Actors
      PROVE  /\ as2[b].pending = as[b].pending
             /\ as2[b].cargo <= Roster[b].capacity
             /\ Hunts(b) /\ as[b].pending # NoClaim => as2[b].cargo <= as[b].cargo
  <2>1. CASE b = a
    BY <1>2, <2>1
  <2>2. CASE b # a
    <3>1. as2[b] = as[b] /\ as[b].cargo <= Roster[b].capacity /\ as[b].cargo \in Nat
      BY <1>1, <1>2, <2>2 DEF ClaimBooks, Actor
    <3>2. \A n \in Nat : n <= n
      OBVIOUS
    <3> QED BY <3>1, <3>2, Zenon
  <2> QED BY <2>1, <2>2
<1>4. ClaimBooks(as2, cs)
  BY <1>2, <1>3, Carry
<1> QED BY <1>4 DEF as2

---------------------------------------------------------------------------
(* Each action keeps Sound *)

LEMMA InitSound ==
  ASSUME Init
  PROVE  Sound
<1>1. ClaimBooks(actors, carcasses)
  <2>1. actors \in [Actors -> Actor]
    <3>1. NoClaim \in Claim /\ NoCommit \in Commitment /\ NoEvent \in Event
      BY DEF NoClaim, Claim, NoCommit, Commitment, NoEvent, Event
    <3> QED BY <3>1 DEF Init, Actor
  <2>2. carcasses \in [Sources -> Carcass]
    BY DEF Init, Carcass
  <2>3. \A a \in Actors : actors[a].pending = NoClaim /\ actors[a].cargo = 0
    BY DEF Init
  <2>4. \A a \in Actors : actors[a].cargo <= Roster[a].capacity
    BY <2>3, RosterFacts
  <2>5. ASSUME NEW s \in Sources PROVE Total(HeldBy(actors, carcasses, Actors, s)) = 0
    <3>1. HeldBy(actors, carcasses, Actors, s) \in [Actors -> Nat] /\ IsFiniteSet(Actors)
      BY <2>1, HeldType, Domains
    <3>2. \A a \in Actors : ~On(actors[a].pending, s, carcasses[s].life)
      BY <2>3, Domains DEF On, NoClaim
    <3>3. \A a \in Actors : HeldBy(actors, carcasses, Actors, s)[a] = 0
      BY <3>2, HeldAt, Zenon
    <3> QED BY <3>1, <3>3, TotalZero, Zenon
  <2>6. Exact(actors, carcasses)
    <3>1. \A s \in Sources : /\ carcasses[s].reserved = 0 /\ carcasses[s].remaining = 0
      BY DEF Init
    <3> QED BY <2>5, <3>1 DEF Exact
  <2> QED BY <2>1, <2>2, <2>3, <2>4, <2>6 DEF ClaimBooks, GoodClaim
<1>2. StoreBooks(depots, fields, nextClaim, tally, moved)
  <2>1. depots \in [Depots -> Depot] /\ \A d \in Depots : depots[d].stock <= DepotSpec[d].capacity
    BY DepotFacts DEF Init, Depot
  <2>2. fields \in [Fields -> Field] /\ \A f \in Fields : fields[f].remaining <= FieldSpec[f].capacity
    BY FieldFacts, InputAssumption DEF Init, Field
  <2>3. tally \in Counters
    <3> DEFINE g == [f \in Fields |-> FieldSpec[f].initial]
    <3>1. g \in [Fields -> Nat] /\ IsFiniteSet(Fields)
      BY FieldFacts, Domains
    <3> HIDE DEF g
    <3>2. Total(g) \in Nat
      BY <3>1, TotalType
    <3>3. InitialCrops \in Nat
      BY <3>2 DEF g, InitialCrops
    <3> QED BY <3>3 DEF Init, Counters
  <2>4. moved \in [Actors -> [Serials -> Move]]
    BY DEF Init, NoMove, Move
  <2>5. nextClaim \in Nat
    BY DEF Init
  <2> QED BY <2>1, <2>2, <2>3, <2>4, <2>5 DEF StoreBooks
<1> QED BY <1>1, <1>2, InputAssumption DEF Init, Sound

\* A change of the clock, in either direction, touches no books.
LEMMA ClockSound ==
  ASSUME Sound, NEW t \in Times, Clock(t)
  PROVE  Sound'
BY DEF Clock, Sound

\* A call of Expire by itself.
LEMMA ExpireStepSound ==
  ASSUME Sound, Expire
  PROVE  Sound'
<1>1. now' \in Times
  BY DEF Sound, Expire
<1> QED BY <1>1, ExpireSound DEF Expire, Sound

\* A new carcass starts without reservations, and the claims on the one it
\* replaces are released.
LEMMA RegisterCarcassSound ==
  ASSUME Sound, NEW s \in Sources, NEW life \in Lives, NEW t \in Times,
         NEW portions \in Nat, RegisterCarcass(s, life, t, portions)
  PROVE  Sound'
<1> DEFINE C == {r \in {s} : carcasses[r].active}
           A == Claimants(actors, carcasses, C)
           as1 == Unclaimed(actors, A)
           cs1 == Entombed(Release(actors, carcasses, A), C)
           new == [life |-> life, remaining |-> portions, reserved |-> 0,
                   expires |-> t, active |-> TRUE]
<1>1. ClaimBooks(actors, carcasses) /\ carcasses \in [Sources -> Carcass]
      /\ actors \in [Actors -> Actor]
  BY DEF Sound, ClaimBooks
<1>2. A \in SUBSET Actors /\ C \in SUBSET Sources
  BY DEF Claimants
<1>3. ClaimBooks(as1, cs1)
  BY <1>1, <1>2, Settle
<1>4. ASSUME NEW a \in Actors PROVE as1[a].pending.source # s
  <2>1. CASE a \in A
    <3>1. as1[a].pending = NoClaim
      BY <1>1, <2>1 DEF Unclaimed, Actor
    <3> QED BY <3>1, Domains DEF NoClaim
  <2>2. CASE a \notin A
    <3>1. as1[a] = actors[a]
      BY <2>2 DEF Unclaimed
    <3>2. SUFFICES ASSUME actors[a].pending.source = s PROVE FALSE
      BY <3>1
    <3>3. actors[a].pending # NoClaim
      BY <3>2, Domains DEF NoClaim
    <3>4. carcasses[s].active /\ carcasses[s].life = actors[a].pending.life
      BY <1>1, <3>2, <3>3 DEF ClaimBooks, GoodClaim
    <3>5. s \in C /\ On(actors[a].pending, s, carcasses[s].life)
      BY <3>2, <3>4 DEF On
    <3> QED BY <2>2, <3>5 DEF Claimants
  <2> QED BY <2>1, <2>2
<1>5. new \in Carcass /\ new.reserved = 0 /\ new.active
  BY InputAssumption DEF Carcass
<1> HIDE DEF as1, cs1, new
<1>6. ClaimBooks(as1, [cs1 EXCEPT ![s] = new])
  BY <1>3, <1>4, <1>5, FreshCarcass
<1>7. [carcasses EXCEPT ![s] = new] \in [Sources -> Carcass]
  BY <1>1, <1>5
<1>8. ClaimBooks(as1, [carcasses EXCEPT ![s] = new])
  <2> DEFINE cs2 == [cs1 EXCEPT ![s] = new]
             cs3 == [carcasses EXCEPT ![s] = new]
  <2>1. ASSUME NEW r \in Sources
        PROVE  /\ cs3[r].life = cs2[r].life /\ cs3[r].expires = cs2[r].expires
               /\ cs3[r].active = cs2[r].active
               /\ cs3[r].reserved = cs2[r].reserved
               /\ cs3[r].remaining = cs2[r].remaining
    <3>1. cs1 \in [Sources -> Carcass]
      BY <1>3 DEF ClaimBooks
    <3>2. CASE r = s
      BY <1>1, <3>1, <3>2
    <3>3. CASE r # s
      <4>1. cs3[r] = carcasses[r] /\ cs2[r] = cs1[r] /\ r \notin C
        BY <1>1, <3>1, <3>3
      <4>2. \A a \in Actors : HeldBy(actors, carcasses, A, r)[a] = 0
        <5>1. ASSUME NEW a \in Actors, a \in A PROVE ~On(actors[a].pending, r, carcasses[r].life)
          BY <3>3, <5>1 DEF Claimants, On
        <5> QED BY <5>1 DEF HeldBy
      <4>3. Total(HeldBy(actors, carcasses, A, r)) = 0
        <5>1. HeldBy(actors, carcasses, A, r) \in [Actors -> Nat] /\ IsFiniteSet(Actors)
          BY <1>1, HeldType, Domains
        <5> QED BY <4>2, <5>1, TotalZero, Zenon
      <4>4. /\ cs1[r].life = carcasses[r].life /\ cs1[r].expires = carcasses[r].expires
            /\ cs1[r].active = carcasses[r].active
            /\ cs1[r].remaining = carcasses[r].remaining
            /\ cs1[r].reserved = carcasses[r].reserved - Total(HeldBy(actors, carcasses, A, r))
        BY <1>1, <4>1 DEF cs1, Entombed, Release, Carcass
      <4>5. cs1[r].reserved = carcasses[r].reserved
        <5>1. carcasses[r].reserved \in Nat /\ \A n \in Nat : n - 0 = n
          BY <1>1 DEF Carcass
        <5> QED BY <4>3, <4>4, <5>1, Zenon
      <4> QED BY <4>1, <4>4, <4>5, Zenon
    <3> QED BY <3>2, <3>3
  <2>2. ClaimBooks(as1, cs2)
    BY <1>6
  <2>3. cs3 \in [Sources -> Carcass]
    BY <1>7
  <2> HIDE DEF cs2, cs3
  <2>4. \A r \in Sources : /\ cs3[r].reserved <= cs3[r].remaining
                           /\ ~cs3[r].active => cs3[r].remaining = 0
    BY <2>1, <2>2 DEF ClaimBooks, Exact
  <2>5. ClaimBooks(as1, cs3)
    BY <2>1, <2>2, <2>3, <2>4, Butcher
  <2> QED BY <2>5 DEF cs3
<1>9. actors' = as1 /\ carcasses' = [carcasses EXCEPT ![s] = new]
  BY DEF RegisterCarcass, as1, new
<1>10. tally' \in Counters
  <2> DEFINE gone == MeatOf(carcasses, C)
  <2>1. gone \in Nat /\ tally \in Counters
    BY <1>1, MeatType DEF Sound, StoreBooks
  <2>2. tally' = [tally EXCEPT !.potentialCreated = @ + portions, !.potentialLost = @ + gone]
    BY DEF RegisterCarcass
  <2> HIDE DEF gone
  <2> QED BY <2>1, <2>2, Booked
<1> QED BY <1>8, <1>9, <1>10 DEF Sound, StoreBooks, RegisterCarcass

\* Closing a carcass releases the claims on it.
LEMMA CloseCarcassSound ==
  ASSUME Sound, NEW s \in Sources, NEW life \in Lives, CloseCarcass(s, life)
  PROVE  Sound'
<1> DEFINE A == Claimants(actors, carcasses, {s})
           gone == MeatOf(carcasses, {s})
<1>1. ClaimBooks(actors, carcasses) /\ carcasses \in [Sources -> Carcass]
  BY DEF Sound, ClaimBooks
<1>2. A \in SUBSET Actors /\ {s} \in SUBSET Sources
  BY DEF Claimants
<1>3. ClaimBooks(Unclaimed(actors, A), Entombed(Release(actors, carcasses, A), {s}))
  BY <1>1, <1>2, Settle
<1>4. ClaimBooks(actors', carcasses')
  BY <1>3 DEF CloseCarcass
<1>5. gone \in Nat /\ tally \in Counters
  BY <1>1, MeatType DEF Sound, StoreBooks
<1>6. tally' = [tally EXCEPT !.potentialLost = @ + gone]
  BY DEF CloseCarcass
<1> HIDE DEF gone
<1>7. tally' \in Counters
  BY <1>5, <1>6, Booked
<1> QED BY <1>4, <1>7 DEF Sound, StoreBooks, CloseCarcass

\* A cancelled claim gives its reservation back.
LEMMA CancelSound ==
  ASSUME Sound, NEW a \in Actors, NEW serial \in Nat, Cancel(a, serial)
  PROVE  Sound'
<1>1. ClaimBooks(Unclaimed(actors, {a}), Release(actors, carcasses, {a}))
  BY SettleOnly DEF Sound
<1>2. ClaimBooks(actors', carcasses')
  BY <1>1 DEF Cancel
<1> QED BY <1>2 DEF Sound, Cancel

\* What a claim asks for is free on the carcass and fits in the cargo.
LEMMA ClaimableFits ==
  ASSUME NEW as, NEW cs, ClaimBooks(as, cs), NEW a \in Actors, NEW s \in Sources,
         NEW requested \in Nat, Roster[a].kind \in {"hunter", "predator"}
  PROVE  LET amount == Claimable(as, cs, a, s, requested)
         IN /\ amount \in Nat
            /\ cs[s].reserved + amount <= cs[s].remaining
            /\ Hunts(a) => as[a].cargo + amount <= Roster[a].capacity
<1> DEFINE left == cs[s].remaining - cs[s].reserved
           room == Roster[a].capacity - as[a].cargo
           free == Smaller(requested, left)
<1>1. /\ cs[s].remaining \in Nat /\ cs[s].reserved \in Nat /\ as[a].cargo \in Nat
      /\ Roster[a].capacity \in Nat
      /\ cs[s].reserved <= cs[s].remaining /\ as[a].cargo <= Roster[a].capacity
  BY RosterFacts DEF ClaimBooks, Exact, Carcass, Actor
<1>2. left \in Nat /\ room \in Nat
  BY <1>1, Portions, Zenon
<1>3. /\ Claimable(as, cs, a, s, requested) = IF IsPredator(a) THEN free ELSE Smaller(free, room)
      /\ Hunts(a) => ~IsPredator(a)
  BY DEF Claimable, CargoRoom, Hunts, IsPredator
<1>4. \A k \in Nat : /\ k <= left => cs[s].reserved + k <= cs[s].remaining
                     /\ k <= room => as[a].cargo + k <= Roster[a].capacity
  BY <1>1, RoomLeft, Zenon
<1> HIDE DEF left, room
<1>5. free \in Nat /\ free <= left
  BY <1>2 DEF Smaller
<1> HIDE DEF free
<1>6. Smaller(free, room) \in Nat /\ Smaller(free, room) <= left /\ Smaller(free, room) <= room
  BY <1>2, <1>5 DEF Smaller
<1>7. CASE IsPredator(a)
  BY <1>3, <1>4, <1>5, <1>7, Zenon
<1>8. CASE ~IsPredator(a)
  BY <1>3, <1>4, <1>6, <1>8, Zenon
<1> QED BY <1>7, <1>8

\* A new claim is within the free portions of the carcass and, for a hunter,
\* within the free cargo space.
LEMMA ReserveSound ==
  ASSUME Sound, NEW a \in Actors, NEW s \in Sources, NEW life \in Lives,
         NEW requested \in Requests, Reserve(a, s, life, requested)
  PROVE  Sound'
<1> DEFINE as == ExpiredActors
           cs == ExpiredCarcasses
           amount == Claimable(as, cs, a, s, requested)
           until == Smaller(now + ClaimTtlMs, cs[s].expires)
           claim == [serial |-> nextClaim + 1, source |-> s, life |-> life,
                     requested |-> requested, amount |-> amount, expires |-> until]
<1>1. /\ ClaimBooks(as, cs)
      /\ StoreBooks(depots, ExpiredFields, nextClaim, ExpiredTally, moved)
  BY ExpireSound
<1>2. /\ as[a].pending = NoClaim /\ cs[s].active /\ cs[s].life = life /\ amount # 0
      /\ Roster[a].kind \in {"hunter", "predator"}
      /\ actors' = [as EXCEPT ![a].pending = claim]
      /\ carcasses' = [cs EXCEPT ![s].reserved = @ + amount]
  BY DEF Reserve
<1>3. requested \in Nat /\ life \in Nat /\ now \in Nat /\ ClaimTtlMs \in Nat /\ nextClaim \in Nat
  BY InputAssumption, PortionAssumption DEF Sound, StoreBooks
<1>4. cs[s].expires \in Nat
  BY <1>1 DEF ClaimBooks, Carcass
<1>5. until \in Nat /\ until <= cs[s].expires
  BY <1>3, <1>4 DEF Smaller
<1>6. /\ amount \in Nat /\ cs[s].reserved + amount <= cs[s].remaining
      /\ Hunts(a) => as[a].cargo + amount <= Roster[a].capacity
  BY <1>1, <1>2, <1>3, ClaimableFits
<1> HIDE DEF amount, until, as, cs
<1>7. /\ claim \in Claim /\ claim.source = s /\ claim.life = cs[s].life
      /\ claim.expires = until /\ claim.amount = amount
  BY <1>2, <1>3, <1>5, <1>6 DEF Claim
<1> HIDE DEF claim
<1>8. ClaimBooks([as EXCEPT ![a].pending = claim], [cs EXCEPT ![s].reserved = @ + claim.amount])
  BY <1>1, <1>2, <1>5, <1>6, <1>7, NewClaim
<1>9. ClaimBooks(actors', carcasses')
  BY <1>2, <1>7, <1>8
<1> QED BY <1>1, <1>9 DEF Sound, StoreBooks, Reserve

\* A commit takes from the carcass and from its reservation what was claimed.
LEMMA CommitSound ==
  ASSUME Sound, NEW a \in Actors, NEW serial \in Nat, Commit(a, serial)
  PROVE  Sound'
<1> DEFINE as == ExpiredActors
           cs == ExpiredCarcasses
           claim == as[a].pending
           eaten == IF IsPredator(a) THEN claim.amount ELSE 0
           carried == claim.amount - eaten
<1>1. /\ ClaimBooks(as, cs)
      /\ StoreBooks(depots, ExpiredFields, nextClaim, ExpiredTally, moved)
  BY ExpireSound
<1>2. as \in [Actors -> Actor] /\ cs \in [Sources -> Carcass]
  BY <1>1 DEF ClaimBooks
<1>3. claim # NoClaim /\ claim.amount \in Nat /\ as[a].cargo \in Nat
  BY <1>2 DEF Commit, NoClaim, Actor, Claim
<1>4. CASE ~Honourable(as, cs, a)
  <2>1. ClaimBooks(Unclaimed(as, {a}), Release(as, cs, {a}))
    BY <1>1, SettleOnly
  <2>2. actors' = Unclaimed(as, {a}) /\ carcasses' = Release(as, cs, {a}) /\ tally' = ExpiredTally
    BY <1>4 DEF Commit
  <2> QED BY <1>1, <2>1, <2>2 DEF Sound, StoreBooks, Commit
<1>5. CASE Honourable(as, cs, a)
  <2>1. /\ carcasses' = [cs EXCEPT ![claim.source].remaining = @ - claim.amount,
                                   ![claim.source].reserved = @ - claim.amount]
        /\ actors' = [as EXCEPT ![a].pending = NoClaim,
                                ![a].cargo = @ + (claim.amount - eaten),
                                ![a].committed = [serial |-> serial, portions |-> claim.amount]]
        /\ tally' = [ExpiredTally EXCEPT !.harvested = @ + claim.amount,
                                         !.consumed = @ + eaten, !.predatorConsumed = @ + eaten]
    BY <1>5 DEF Commit
  <2>2. eaten \in Nat /\ carried \in Nat /\ (IsPredator(a) => carried = 0)
        /\ (~IsPredator(a) => carried = claim.amount)
    BY <1>3
  <2>3. claim.source \in Sources /\ cs[claim.source].reserved \in Nat
        /\ cs[claim.source].remaining \in Nat
        /\ claim.amount <= cs[claim.source].reserved
        /\ claim.amount <= cs[claim.source].remaining
    BY <1>1, <1>2, <1>3, <1>5 DEF ClaimBooks, GoodClaim, Carcass, Honourable
  <2>4. as[a].cargo + carried <= Roster[a].capacity
    <3>1. Roster[a].capacity \in Nat /\ as[a].cargo <= Roster[a].capacity
      BY <1>1, RosterFacts DEF ClaimBooks
    <3>2. CASE IsPredator(a)
      BY <1>3, <2>2, <3>1, <3>2
    <3>3. CASE ~IsPredator(a)
      <4>1. Hunts(a)
        BY <1>1, <1>3, <3>3 DEF ClaimBooks, GoodClaim, Hunts, IsPredator
      <4>2. as[a].cargo + claim.amount <= Roster[a].capacity
        BY <1>1, <1>3, <4>1 DEF ClaimBooks, GoodClaim
      <4> QED BY <2>2, <3>3, <4>2
    <3> QED BY <3>2, <3>3
  <2> DEFINE receipt == [serial |-> serial, portions |-> claim.amount]
             s == claim.source
  <2>5. receipt \in Commitment /\ NoClaim \in Claim
    BY <1>3 DEF Commitment, NoClaim, Claim
  <2> HIDE DEF as, cs, receipt, carried, eaten
  <2>6. /\ actors' = [as EXCEPT ![a].pending = NoClaim, ![a].cargo = @ + carried,
                                ![a].committed = receipt]
        /\ carcasses' = [cs EXCEPT ![s].remaining = @ - claim.amount,
                                   ![s].reserved = @ - claim.amount]
    BY <2>1 DEF carried, receipt
  <2>7. /\ actors' \in [Actors -> Actor]
        /\ \A b \in Actors : b # a => actors'[b] = as[b]
        /\ actors'[a].pending = NoClaim /\ actors'[a].cargo = as[a].cargo + carried
    <3>1. as[a].cargo + carried \in Nat
      BY <1>3, <2>2, Portions, Zenon
    <3>2. [as[a] EXCEPT !.pending = NoClaim, !.cargo = @ + carried, !.committed = receipt] \in Actor
      BY <1>2, <2>5, <3>1 DEF Actor
    <3> QED BY <1>2, <2>6, <3>2 DEF Actor
  <2>8. /\ carcasses' \in [Sources -> Carcass]
        /\ \A r \in Sources : r # s => carcasses'[r] = cs[r]
        /\ carcasses'[s].life = cs[s].life /\ carcasses'[s].expires = cs[s].expires
        /\ carcasses'[s].active = cs[s].active
        /\ carcasses'[s].reserved = cs[s].reserved - claim.amount
        /\ carcasses'[s].remaining = cs[s].remaining - claim.amount
    <3>1. cs[s].reserved - claim.amount \in Nat /\ cs[s].remaining - claim.amount \in Nat
      BY <1>3, <2>3, Portions, Zenon
    <3>2. [cs[s] EXCEPT !.remaining = @ - claim.amount, !.reserved = @ - claim.amount] \in Carcass
      BY <1>2, <2>3, <3>1 DEF Carcass
    <3> QED BY <1>2, <2>3, <2>6, <3>2 DEF Carcass
  <2>9. Spent(as, cs, a, carried, actors', carcasses')
    BY <2>7, <2>8 DEF Spent
  <2>10. ClaimBooks(actors', carcasses')
    BY <1>1, <1>3, <2>2, <2>4, <2>9, Spend
  <2>11. tally' \in Counters
    <3>1. ExpiredTally \in Counters
      BY <1>1 DEF StoreBooks
    <3> QED BY <1>3, <2>1, <2>2, <3>1, Booked
  <2> QED BY <1>1, <2>10, <2>11 DEF Sound, StoreBooks, Commit
<1> QED BY <1>4, <1>5

\* A depot changes in one place and keeps within its capacity.
LEMMA DepotChange ==
  ASSUME NEW ds \in [Depots -> Depot], NEW d \in Depots, NEW new \in Depot,
         \A e \in Depots : ds[e].stock <= DepotSpec[e].capacity,
         new.stock <= DepotSpec[d].capacity
  PROVE  /\ [ds EXCEPT ![d] = new] \in [Depots -> Depot]
         /\ \A e \in Depots : [ds EXCEPT ![d] = new][e].stock <= DepotSpec[e].capacity
OBVIOUS

\* A death gives up the cargo and the claim.
LEMMA DropCargoSound ==
  ASSUME Sound, NEW a \in Actors, DropCargo(a)
  PROVE  Sound'
<1> DEFINE as1 == Unclaimed(actors, {a})
           new == [actors[a] EXCEPT !.pending = NoClaim, !.cargo = 0,
                                    !.committed = NoCommit, !.lastEvent = NoEvent]
<1>1. ClaimBooks(actors, carcasses) /\ actors \in [Actors -> Actor]
  BY DEF Sound, ClaimBooks
<1>2. ClaimBooks(as1, carcasses')
  BY <1>1, SettleOnly DEF DropCargo
<1>3. NoClaim \in Claim /\ NoCommit \in Commitment /\ NoEvent \in Event
  BY DEF NoClaim, Claim, NoCommit, Commitment, NoEvent, Event
<1>4. as1[a].pending = NoClaim /\ as1[a].cargo \in Nat
      /\ actors' = [as1 EXCEPT ![a] = new]
  BY <1>1, <1>3 DEF DropCargo, Unclaimed, Actor
<1>5. new \in Actor /\ new.pending = NoClaim /\ new.cargo = 0
  BY <1>1, <1>3 DEF Actor
<1> HIDE DEF as1, new
<1>6. new.cargo <= Roster[a].capacity /\ new.cargo <= as1[a].cargo
  BY <1>4, <1>5, RosterFacts
<1>7. ClaimBooks(actors', carcasses')
  BY <1>2, <1>4, <1>5, <1>6, Completes
<1>8. tally' \in Counters
  <2>1. actors[a].cargo \in Nat /\ tally \in Counters
    BY <1>1 DEF Actor, Sound, StoreBooks
  <2>2. tally' = [tally EXCEPT !.lost = @ + actors[a].cargo]
    BY DEF DropCargo
  <2> QED BY <2>1, <2>2, Booked
<1> QED BY <1>7, <1>8 DEF Sound, StoreBooks, DropCargo

\* Taking on cargo that fits, for an actor that is no hunter.
LEMMA TakesOn ==
  ASSUME NEW as, NEW cs, ClaimBooks(as, cs), NEW a \in Actors, ~Hunts(a),
         NEW amount \in Nat, amount <= CargoRoom(a, as[a]),
         NEW serial \in Nat, NEW kind \in EventKinds, NEW place \in Nat, NEW requested \in Nat
  PROVE  ClaimBooks([as EXCEPT ![a] = SaveEvent([as[a] EXCEPT !.cargo = @ + amount],
                                                serial, kind, place, requested, amount)], cs)
<1> DEFINE loaded == [as[a] EXCEPT !.cargo = @ + amount]
           new == SaveEvent(loaded, serial, kind, place, requested, amount)
<1>1. as[a] \in Actor /\ as[a].cargo \in Nat /\ Roster[a].capacity \in Nat
  BY RosterFacts DEF ClaimBooks, Actor
<1>2. as[a].cargo + amount \in Nat /\ as[a].cargo + amount <= Roster[a].capacity
  <2>1. amount <= Roster[a].capacity - as[a].cargo
    BY DEF CargoRoom
  <2> QED BY <1>1, <2>1, Portions, RoomLeft, Zenon
<1>3. loaded \in Actor /\ loaded.pending = as[a].pending /\ loaded.cargo = as[a].cargo + amount
  BY <1>1, <1>2 DEF Actor
<1> HIDE DEF loaded
<1>4. new \in Actor /\ new.pending = loaded.pending /\ new.cargo = loaded.cargo
  <2>1. SaveEvent(loaded, serial, kind, place, requested, amount) \in Actor
    BY <1>3, SaveType
  <2>2. SaveEvent(loaded, serial, kind, place, requested, amount).pending = loaded.pending
    BY <1>3 DEF SaveEvent, Actor
  <2>3. SaveEvent(loaded, serial, kind, place, requested, amount).cargo = loaded.cargo
    BY <1>3 DEF SaveEvent, Actor
  <2> QED BY <2>1, <2>2, <2>3
<1> HIDE DEF new
<1>5. ClaimBooks([as EXCEPT ![a] = new], cs)
  BY <1>2, <1>3, <1>4, Completes
<1> QED BY <1>5 DEF new, loaded

\* The smaller of two or three quantities is a quantity and bounded by each.
LEMMA SmallerFacts ==
  ASSUME NEW k \in Nat, NEW m \in Nat, NEW n \in Nat
  PROVE  /\ Smaller(k, m) \in Nat /\ Smaller(k, m) <= k /\ Smaller(k, m) <= m
         /\ Smaller(k, Smaller(m, n)) \in Nat
         /\ Smaller(k, Smaller(m, n)) <= m /\ Smaller(k, Smaller(m, n)) <= n
BY DEF Smaller

\* The room left is a quantity.
LEMMA RoomType ==
  ASSUME NEW as, NEW cs, ClaimBooks(as, cs), NEW a \in Actors
  PROVE  CargoRoom(a, as[a]) \in Nat
<1>1. as[a].cargo \in Nat /\ as[a].cargo <= Roster[a].capacity /\ Roster[a].capacity \in Nat
  BY RosterFacts DEF ClaimBooks, Actor
<1> QED BY <1>1, Portions, Zenon DEF CargoRoom

\* A theft takes no more than is stored and no more than fits.
LEMMA StealSound ==
  ASSUME Sound, NEW a \in Actors, NEW serial \in Serials, NEW d \in Depots,
         NEW requested \in Requests, Steal(a, serial, d, requested)
  PROVE  Sound'
<1> DEFINE amount == Smaller(requested, CargoRoom(a, actors[a]))
           new == [depots[d] EXCEPT !.stock = @ - amount, !.stolen = @ + amount]
<1>1. /\ ClaimBooks(actors, carcasses)
      /\ StoreBooks(depots, fields, nextClaim, tally, moved)
      /\ serial \in Nat /\ requested \in Nat /\ d \in Nat
  BY InputAssumption, ConfigurationAssumption DEF Sound
<1>2. amount \in Nat /\ amount <= CargoRoom(a, actors[a])
  BY <1>1, RoomType, SmallerFacts
<1>3. amount <= depots[d].stock /\ ~Hunts(a)
  BY <1>1, <1>2 DEF Steal, Affords, Hunts, StoreBooks, Depot
<1>4. /\ actors' = [actors EXCEPT ![a] = SaveEvent([actors[a] EXCEPT !.cargo = @ + amount],
                                            serial, "Theft", d, requested, amount)]
      /\ depots' = [depots EXCEPT ![d] = new]
      /\ tally' = [tally EXCEPT !.stolen = @ + amount]
      /\ Record(a, serial, amount)
  <2>1. depots' = [depots EXCEPT ![d].stock = @ - amount, ![d].stolen = @ + amount]
    BY DEF Steal
  <2>2. depots' = [depots EXCEPT ![d] = new]
    BY <1>1, <2>1 DEF StoreBooks, Depot
  <2>3. actors' = [actors EXCEPT ![a] = SaveEvent([actors[a] EXCEPT !.cargo = @ + amount],
                                           serial, "Theft", d, requested, amount)]
    BY DEF Steal
  <2>4. tally' = [tally EXCEPT !.stolen = @ + amount] /\ Record(a, serial, amount)
    BY DEF Steal
  <2> QED BY <2>2, <2>3, <2>4
<1> HIDE DEF amount
<1>5. ClaimBooks(actors', carcasses)
  <2>1. "Theft" \in EventKinds
    BY DEF EventKinds
  <2> QED BY <1>1, <1>2, <1>3, <1>4, <2>1, TakesOn
<1>6. new \in Depot /\ new.stock <= DepotSpec[d].capacity
  <2>1. /\ depots[d] \in Depot /\ depots[d].stock \in Nat /\ depots[d].stolen \in Nat
        /\ depots[d].stock <= DepotSpec[d].capacity /\ DepotSpec[d].capacity \in Nat
    BY <1>1, DepotFacts DEF StoreBooks, Depot
  <2>2. depots[d].stock - amount \in Nat /\ depots[d].stolen + amount \in Nat
    BY <1>2, <1>3, <2>1, Portions, Zenon
  <2>3. \A k, m, n \in Nat : m <= n => m - k <= n
    OBVIOUS
  <2>4. new \in Depot /\ new.stock = depots[d].stock - amount
    BY <2>1, <2>2 DEF Depot
  <2> QED BY <1>2, <2>1, <2>3, <2>4, Zenon
<1> HIDE DEF new
<1>7. tally' \in Counters /\ moved' \in [Actors -> [Serials -> Move]]
  BY <1>1, <1>2, <1>4, Booked, RecordType DEF StoreBooks
<1>8. /\ depots' \in [Depots -> Depot]
      /\ \A e \in Depots : depots'[e].stock <= DepotSpec[e].capacity
  BY <1>1, <1>4, <1>6, DepotChange DEF StoreBooks
<1> QED BY <1>1, <1>5, <1>7, <1>8 DEF Sound, StoreBooks, Steal

\* A loading takes no more than the surplus and no more than fits.
LEMMA LoadSound ==
  ASSUME Sound, NEW a \in Actors, NEW serial \in Serials, NEW d \in Depots,
         NEW requested \in Requests, Load(a, serial, d, requested)
  PROVE  Sound'
<1> DEFINE amount == Smaller(requested, Smaller(CargoRoom(a, actors[a]), Surplus(d)))
           new == [depots[d] EXCEPT !.stock = @ - amount, !.exported = @ + amount]
<1>1. /\ ClaimBooks(actors, carcasses)
      /\ StoreBooks(depots, fields, nextClaim, tally, moved)
      /\ serial \in Nat /\ requested \in Nat /\ d \in Nat
  BY InputAssumption, ConfigurationAssumption DEF Sound
<1>2. /\ depots[d] \in Depot /\ depots[d].stock \in Nat /\ depots[d].exported \in Nat
      /\ depots[d].stock <= DepotSpec[d].capacity
      /\ DepotSpec[d].capacity \in Nat /\ DepotSpec[d].low \in Nat
  BY <1>1, DepotFacts DEF StoreBooks, Depot
<1>3. Surplus(d) \in Nat /\ Surplus(d) <= depots[d].stock
  BY <1>2 DEF Surplus
<1>4. amount \in Nat /\ amount <= CargoRoom(a, actors[a]) /\ amount <= Surplus(d)
  BY <1>1, <1>3, RoomType, SmallerFacts
<1>5. amount <= depots[d].stock /\ ~Hunts(a)
  <2>1. \A k, m, n \in Nat : k <= m /\ m <= n => k <= n
    OBVIOUS
  <2>2. amount <= depots[d].stock
    BY <1>2, <1>3, <1>4, <2>1, Zenon
  <2> QED BY <2>2 DEF Load, Hunts
<1>6. /\ actors' = [actors EXCEPT ![a] = SaveEvent([actors[a] EXCEPT !.cargo = @ + amount],
                                            serial, "Loading", d, requested, amount)]
      /\ tally' = [tally EXCEPT !.loaded = @ + amount]
      /\ Record(a, serial, amount)
  BY DEF Load
<1>7. depots' = [depots EXCEPT ![d] = new]
  <2>1. depots' = [depots EXCEPT ![d].stock = @ - amount, ![d].exported = @ + amount]
    BY DEF Load
  <2> QED BY <1>1, <2>1 DEF StoreBooks, Depot
<1> HIDE DEF amount
<1>8. ClaimBooks(actors', carcasses)
  <2>1. "Loading" \in EventKinds
    BY DEF EventKinds
  <2> QED BY <1>1, <1>4, <1>5, <1>6, <2>1, TakesOn
<1>9. new \in Depot /\ new.stock <= DepotSpec[d].capacity
  <2>2. depots[d].stock - amount \in Nat /\ depots[d].exported + amount \in Nat
    BY <1>2, <1>4, <1>5, Portions, Zenon
  <2>3. \A k, m, n \in Nat : m <= n => m - k <= n
    OBVIOUS
  <2>4. new \in Depot /\ new.stock = depots[d].stock - amount
    BY <1>2, <2>2 DEF Depot
  <2> QED BY <1>2, <1>4, <2>3, <2>4, Zenon
<1> HIDE DEF new
<1>10. tally' \in Counters /\ moved' \in [Actors -> [Serials -> Move]]
  BY <1>1, <1>4, <1>6, Booked, RecordType DEF StoreBooks
<1>11. /\ depots' \in [Depots -> Depot]
       /\ \A e \in Depots : depots'[e].stock <= DepotSpec[e].capacity
  BY <1>1, <1>7, <1>9, DepotChange DEF StoreBooks
<1> QED BY <1>1, <1>8, <1>10, <1>11 DEF Sound, StoreBooks, Load

\* A delivery fits into the depot, and the rest stays on board.
LEMMA DeliverSound ==
  ASSUME Sound, NEW a \in Actors, NEW serial \in Serials, NEW d \in Depots,
         NEW requested \in Requests, Deliver(a, serial, d, requested)
  PROVE  Sound'
<1> DEFINE amount == Smaller(requested, Smaller(actors[a].cargo, DepotRoom(d)))
           new == [depots[d] EXCEPT !.stock = @ + amount, !.delivered = @ + amount]
           unloaded == [actors[a] EXCEPT !.cargo = @ - amount]
           saved == SaveEvent(unloaded, serial, "Delivery", d, requested, amount)
<1>1. /\ ClaimBooks(actors, carcasses)
      /\ StoreBooks(depots, fields, nextClaim, tally, moved)
      /\ serial \in Nat /\ requested \in Nat /\ d \in Nat
  BY InputAssumption, ConfigurationAssumption DEF Sound
<1>2. /\ depots[d] \in Depot /\ depots[d].stock \in Nat /\ depots[d].delivered \in Nat
      /\ depots[d].stock <= DepotSpec[d].capacity /\ DepotSpec[d].capacity \in Nat
  BY <1>1, DepotFacts DEF StoreBooks, Depot
<1>3. /\ actors[a] \in Actor /\ actors[a].cargo \in Nat
      /\ actors[a].cargo <= Roster[a].capacity /\ Roster[a].capacity \in Nat
  BY <1>1, RosterFacts DEF ClaimBooks, Actor
<1>4. DepotRoom(d) \in Nat
  BY <1>2, Portions, Zenon DEF DepotRoom
<1>5. amount \in Nat /\ amount <= actors[a].cargo /\ amount <= DepotRoom(d)
  BY <1>1, <1>3, <1>4, SmallerFacts
<1>6. /\ actors' = [actors EXCEPT ![a] = saved]
      /\ tally' = [tally EXCEPT !.delivered = @ + amount]
      /\ Record(a, serial, amount)
  BY DEF Deliver
<1>7. depots' = [depots EXCEPT ![d] = new]
  <2>1. depots' = [depots EXCEPT ![d].stock = @ + amount, ![d].delivered = @ + amount]
    BY DEF Deliver
  <2> QED BY <1>1, <2>1 DEF StoreBooks, Depot
<1> HIDE DEF amount
<1>8. /\ unloaded \in Actor /\ unloaded.pending = actors[a].pending
      /\ unloaded.cargo = actors[a].cargo - amount
  <2>1. actors[a].cargo - amount \in Nat
    BY <1>3, <1>5, Portions, Zenon
  <2> QED BY <1>3, <2>1 DEF Actor
<1>9. unloaded.cargo <= actors[a].cargo /\ unloaded.cargo <= Roster[a].capacity
  <2>1. \A k, m, n \in Nat : m <= n => m - k <= m /\ m - k <= n
    OBVIOUS
  <2>2. /\ actors[a].cargo - amount <= actors[a].cargo
        /\ actors[a].cargo - amount <= Roster[a].capacity
    BY <1>3, <1>5, <2>1, ZenonT(60)
  <2> HIDE DEF unloaded
  <2> QED BY <1>8, <2>2, Zenon
<1> HIDE DEF unloaded
<1>10. saved \in Actor /\ saved.pending = unloaded.pending /\ saved.cargo = unloaded.cargo
  <2>1. "Delivery" \in EventKinds
    BY DEF EventKinds
  <2>2. saved \in Actor
    BY <1>1, <1>5, <1>8, <2>1, SaveType
  <2>3. saved.pending = unloaded.pending
    BY <1>8 DEF SaveEvent, Actor
  <2>4. saved.cargo = unloaded.cargo
    BY <1>8 DEF SaveEvent, Actor
  <2> QED BY <2>2, <2>3, <2>4, Zenon
<1> HIDE DEF saved
<1>11. ClaimBooks([actors EXCEPT ![a] = saved], carcasses)
  BY <1>1, <1>8, <1>9, <1>10, Completes
<1>12. new \in Depot /\ new.stock <= DepotSpec[d].capacity
  <2>2. depots[d].stock + amount \in Nat /\ depots[d].delivered + amount \in Nat
    BY <1>2, <1>5, Portions, Zenon
  <2>3. depots[d].stock + amount <= DepotSpec[d].capacity
    <3>1. amount <= DepotSpec[d].capacity - depots[d].stock
      BY <1>5 DEF DepotRoom
    <3> QED BY <1>2, <1>5, <3>1, RoomLeft, Zenon
  <2>4. new \in Depot /\ new.stock = depots[d].stock + amount
    BY <1>2, <2>2 DEF Depot
  <2> QED BY <2>3, <2>4
<1> HIDE DEF new
<1>13. tally' \in Counters /\ moved' \in [Actors -> [Serials -> Move]]
  BY <1>1, <1>5, <1>6, Booked, RecordType DEF StoreBooks
<1>14. /\ depots' \in [Depots -> Depot]
       /\ \A e \in Depots : depots'[e].stock <= DepotSpec[e].capacity
  BY <1>1, <1>7, <1>12, DepotChange DEF StoreBooks
<1> QED BY <1>1, <1>6, <1>11, <1>13, <1>14 DEF Sound, StoreBooks, Deliver

\* A meal takes no more than is stored.
LEMMA EatDepotSound ==
  ASSUME Sound, NEW a \in Actors, NEW serial \in Serials, NEW d \in Depots,
         NEW portions \in Requests, EatDepot(a, serial, d, portions)
  PROVE  Sound'
<1> DEFINE new == [depots[d] EXCEPT !.stock = @ - portions, !.consumed = @ + portions]
           saved == SaveEvent(actors[a], serial, "Meal", d, portions, portions)
<1>1. /\ ClaimBooks(actors, carcasses)
      /\ StoreBooks(depots, fields, nextClaim, tally, moved)
      /\ serial \in Nat /\ portions \in Nat /\ d \in Nat
  BY InputAssumption, ConfigurationAssumption DEF Sound
<1>2. /\ depots[d] \in Depot /\ depots[d].stock \in Nat /\ depots[d].consumed \in Nat
      /\ depots[d].stock <= DepotSpec[d].capacity /\ DepotSpec[d].capacity \in Nat
  BY <1>1, DepotFacts DEF StoreBooks, Depot
<1>3. portions <= depots[d].stock
  BY <1>1, <1>2 DEF EatDepot, Affords
<1>4. /\ actors' = [actors EXCEPT ![a] = saved]
      /\ tally' = [tally EXCEPT !.consumed = @ + portions, !.depotConsumed = @ + portions]
      /\ Record(a, serial, portions)
  BY DEF EatDepot
<1>5. depots' = [depots EXCEPT ![d] = new]
  <2>1. depots' = [depots EXCEPT ![d].stock = @ - portions, ![d].consumed = @ + portions]
    BY DEF EatDepot
  <2> QED BY <1>1, <2>1 DEF StoreBooks, Depot
<1>6. /\ actors[a] \in Actor /\ actors[a].cargo \in Nat
      /\ actors[a].cargo <= Roster[a].capacity
  BY <1>1 DEF ClaimBooks, Actor
<1>7. saved \in Actor /\ saved.pending = actors[a].pending /\ saved.cargo = actors[a].cargo
  <2>1. "Meal" \in EventKinds
    BY DEF EventKinds
  <2>2. saved \in Actor
    BY <1>1, <1>6, <2>1, SaveType
  <2> QED BY <1>6, <2>2 DEF SaveEvent, Actor
<1> HIDE DEF saved
<1>8. ClaimBooks([actors EXCEPT ![a] = saved], carcasses)
  <2>1. saved.cargo <= Roster[a].capacity /\ saved.cargo <= actors[a].cargo
    BY <1>6, <1>7
  <2> QED BY <1>1, <1>7, <2>1, Completes
<1>9. new \in Depot /\ new.stock <= DepotSpec[d].capacity
  <2>1. depots[d].stock - portions \in Nat /\ depots[d].consumed + portions \in Nat
    BY <1>1, <1>2, <1>3, Portions, Zenon
  <2>2. \A k, m, n \in Nat : m <= n => m - k <= n
    OBVIOUS
  <2>3. new \in Depot /\ new.stock = depots[d].stock - portions
    BY <1>2, <2>1 DEF Depot
  <2> QED BY <1>1, <1>2, <2>2, <2>3, Zenon
<1> HIDE DEF new
<1>10. tally' \in Counters /\ moved' \in [Actors -> [Serials -> Move]]
  BY <1>1, <1>4, Booked, RecordType DEF StoreBooks
<1>11. /\ depots' \in [Depots -> Depot]
       /\ \A e \in Depots : depots'[e].stock <= DepotSpec[e].capacity
  BY <1>1, <1>5, <1>9, DepotChange DEF StoreBooks
<1> QED BY <1>1, <1>4, <1>8, <1>10, <1>11 DEF Sound, StoreBooks, EatDepot

\* A harvest takes no more than has grown and no more than fits.
LEMMA HarvestFieldSound ==
  ASSUME Sound, NEW a \in Actors, NEW serial \in Serials, NEW f \in Fields,
         NEW requested \in Requests, HarvestField(a, serial, f, requested)
  PROVE  Sound'
<1> DEFINE as == ExpiredActors
           field == ExpiredFields[f]
           amount == Smaller(requested, Smaller(CargoRoom(a, as[a]), field.remaining))
           new == [field EXCEPT !.remaining = @ - amount, !.harvested = @ + amount]
<1>1. /\ ClaimBooks(as, ExpiredCarcasses)
      /\ StoreBooks(depots, ExpiredFields, nextClaim, ExpiredTally, moved)
  BY ExpireSound
<1>2. serial \in Nat /\ requested \in Nat /\ f \in Nat
  <2>1. f \in Depots
    BY ConfigurationAssumption DEF FieldAccepted
  <2> QED BY <2>1, InputAssumption, ConfigurationAssumption
<1>3. /\ field \in Field /\ field.remaining \in Nat /\ field.harvested \in Nat
      /\ field.remaining <= FieldSpec[f].capacity /\ FieldSpec[f].capacity \in Nat
  BY <1>1, FieldFacts DEF StoreBooks, Field
<1>4. amount \in Nat /\ amount <= CargoRoom(a, as[a]) /\ amount <= field.remaining
  BY <1>1, <1>2, <1>3, RoomType, SmallerFacts
<1>5. ~Hunts(a)
  BY DEF HarvestField, Hunts
<1>6. /\ actors' = [as EXCEPT ![a] = SaveEvent([as[a] EXCEPT !.cargo = @ + amount],
                                        serial, "FieldHarvest", f, requested, amount)]
      /\ carcasses' = ExpiredCarcasses
      /\ tally' = [ExpiredTally EXCEPT !.harvested = @ + amount]
      /\ Record(a, serial, amount)
  BY DEF HarvestField
<1>7. fields' = [ExpiredFields EXCEPT ![f] = new]
  <2>1. fields' = [ExpiredFields EXCEPT ![f].remaining = @ - amount, ![f].harvested = @ + amount]
    BY DEF HarvestField
  <2> QED BY <1>1, <2>1 DEF StoreBooks, Field
<1> HIDE DEF amount, as, field
<1>8. ClaimBooks(actors', carcasses')
  <2>1. "FieldHarvest" \in EventKinds
    BY DEF EventKinds
  <2> QED BY <1>1, <1>2, <1>4, <1>5, <1>6, <2>1, TakesOn
<1>9. new \in Field /\ new.remaining <= FieldSpec[f].capacity
  <2>1. field.remaining - amount \in Nat /\ field.harvested + amount \in Nat
    BY <1>3, <1>4, Portions, Zenon
  <2>2. \A k, m, n \in Nat : m <= n => m - k <= n
    OBVIOUS
  <2>3. new \in Field /\ new.remaining = field.remaining - amount
    BY <1>3, <2>1 DEF Field
  <2> QED BY <1>3, <1>4, <2>2, <2>3, Zenon
<1> HIDE DEF new
<1>10. tally' \in Counters /\ moved' \in [Actors -> [Serials -> Move]]
  BY <1>1, <1>4, <1>6, Booked, RecordType DEF StoreBooks
<1>11. /\ fields' \in [Fields -> Field]
       /\ \A g \in Fields : fields'[g].remaining <= FieldSpec[g].capacity
  BY <1>1, <1>7, <1>9 DEF StoreBooks
<1> QED BY <1>1, <1>8, <1>10, <1>11 DEF Sound, StoreBooks, HarvestField

\* Sound is inductive.
LEMMA NextSound ==
  ASSUME Sound, [Next]_vars
  PROVE  Sound'
<1>1. CASE \E t \in Times : Clock(t)
  BY <1>1, ClockSound
<1>2. CASE Expire
  BY <1>2, ExpireStepSound
<1>3. ASSUME NEW s \in Sources, NEW life \in Lives, OnCarcass(s, life) PROVE Sound'
  <2>1. CASE \E t \in Times : RegisterCarcass(s, life, t, CarcassPortions)
    <3>1. CarcassPortions \in Nat
      BY PortionAssumption
    <3> QED BY <2>1, <3>1, RegisterCarcassSound
  <2>2. CASE CloseCarcass(s, life)
    BY <2>2, CloseCarcassSound
  <2>3. CASE \E a \in Actors, n \in Requests : Reserve(a, s, life, n)
    BY <2>3, ReserveSound
  <2> QED BY <1>3, <2>1, <2>2, <2>3 DEF OnCarcass
<1>4. ASSUME NEW a \in Actors, ByActor(a) PROVE Sound'
  <2>1. CASE \E n \in 1..nextClaim : Commit(a, n) \/ Cancel(a, n)
    <3>1. \A n \in 1..nextClaim : n \in Nat
      BY DEF Sound, StoreBooks
    <3> QED BY <2>1, <3>1, CommitSound, CancelSound
  <2>2. CASE DropCargo(a)
    BY <2>2, DropCargoSound
  <2>3. ASSUME NEW n \in Serials, NEW requested \in Requests, Completed(a, n, requested)
        PROVE  Sound'
    BY <2>3, HarvestFieldSound, StealSound, LoadSound, DeliverSound, EatDepotSound DEF Completed
  <2> QED BY <1>4, <2>1, <2>2, <2>3 DEF ByActor
<1>5. CASE UNCHANGED vars
  BY <1>5 DEF vars, Sound
<1> QED BY <1>1, <1>2, <1>3, <1>4, <1>5 DEF Next

\* Sound holds in every reachable state.
THEOREM LedgerSound == Spec => []Sound
<1>1. Init => Sound
  BY InitSound
<1>2. Sound /\ [Next]_vars => Sound'
  BY NextSound
<1> QED BY <1>1, <1>2, PTL DEF Spec

\* Every quantity of the ledger keeps its type: the unchecked unsigned
\* subtractions of Release, Commit, Load, Deliver, Steal, EatDepot and
\* DropCargo never wrap around, for every configuration.
THEOREM LedgerTypes == Spec => []TypeOK
<1>1. Sound => TypeOK
  BY SoundSplit
<1> QED BY <1>1, LedgerSound, PTL

\* No cargo, depot or field is ever overfilled (Reserve, HarvestField, Steal,
\* Load, Deliver, Commit and Regrow).
THEOREM LedgerCapacity == Spec => []WithinCapacity
<1>1. Sound => WithinCapacity
  BY SoundSplit
<1> QED BY <1>1, LedgerSound, PTL

\* The reserved counter of a carcass is the sum of the pending claims on it,
\* through expiry, closing, re-registration, commit and death.
THEOREM LedgerReservations == Spec => []ReservationsExact
<1>1. Sound => ReservationsExact
  BY SoundSplit
<1> QED BY <1>1, LedgerSound, PTL

\* A pending claim can always be honoured until it lapses, so Commit never
\* answers CLAIM_INVALIDATED.
THEOREM LedgerClaims == Spec => []ClaimsGood
<1>1. Sound => ClaimsGood
  BY SoundSplit
<1> QED BY <1>1, LedgerSound, PTL

---------------------------------------------------------------------------
(* The quantities whose totals the balances speak of *)

StockOf(ds) == [d \in Depots |-> ds[d].stock]
StolenOf(ds) == [d \in Depots |-> ds[d].stolen]
ExportedOf(ds) == [d \in Depots |-> ds[d].exported]
DeliveredOf(ds) == [d \in Depots |-> ds[d].delivered]
ConsumedOf(ds) == [d \in Depots |-> ds[d].consumed]
CargoOf(as) == [a \in Actors |-> as[a].cargo]
MeatLeft(cs) == [s \in Sources |-> cs[s].remaining]
CropsLeft(fs) == [f \in Fields |-> fs[f].remaining]

\* One depot changes: each total changes by what changes there.
LEMMA DepotTotals ==
  ASSUME NEW ds \in [Depots -> Depot], NEW d \in Depots, NEW new \in Depot
  PROVE  LET ds2 == [ds EXCEPT ![d] = new]
         IN /\ Total(StockOf(ds2)) + ds[d].stock = Total(StockOf(ds)) + new.stock
            /\ Total(StolenOf(ds2)) + ds[d].stolen = Total(StolenOf(ds)) + new.stolen
            /\ Total(ExportedOf(ds2)) + ds[d].exported = Total(ExportedOf(ds)) + new.exported
            /\ Total(DeliveredOf(ds2)) + ds[d].delivered = Total(DeliveredOf(ds)) + new.delivered
            /\ Total(ConsumedOf(ds2)) + ds[d].consumed = Total(ConsumedOf(ds)) + new.consumed
<1> DEFINE ds2 == [ds EXCEPT ![d] = new]
<1>1. ds2 \in [Depots -> Depot] /\ ds2[d] = new /\ \A e \in Depots \ {d} : ds2[e] = ds[e]
  OBVIOUS
<1> HIDE DEF ds2
<1>2. IsFiniteSet(Depots)
  BY Domains
<1>3. Total(StockOf(ds2)) + ds[d].stock = Total(StockOf(ds)) + new.stock
  <2>1. StockOf(ds) \in [Depots -> Nat] /\ StockOf(ds2) \in [Depots -> Nat]
    BY <1>1 DEF StockOf, Depot
  <2>2. /\ StockOf(ds)[d] = ds[d].stock /\ StockOf(ds2)[d] = new.stock
        /\ \A e \in Depots \ {d} : StockOf(ds2)[e] = StockOf(ds)[e]
    BY <1>1 DEF StockOf
  <2> QED BY <1>2, <2>1, <2>2, TotalUpdate
<1>4. Total(StolenOf(ds2)) + ds[d].stolen = Total(StolenOf(ds)) + new.stolen
  <2>1. StolenOf(ds) \in [Depots -> Nat] /\ StolenOf(ds2) \in [Depots -> Nat]
    BY <1>1 DEF StolenOf, Depot
  <2>2. /\ StolenOf(ds)[d] = ds[d].stolen /\ StolenOf(ds2)[d] = new.stolen
        /\ \A e \in Depots \ {d} : StolenOf(ds2)[e] = StolenOf(ds)[e]
    BY <1>1 DEF StolenOf
  <2> QED BY <1>2, <2>1, <2>2, TotalUpdate
<1>5. Total(ExportedOf(ds2)) + ds[d].exported = Total(ExportedOf(ds)) + new.exported
  <2>1. ExportedOf(ds) \in [Depots -> Nat] /\ ExportedOf(ds2) \in [Depots -> Nat]
    BY <1>1 DEF ExportedOf, Depot
  <2>2. /\ ExportedOf(ds)[d] = ds[d].exported /\ ExportedOf(ds2)[d] = new.exported
        /\ \A e \in Depots \ {d} : ExportedOf(ds2)[e] = ExportedOf(ds)[e]
    BY <1>1 DEF ExportedOf
  <2> QED BY <1>2, <2>1, <2>2, TotalUpdate
<1>6. Total(DeliveredOf(ds2)) + ds[d].delivered = Total(DeliveredOf(ds)) + new.delivered
  <2>1. DeliveredOf(ds) \in [Depots -> Nat] /\ DeliveredOf(ds2) \in [Depots -> Nat]
    BY <1>1 DEF DeliveredOf, Depot
  <2>2. /\ DeliveredOf(ds)[d] = ds[d].delivered /\ DeliveredOf(ds2)[d] = new.delivered
        /\ \A e \in Depots \ {d} : DeliveredOf(ds2)[e] = DeliveredOf(ds)[e]
    BY <1>1 DEF DeliveredOf
  <2> QED BY <1>2, <2>1, <2>2, TotalUpdate
<1>7. Total(ConsumedOf(ds2)) + ds[d].consumed = Total(ConsumedOf(ds)) + new.consumed
  <2>1. ConsumedOf(ds) \in [Depots -> Nat] /\ ConsumedOf(ds2) \in [Depots -> Nat]
    BY <1>1 DEF ConsumedOf, Depot
  <2>2. /\ ConsumedOf(ds)[d] = ds[d].consumed /\ ConsumedOf(ds2)[d] = new.consumed
        /\ \A e \in Depots \ {d} : ConsumedOf(ds2)[e] = ConsumedOf(ds)[e]
    BY <1>1 DEF ConsumedOf
  <2> QED BY <1>2, <2>1, <2>2, TotalUpdate
<1> QED BY <1>3, <1>4, <1>5, <1>6, <1>7 DEF ds2

\* The cargo of no actor but a changes.
OnlyCargo(as, as2, a) == \A b \in Actors \ {a} : as2[b].cargo = as[b].cargo

\* The cargo of one actor changes.
LEMMA CargoTotal ==
  ASSUME NEW as \in [Actors -> Actor], NEW as2 \in [Actors -> Actor], NEW a \in Actors,
         OnlyCargo(as, as2, a)
  PROVE  Total(CargoOf(as2)) + as[a].cargo = Total(CargoOf(as)) + as2[a].cargo
<1>1. CargoOf(as) \in [Actors -> Nat] /\ CargoOf(as2) \in [Actors -> Nat]
  BY DEF CargoOf, Actor
<1>2. /\ CargoOf(as)[a] = as[a].cargo /\ CargoOf(as2)[a] = as2[a].cargo
      /\ \A b \in Actors \ {a} : CargoOf(as2)[b] = CargoOf(as)[b]
  BY DEF CargoOf, OnlyCargo
<1>3. IsFiniteSet(Actors)
  BY Domains
<1>4. Total(CargoOf(as2)) + CargoOf(as)[a] = Total(CargoOf(as)) + CargoOf(as2)[a]
  <2>1. ASSUME NEW old \in [Actors -> Nat], NEW new \in [Actors -> Nat],
               \A b \in Actors \ {a} : new[b] = old[b]
        PROVE  Total(new) + old[a] = Total(old) + new[a]
    BY <1>3, <2>1, TotalUpdate
  <2> QED BY <1>1, <1>2, <2>1
<1> QED BY <1>2, <1>4

\* Losing a claim changes no cargo.
LEMMA UnclaimedCargo ==
  ASSUME NEW as \in [Actors -> Actor], NEW A
  PROVE  CargoOf(Unclaimed(as, A)) = CargoOf(as)
<1>1. \A a \in Actors : Unclaimed(as, A)[a].cargo = as[a].cargo
  BY DEF Unclaimed, Actor
<1> QED BY <1>1 DEF CargoOf

\* One carcass changes.
LEMMA MeatTotal ==
  ASSUME NEW cs \in [Sources -> Carcass], NEW cs2 \in [Sources -> Carcass], NEW s \in Sources,
         \A r \in Sources \ {s} : cs2[r].remaining = cs[r].remaining
  PROVE  Total(MeatLeft(cs2)) + cs[s].remaining = Total(MeatLeft(cs)) + cs2[s].remaining
<1>1. MeatLeft(cs) \in [Sources -> Nat] /\ MeatLeft(cs2) \in [Sources -> Nat]
  BY DEF MeatLeft, Carcass
<1>2. /\ MeatLeft(cs)[s] = cs[s].remaining /\ MeatLeft(cs2)[s] = cs2[s].remaining
      /\ \A r \in Sources \ {s} : MeatLeft(cs2)[r] = MeatLeft(cs)[r]
  BY DEF MeatLeft
<1>3. IsFiniteSet(Sources)
  BY Domains
<1> QED BY <1>1, <1>2, <1>3, TotalUpdate

\* Giving reservations back changes no meat.
LEMMA ReleasedMeat ==
  ASSUME NEW as, NEW cs \in [Sources -> Carcass], NEW A
  PROVE  MeatLeft(Release(as, cs, A)) = MeatLeft(cs)
<1>1. \A s \in Sources : Release(as, cs, A)[s].remaining = cs[s].remaining
  BY DEF Release, Carcass
<1> QED BY <1>1 DEF MeatLeft

\* Closing carcasses gives up exactly the meat that is booked as given up.
LEMMA ClosedMeat ==
  ASSUME NEW as, NEW cs \in [Sources -> Carcass], NEW A, NEW C
  PROVE  Total(MeatLeft(cs)) = Total(MeatLeft(Entombed(Release(as, cs, A), C))) + MeatOf(cs, C)
<1> DEFINE cs2 == Entombed(Release(as, cs, A), C)
           gone == [s \in Sources |-> IF s \in C THEN cs[s].remaining ELSE 0]
<1>1. \A s \in Sources : cs2[s].remaining = IF s \in C THEN 0 ELSE cs[s].remaining
  BY DEF Entombed, Release, Carcass
<1> HIDE DEF cs2
<1>2. /\ MeatLeft(cs) \in [Sources -> Nat] /\ gone \in [Sources -> Nat]
      /\ MeatLeft(cs2) \in [Sources -> Nat]
  BY <1>1 DEF MeatLeft, Carcass
<1>3. IsSum(Sources, MeatLeft(cs), MeatLeft(cs2), gone)
  <2>1. ASSUME NEW s \in Sources PROVE MeatLeft(cs)[s] = MeatLeft(cs2)[s] + gone[s]
    <3>1. cs[s].remaining \in Nat /\ MeatLeft(cs)[s] = cs[s].remaining
      BY DEF Carcass, MeatLeft
    <3>2. MeatLeft(cs2)[s] = IF s \in C THEN 0 ELSE cs[s].remaining
      BY <1>1 DEF MeatLeft
    <3> QED BY <3>1, <3>2
  <2> QED BY <2>1 DEF IsSum
<1> HIDE DEF gone
<1>4. Total(MeatLeft(cs)) = Total(MeatLeft(cs2)) + Total(gone)
  BY <1>2, <1>3, Domains, TotalAdd
<1> QED BY <1>4 DEF cs2, gone, MeatOf

\* One field changes.
LEMMA CropTotal ==
  ASSUME NEW fs \in [Fields -> Field], NEW f \in Fields, NEW new \in Field
  PROVE  Total(CropsLeft([fs EXCEPT ![f] = new])) + fs[f].remaining
           = Total(CropsLeft(fs)) + new.remaining
<1> DEFINE fs2 == [fs EXCEPT ![f] = new]
<1>1. CropsLeft(fs) \in [Fields -> Nat] /\ CropsLeft(fs2) \in [Fields -> Nat]
  BY DEF CropsLeft, Field
<1>2. /\ CropsLeft(fs)[f] = fs[f].remaining /\ CropsLeft(fs2)[f] = new.remaining
      /\ \A g \in Fields \ {f} : CropsLeft(fs2)[g] = CropsLeft(fs)[g]
  BY DEF CropsLeft
<1>3. IsFiniteSet(Fields)
  BY Domains
<1> HIDE DEF fs2
<1>4. Total(CropsLeft(fs2)) + CropsLeft(fs)[f] = Total(CropsLeft(fs)) + CropsLeft(fs2)[f]
  BY <1>1, <1>2, <1>3, TotalUpdate
<1>5. Total(CropsLeft(fs2)) + fs[f].remaining = Total(CropsLeft(fs)) + new.remaining
  BY <1>2, <1>4
<1> QED BY <1>5 DEF fs2

---------------------------------------------------------------------------
(* The balances as conditions on the parts of the state, so that they can  *)
(* be stated of the state a sweep leads to in the middle of another call.  *)

FoodBalance(ds, as, tl) ==
  InitialFood + tl.harvested = Total(StockOf(ds)) + Total(CargoOf(as)) + tl.consumed + tl.lost

PotentialBalance(cs, fs, tl) ==
  tl.potentialCreated = Total(MeatLeft(cs)) + Total(CropsLeft(fs)) + tl.harvested + tl.potentialLost

OwnBalance(d, depot) ==
  depot.stock + depot.stolen + depot.exported + depot.consumed
    = DepotSpec[d].initial + depot.delivered

LedgerTotals(ds, tl) ==
  /\ tl.stolen = Total(StolenOf(ds))
  /\ tl.loaded = Total(ExportedOf(ds))
  /\ tl.delivered = Total(DeliveredOf(ds))
  /\ tl.depotConsumed = Total(ConsumedOf(ds))
  /\ tl.consumed = tl.depotConsumed + tl.predatorConsumed

Balances(ds, fs, as, cs, tl) ==
  /\ FoodBalance(ds, as, tl)
  /\ PotentialBalance(cs, fs, tl)
  /\ \A d \in Depots : OwnBalance(d, ds[d])
  /\ LedgerTotals(ds, tl)

Balanced == Balances(depots, fields, actors, carcasses, tally)

\* Balanced is what the properties say.
LEMMA BalancedSplit == Balanced <=> FoodAccounted /\ DepotBooks
<1>1. FoodBalance(depots, actors, tally) <=> Conserved
  BY DEF FoodBalance, Conserved, DepotFood, CargoFood, StockOf, CargoOf
<1>2. PotentialBalance(carcasses, fields, tally) <=> PotentialConserved
  BY DEF PotentialBalance, PotentialConserved, RemainingPotential, MeatLeft, CropsLeft
<1>3. (\A d \in Depots : OwnBalance(d, depots[d])) /\ LedgerTotals(depots, tally) <=> DepotBooks
  BY DEF OwnBalance, LedgerTotals, DepotBooks, StolenOf, ExportedOf, DeliveredOf, ConsumedOf
<1> QED BY <1>1, <1>2, <1>3 DEF Balanced, Balances, FoodAccounted

\* The totals over the depots are natural numbers.
LEMMA DepotTotalsTyped ==
  ASSUME NEW ds \in [Depots -> Depot]
  PROVE  /\ Total(StockOf(ds)) \in Nat /\ Total(StolenOf(ds)) \in Nat
         /\ Total(ExportedOf(ds)) \in Nat /\ Total(DeliveredOf(ds)) \in Nat
         /\ Total(ConsumedOf(ds)) \in Nat
<1>1. /\ StockOf(ds) \in [Depots -> Nat] /\ StolenOf(ds) \in [Depots -> Nat]
      /\ ExportedOf(ds) \in [Depots -> Nat] /\ DeliveredOf(ds) \in [Depots -> Nat]
      /\ ConsumedOf(ds) \in [Depots -> Nat]
  BY DEF StockOf, StolenOf, ExportedOf, DeliveredOf, ConsumedOf, Depot
<1> QED BY <1>1, Domains, TotalType

\* The totals are natural numbers.
LEMMA TotalsTyped ==
  ASSUME NEW ds \in [Depots -> Depot], NEW fs \in [Fields -> Field],
         NEW as \in [Actors -> Actor], NEW cs \in [Sources -> Carcass]
  PROVE  /\ Total(StockOf(ds)) \in Nat /\ Total(CargoOf(as)) \in Nat
         /\ Total(MeatLeft(cs)) \in Nat /\ Total(CropsLeft(fs)) \in Nat
         /\ Total(StolenOf(ds)) \in Nat /\ Total(ExportedOf(ds)) \in Nat
         /\ Total(DeliveredOf(ds)) \in Nat /\ Total(ConsumedOf(ds)) \in Nat
         /\ InitialFood \in Nat /\ InitialCrops \in Nat
<1>2. /\ CargoOf(as) \in [Actors -> Nat] /\ MeatLeft(cs) \in [Sources -> Nat]
      /\ CropsLeft(fs) \in [Fields -> Nat]
  BY DEF CargoOf, MeatLeft, CropsLeft, Actor, Carcass, Field
<1> DEFINE food == [d \in Depots |-> DepotSpec[d].initial]
           crops == [f \in Fields |-> FieldSpec[f].initial]
<1>3. food \in [Depots -> Nat] /\ crops \in [Fields -> Nat]
  BY DepotFacts, FieldFacts
<1> HIDE DEF food, crops
<1>4. Total(food) \in Nat /\ Total(crops) \in Nat
  BY <1>3, Domains, TotalType
<1>6. Total(CargoOf(as)) \in Nat /\ Total(MeatLeft(cs)) \in Nat /\ Total(CropsLeft(fs)) \in Nat
  BY <1>2, Domains, TotalType
<1> QED BY <1>4, <1>6, DepotTotalsTyped DEF InitialFood, InitialCrops, food, crops

\* The types that Sound gives.
LEMMA SoundTypes ==
  ASSUME Sound
  PROVE  /\ depots \in [Depots -> Depot] /\ fields \in [Fields -> Field]
         /\ actors \in [Actors -> Actor] /\ carcasses \in [Sources -> Carcass]
         /\ tally \in Counters /\ now \in Nat
         /\ \A f \in Fields : fields[f].remaining <= FieldSpec[f].capacity
BY InputAssumption DEF Sound, ClaimBooks, StoreBooks

\* A counter is a natural number.
LEMMA TallyTypes ==
  ASSUME NEW tl \in Counters
  PROVE  /\ tl.harvested \in Nat /\ tl.consumed \in Nat /\ tl.lost \in Nat
         /\ tl.delivered \in Nat /\ tl.stolen \in Nat /\ tl.loaded \in Nat
         /\ tl.predatorConsumed \in Nat /\ tl.depotConsumed \in Nat
         /\ tl.potentialCreated \in Nat /\ tl.potentialLost \in Nat
BY DEF Counters

---------------------------------------------------------------------------
(* The sweep: crops grow, carcasses close, claims lapse *)

\* A field holds what it grew besides what it had.
LEMMA RegrowAmounts ==
  ASSUME NEW f \in Fields, NEW field \in Field, NEW t \in Nat,
         field.remaining <= FieldSpec[f].capacity
  PROVE  /\ Regrow(f, field, t).remaining = field.remaining + Growth(f, field, t)
         /\ Regrow(f, field, t).regrown = field.regrown + Growth(f, field, t)
         /\ Regrow(f, field, t).harvested = field.harvested
<1> DEFINE growth == Growth(f, field, t)
<1>1. /\ growth \in Nat
      /\ field \in [remaining : Nat, last : Nat, harvested : Nat, regrown : Nat]
  BY GrowthType DEF Field
<1>2. CASE t <= field.last \/ (growth = 0 /\ field.remaining + growth # FieldSpec[f].capacity)
  <2>1. Regrow(f, field, t) = field
    BY <1>2 DEF Regrow
  <2>2. growth = 0
    BY <1>2 DEF Growth
  <2> QED BY <1>1, <2>1, <2>2
<1>3. CASE ~(t <= field.last \/ (growth = 0 /\ field.remaining + growth # FieldSpec[f].capacity))
  <2>1. \E last : Regrow(f, field, t)
          = [field EXCEPT !.remaining = field.remaining + growth, !.regrown = @ + growth,
                          !.last = last]
    BY <1>3 DEF Regrow
  <2> HIDE DEF growth
  <2> QED BY <1>1, <2>1 DEF growth
<1> QED BY <1>2, <1>3

\* The sweep keeps the balances: what it grows is booked as created, what it
\* closes as lost.
LEMMA SweepBalances ==
  ASSUME Sound, Balanced
  PROVE  Balances(depots, ExpiredFields, ExpiredActors, ExpiredCarcasses, ExpiredTally)
<1> DEFINE g == [f \in Fields |-> Growth(f, fields[f], now)]
           grown == Total(g)
           gone == MeatOf(carcasses, DueCarcasses)
<1>1. /\ actors \in [Actors -> Actor] /\ carcasses \in [Sources -> Carcass]
      /\ depots \in [Depots -> Depot] /\ fields \in [Fields -> Field]
      /\ tally \in Counters /\ now \in Nat
  BY SoundTypes
<1>2. /\ ExpiredFields \in [Fields -> Field] /\ ExpiredActors \in [Actors -> Actor]
      /\ ExpiredCarcasses \in [Sources -> Carcass] /\ ExpiredTally \in Counters
  BY ExpireSound DEF ClaimBooks, StoreBooks
<1>3. CargoOf(ExpiredActors) = CargoOf(actors)
  BY <1>1, UnclaimedCargo DEF ExpiredActors
<1>4. Total(MeatLeft(carcasses)) = Total(MeatLeft(ExpiredCarcasses)) + gone
  BY <1>1, ClosedMeat DEF ExpiredCarcasses
<1>5. Total(CropsLeft(ExpiredFields)) = Total(CropsLeft(fields)) + grown
  <2>1. \A f \in Fields : /\ Growth(f, fields[f], now) \in Nat
                          /\ ExpiredFields[f].remaining = fields[f].remaining + Growth(f, fields[f], now)
    BY <1>1, SoundTypes, GrowthType, RegrowAmounts DEF ExpiredFields
  <2>2. /\ g \in [Fields -> Nat] /\ CropsLeft(fields) \in [Fields -> Nat]
        /\ CropsLeft(ExpiredFields) \in [Fields -> Nat]
    BY <1>1, <1>2, <2>1 DEF CropsLeft, Field
  <2>3. IsSum(Fields, CropsLeft(ExpiredFields), CropsLeft(fields), g)
    BY <2>1 DEF IsSum, CropsLeft
  <2> HIDE DEF g
  <2> QED BY <2>2, <2>3, Domains, TotalAdd
<1>6. gone \in Nat /\ grown \in Nat
  <2>1. \A f \in Fields : Growth(f, fields[f], now) \in Nat
    BY <1>1, SoundTypes, GrowthType
  <2>2. g \in [Fields -> Nat]
    BY <2>1
  <2> HIDE DEF g
  <2> QED BY <1>1, <2>2, Domains, TotalType, MeatType
<1>7. ExpiredTally = [tally EXCEPT !.potentialCreated = @ + grown, !.potentialLost = @ + gone]
  BY DEF ExpiredTally
<1> HIDE DEF g, grown, gone
<1>8. /\ ExpiredTally.potentialCreated = tally.potentialCreated + grown
      /\ ExpiredTally.potentialLost = tally.potentialLost + gone
      /\ ExpiredTally.harvested = tally.harvested /\ ExpiredTally.consumed = tally.consumed
      /\ ExpiredTally.lost = tally.lost /\ ExpiredTally.delivered = tally.delivered
      /\ ExpiredTally.stolen = tally.stolen /\ ExpiredTally.loaded = tally.loaded
      /\ ExpiredTally.predatorConsumed = tally.predatorConsumed
      /\ ExpiredTally.depotConsumed = tally.depotConsumed
  BY <1>1, <1>7 DEF Counters
<1>9. FoodBalance(depots, ExpiredActors, ExpiredTally)
  BY <1>3, <1>8 DEF Balanced, Balances, FoodBalance
<1>10. PotentialBalance(ExpiredCarcasses, ExpiredFields, ExpiredTally)
  <2>1. tally.potentialCreated = Total(MeatLeft(carcasses)) + Total(CropsLeft(fields))
                                   + tally.harvested + tally.potentialLost
    BY DEF Balanced, Balances, PotentialBalance
  <2>2. /\ Total(MeatLeft(carcasses)) \in Nat /\ Total(CropsLeft(fields)) \in Nat
        /\ Total(MeatLeft(ExpiredCarcasses)) \in Nat /\ Total(CropsLeft(ExpiredFields)) \in Nat
    BY <1>1, <1>2, TotalsTyped
  <2>3. tally.harvested \in Nat /\ tally.potentialLost \in Nat /\ tally.potentialCreated \in Nat
    BY <1>1, TallyTypes
  <2> QED BY <1>4, <1>5, <1>6, <1>8, <2>1, <2>2, <2>3 DEF PotentialBalance
<1>11. /\ \A d \in Depots : OwnBalance(d, depots[d])
       /\ LedgerTotals(depots, ExpiredTally)
  BY <1>8 DEF Balanced, Balances, LedgerTotals
<1> QED BY <1>9, <1>10, <1>11 DEF Balances

\* The sweep as a step of its own, and as the first part of another call.
LEMMA SweptState ==
  ASSUME Sound, Balanced
  PROVE  /\ Balances(depots, ExpiredFields, ExpiredActors, ExpiredCarcasses, ExpiredTally)
         /\ ExpiredFields \in [Fields -> Field] /\ ExpiredActors \in [Actors -> Actor]
         /\ ExpiredCarcasses \in [Sources -> Carcass] /\ ExpiredTally \in Counters
         /\ \A f \in Fields : ExpiredFields[f].remaining <= FieldSpec[f].capacity
BY SweepBalances, ExpireSound DEF ClaimBooks, StoreBooks

---------------------------------------------------------------------------
(* The kinds of change the calls make *)

\* Nothing that the balances speak of changes.
LEMMA NothingMoves ==
  ASSUME NEW ds, NEW fs, NEW as, NEW cs, NEW tl, Balances(ds, fs, as, cs, tl),
         NEW as2, NEW cs2, CargoOf(as2) = CargoOf(as), MeatLeft(cs2) = MeatLeft(cs)
  PROVE  Balances(ds, fs, as2, cs2, tl)
BY DEF Balances, FoodBalance, PotentialBalance

\* Meat is given up, or appears, with a carcass.
LEMMA MeatChanges ==
  ASSUME NEW ds \in [Depots -> Depot], NEW fs \in [Fields -> Field],
         NEW as \in [Actors -> Actor], NEW cs \in [Sources -> Carcass], NEW tl \in Counters,
         Balances(ds, fs, as, cs, tl),
         NEW as2, NEW cs2 \in [Sources -> Carcass], NEW made \in Nat, NEW gone \in Nat,
         CargoOf(as2) = CargoOf(as),
         Total(MeatLeft(cs2)) + gone = Total(MeatLeft(cs)) + made
  PROVE  Balances(ds, fs, as2, cs2,
                  [tl EXCEPT !.potentialCreated = @ + made, !.potentialLost = @ + gone])
<1> DEFINE tl2 == [tl EXCEPT !.potentialCreated = @ + made, !.potentialLost = @ + gone]
<1>1. /\ tl2.potentialCreated = tl.potentialCreated + made
      /\ tl2.potentialLost = tl.potentialLost + gone
      /\ tl2.harvested = tl.harvested /\ tl2.consumed = tl.consumed /\ tl2.lost = tl.lost
      /\ tl2.delivered = tl.delivered /\ tl2.stolen = tl.stolen /\ tl2.loaded = tl.loaded
      /\ tl2.predatorConsumed = tl.predatorConsumed /\ tl2.depotConsumed = tl.depotConsumed
  BY DEF Counters
<1> HIDE DEF tl2
<1>2. FoodBalance(ds, as2, tl2)
  BY <1>1 DEF Balances, FoodBalance
<1>3. PotentialBalance(cs2, fs, tl2)
  <2>1. tl.potentialCreated = Total(MeatLeft(cs)) + Total(CropsLeft(fs))
                                + tl.harvested + tl.potentialLost
    BY DEF Balances, PotentialBalance
  <2>2. /\ Total(MeatLeft(cs)) \in Nat /\ Total(CropsLeft(fs)) \in Nat
        /\ Total(MeatLeft(cs2)) \in Nat
    BY TotalsTyped
  <2>3. tl.harvested \in Nat /\ tl.potentialLost \in Nat /\ tl.potentialCreated \in Nat
    BY TallyTypes
  <2> QED BY <1>1, <2>1, <2>2, <2>3 DEF PotentialBalance
<1>4. (\A d \in Depots : OwnBalance(d, ds[d])) /\ LedgerTotals(ds, tl2)
  BY <1>1 DEF Balances, LedgerTotals
<1>5. Balances(ds, fs, as2, cs2, tl2)
  BY <1>2, <1>3, <1>4 DEF Balances
<1> QED BY <1>5 DEF tl2

\* Potential becomes food: cargo of one actor, or a meal of a predator.
Harvests(tl, tl2, carried, eaten) ==
  tl2 = [tl EXCEPT !.harvested = @ + (carried + eaten), !.consumed = @ + eaten,
                   !.predatorConsumed = @ + eaten]

LEMMA PotentialHarvested ==
  ASSUME NEW ds \in [Depots -> Depot], NEW fs \in [Fields -> Field],
         NEW as \in [Actors -> Actor], NEW cs \in [Sources -> Carcass], NEW tl \in Counters,
         Balances(ds, fs, as, cs, tl),
         NEW fs2 \in [Fields -> Field], NEW as2 \in [Actors -> Actor],
         NEW cs2 \in [Sources -> Carcass], NEW tl2 \in Counters,
         NEW a \in Actors, NEW carried \in Nat, NEW eaten \in Nat,
         OnlyCargo(as, as2, a), as2[a].cargo = as[a].cargo + carried,
         Total(MeatLeft(cs)) + Total(CropsLeft(fs))
           = Total(MeatLeft(cs2)) + Total(CropsLeft(fs2)) + (carried + eaten),
         Harvests(tl, tl2, carried, eaten)
  PROVE  Balances(ds, fs2, as2, cs2, tl2)
<1> DEFINE cargo == Total(CargoOf(as))
           cargo2 == Total(CargoOf(as2))
           stock == Total(StockOf(ds))
           left == Total(MeatLeft(cs)) + Total(CropsLeft(fs))
           left2 == Total(MeatLeft(cs2)) + Total(CropsLeft(fs2))
           own == as[a].cargo
<1>1. /\ tl2.potentialCreated = tl.potentialCreated /\ tl2.potentialLost = tl.potentialLost
      /\ tl2.harvested = tl.harvested + (carried + eaten)
      /\ tl2.consumed = tl.consumed + eaten /\ tl2.lost = tl.lost
      /\ tl2.delivered = tl.delivered /\ tl2.stolen = tl.stolen /\ tl2.loaded = tl.loaded
      /\ tl2.predatorConsumed = tl.predatorConsumed + eaten
      /\ tl2.depotConsumed = tl.depotConsumed
  BY DEF Counters, Harvests
<1>2. /\ Total(MeatLeft(cs)) \in Nat /\ Total(CropsLeft(fs)) \in Nat
      /\ Total(MeatLeft(cs2)) \in Nat /\ Total(CropsLeft(fs2)) \in Nat
      /\ stock \in Nat /\ cargo \in Nat /\ cargo2 \in Nat /\ InitialFood \in Nat
  BY TotalsTyped
<1>3. /\ tl.harvested \in Nat /\ tl.potentialLost \in Nat /\ tl.potentialCreated \in Nat
      /\ tl.consumed \in Nat /\ tl.lost \in Nat /\ tl.depotConsumed \in Nat
      /\ tl.predatorConsumed \in Nat /\ own \in Nat
  BY TallyTypes DEF Actor
<1>4. left \in Nat /\ left2 \in Nat /\ left = left2 + (carried + eaten)
  BY <1>2
<1>5. cargo2 + own = cargo + (own + carried)
  BY CargoTotal
<1>6. InitialFood + tl.harvested = stock + cargo + tl.consumed + tl.lost
  BY DEF Balances, FoodBalance
<1>7. tl.potentialCreated = left + tl.harvested + tl.potentialLost
  BY DEF Balances, PotentialBalance
<1>8. ASSUME InitialFood + tl2.harvested = stock + cargo2 + tl2.consumed + tl2.lost
      PROVE  FoodBalance(ds, as2, tl2)
  BY <1>8 DEF FoodBalance
<1>9. ASSUME tl2.potentialCreated = left2 + tl2.harvested + tl2.potentialLost
      PROVE  PotentialBalance(cs2, fs2, tl2)
  BY <1>9 DEF PotentialBalance
<1> HIDE DEF cargo, cargo2, stock, left, left2, own
<1>10. FoodBalance(ds, as2, tl2)
  BY <1>1, <1>2, <1>3, <1>5, <1>6, <1>8
<1>11. PotentialBalance(cs2, fs2, tl2)
  BY <1>1, <1>3, <1>4, <1>7, <1>9
<1>12. (\A d \in Depots : OwnBalance(d, ds[d])) /\ LedgerTotals(ds, tl2)
  BY <1>1, <1>3 DEF Balances, LedgerTotals
<1> QED BY <1>10, <1>11, <1>12 DEF Balances

\* Food moves between a depot and an actor, or is eaten there: what the depot
\* and the totals must book.
DepotBooked(d, depot, new, tl, tl2) ==
  /\ OwnBalance(d, new)
  /\ tl2.stolen + depot.stolen = tl.stolen + new.stolen
  /\ tl2.loaded + depot.exported = tl.loaded + new.exported
  /\ tl2.delivered + depot.delivered = tl.delivered + new.delivered
  /\ tl2.depotConsumed + depot.consumed = tl.depotConsumed + new.consumed
  /\ tl2.consumed = tl2.depotConsumed + tl2.predatorConsumed
  /\ tl2.harvested = tl.harvested /\ tl2.lost = tl.lost
  /\ tl2.potentialCreated = tl.potentialCreated /\ tl2.potentialLost = tl.potentialLost

LEMMA DepotMoves ==
  ASSUME NEW ds \in [Depots -> Depot], NEW fs, NEW as \in [Actors -> Actor], NEW cs,
         NEW tl \in Counters, Balances(ds, fs, as, cs, tl),
         NEW as2 \in [Actors -> Actor], NEW tl2 \in Counters,
         NEW d \in Depots, NEW new \in Depot, NEW a \in Actors,
         OnlyCargo(as, as2, a), DepotBooked(d, ds[d], new, tl, tl2),
         new.stock + as2[a].cargo + tl2.consumed = ds[d].stock + as[a].cargo + tl.consumed
  PROVE  Balances([ds EXCEPT ![d] = new], fs, as2, cs, tl2)
<1> DEFINE ds2 == [ds EXCEPT ![d] = new]
           old == ds[d]
           cargo == Total(CargoOf(as))
           cargo2 == Total(CargoOf(as2))
           stock == Total(StockOf(ds))
           stock2 == Total(StockOf(ds2))
           stolen2 == Total(StolenOf(ds2))
           loaded2 == Total(ExportedOf(ds2))
           delivered2 == Total(DeliveredOf(ds2))
           consumed2 == Total(ConsumedOf(ds2))
           own == as[a].cargo
           own2 == as2[a].cargo
<1>1. /\ ds2 \in [Depots -> Depot] /\ ds2[d] = new
      /\ \A e \in Depots \ {d} : ds2[e] = ds[e]
  OBVIOUS
<1>2. /\ tl.stolen = Total(StolenOf(ds)) /\ tl.loaded = Total(ExportedOf(ds))
      /\ tl.delivered = Total(DeliveredOf(ds)) /\ tl.depotConsumed = Total(ConsumedOf(ds))
  BY DEF Balances, LedgerTotals
<1>3. /\ stock2 + old.stock = stock + new.stock
      /\ stolen2 + old.stolen = tl.stolen + new.stolen
      /\ loaded2 + old.exported = tl.loaded + new.exported
      /\ delivered2 + old.delivered = tl.delivered + new.delivered
      /\ consumed2 + old.consumed = tl.depotConsumed + new.consumed
  <2>1. /\ stock2 + old.stock = stock + new.stock
        /\ stolen2 + old.stolen = Total(StolenOf(ds)) + new.stolen
        /\ loaded2 + old.exported = Total(ExportedOf(ds)) + new.exported
        /\ delivered2 + old.delivered = Total(DeliveredOf(ds)) + new.delivered
        /\ consumed2 + old.consumed = Total(ConsumedOf(ds)) + new.consumed
    BY DepotTotals
  <2> HIDE DEF ds2, stock2, stock, stolen2, loaded2, delivered2, consumed2
  <2> QED BY <1>2, <2>1
<1>4. cargo2 + own = cargo + own2
  BY CargoTotal
<1>5. cargo \in Nat /\ cargo2 \in Nat /\ own \in Nat /\ own2 \in Nat
  <2>1. CargoOf(as) \in [Actors -> Nat] /\ CargoOf(as2) \in [Actors -> Nat]
    BY DEF CargoOf, Actor
  <2>2. Total(CargoOf(as)) \in Nat /\ Total(CargoOf(as2)) \in Nat
    BY <2>1, Domains, TotalType
  <2> QED BY <2>2 DEF Actor
<1>6. /\ stock \in Nat /\ stock2 \in Nat /\ stolen2 \in Nat /\ loaded2 \in Nat
      /\ delivered2 \in Nat /\ consumed2 \in Nat
  BY <1>1, DepotTotalsTyped
<1>7. /\ old.stock \in Nat /\ old.stolen \in Nat /\ old.exported \in Nat
      /\ old.delivered \in Nat /\ old.consumed \in Nat
      /\ new.stock \in Nat /\ new.stolen \in Nat /\ new.exported \in Nat
      /\ new.delivered \in Nat /\ new.consumed \in Nat
  BY DEF Depot
<1>8. /\ tl.consumed \in Nat /\ tl2.consumed \in Nat /\ tl.lost \in Nat
      /\ tl2.stolen \in Nat /\ tl2.loaded \in Nat /\ tl2.delivered \in Nat
      /\ tl2.depotConsumed \in Nat
  BY TallyTypes
<1>9. InitialFood + tl.harvested = stock + cargo + tl.consumed + tl.lost
  BY DEF Balances, FoodBalance
<1>10. new.stock + own2 + tl2.consumed = old.stock + own + tl.consumed
  OBVIOUS
<1>11. /\ tl2.stolen + old.stolen = tl.stolen + new.stolen
       /\ tl2.loaded + old.exported = tl.loaded + new.exported
       /\ tl2.delivered + old.delivered = tl.delivered + new.delivered
       /\ tl2.depotConsumed + old.consumed = tl.depotConsumed + new.consumed
       /\ tl2.harvested = tl.harvested /\ tl2.lost = tl.lost
  BY DEF DepotBooked
<1>12. ASSUME InitialFood + tl2.harvested = stock2 + cargo2 + tl2.consumed + tl2.lost
       PROVE  FoodBalance(ds2, as2, tl2)
  BY <1>12 DEF FoodBalance
<1>13. PotentialBalance(cs, fs, tl2)
  BY DEF Balances, PotentialBalance, DepotBooked
<1>14. \A e \in Depots : OwnBalance(e, ds2[e])
  BY <1>1 DEF Balances, DepotBooked
<1>15. ASSUME /\ tl2.stolen = stolen2 /\ tl2.loaded = loaded2 /\ tl2.delivered = delivered2
              /\ tl2.depotConsumed = consumed2
       PROVE  LedgerTotals(ds2, tl2)
  BY <1>15 DEF LedgerTotals, DepotBooked
<1> HIDE DEF ds2, old, cargo, cargo2, stock, stock2, stolen2, loaded2, delivered2, consumed2,
             own, own2
<1>16. FoodBalance(ds2, as2, tl2)
  <2>1. stock2 + cargo2 + tl2.consumed = stock + cargo + tl.consumed
    BY <1>3, <1>4, <1>5, <1>6, <1>7, <1>8, <1>10
  <2> QED BY <1>9, <1>11, <1>12, <2>1
<1>17. LedgerTotals(ds2, tl2)
  <2>1. tl.stolen \in Nat /\ tl.loaded \in Nat /\ tl.delivered \in Nat /\ tl.depotConsumed \in Nat
    BY TallyTypes
  <2>2. tl2.stolen = stolen2 /\ tl2.loaded = loaded2
    BY <1>3, <1>6, <1>7, <1>8, <1>11, <2>1
  <2>3. tl2.delivered = delivered2
    BY <1>3, <1>6, <1>7, <1>8, <1>11, <2>1
  <2>4. tl2.depotConsumed = consumed2
    BY <1>3, <1>6, <1>7, <1>8, <1>11, <2>1
  <2> QED BY <1>15, <2>2, <2>3, <2>4
<1>18. Balances(ds2, fs, as2, cs, tl2)
  BY <1>13, <1>14, <1>16, <1>17 DEF Balances
<1> QED BY <1>18 DEF ds2

---------------------------------------------------------------------------
(* The calls that only create or give up potential, and the claims *)

LEMMA InitBalanced ==
  ASSUME Init
  PROVE  Balanced
<1> USE DEF Init
<1>1. Sound
  BY InitSound
<1>2. /\ depots \in [Depots -> Depot] /\ fields \in [Fields -> Field]
      /\ actors \in [Actors -> Actor] /\ carcasses \in [Sources -> Carcass]
  BY <1>1, SoundTypes
<1>3. StockOf(depots) = [d \in Depots |-> DepotSpec[d].initial]
  BY DEF StockOf
<1>4. CropsLeft(fields) = [f \in Fields |-> FieldSpec[f].initial]
  BY DEF CropsLeft
<1>5. /\ Total(StolenOf(depots)) = 0 /\ Total(ExportedOf(depots)) = 0
      /\ Total(DeliveredOf(depots)) = 0 /\ Total(ConsumedOf(depots)) = 0
  <2>1. /\ StolenOf(depots) \in [Depots -> Nat] /\ ExportedOf(depots) \in [Depots -> Nat]
        /\ DeliveredOf(depots) \in [Depots -> Nat] /\ ConsumedOf(depots) \in [Depots -> Nat]
    BY <1>2 DEF StolenOf, ExportedOf, DeliveredOf, ConsumedOf, Depot
  <2>2. \A d \in Depots : /\ StolenOf(depots)[d] = 0 /\ ExportedOf(depots)[d] = 0
                          /\ DeliveredOf(depots)[d] = 0 /\ ConsumedOf(depots)[d] = 0
    BY DEF StolenOf, ExportedOf, DeliveredOf, ConsumedOf
  <2>3. IsFiniteSet(Depots)
    BY Domains
  <2>4. ASSUME NEW f \in [Depots -> Nat], \A d \in Depots : f[d] = 0 PROVE Total(f) = 0
    BY <2>3, <2>4, TotalZero
  <2> QED BY <2>1, <2>2, <2>4
<1>6. Total(CargoOf(actors)) = 0
  <2>1. CargoOf(actors) \in [Actors -> Nat] /\ \A a \in Actors : CargoOf(actors)[a] = 0
    BY <1>2 DEF CargoOf, Actor
  <2> QED BY <2>1, Domains, TotalZero
<1>7. Total(MeatLeft(carcasses)) = 0
  <2>1. MeatLeft(carcasses) \in [Sources -> Nat] /\ \A s \in Sources : MeatLeft(carcasses)[s] = 0
    BY <1>2 DEF MeatLeft, Carcass
  <2> QED BY <2>1, Domains, TotalZero
<1>8. InitialFood \in Nat /\ InitialCrops \in Nat
  BY <1>2, TotalsTyped
<1>9. FoodBalance(depots, actors, tally)
  <2>1. Total(StockOf(depots)) = InitialFood
    BY <1>3 DEF InitialFood
  <2> QED BY <1>6, <1>8, <2>1 DEF FoodBalance
<1>10. PotentialBalance(carcasses, fields, tally)
  <2>1. Total(CropsLeft(fields)) = InitialCrops
    BY <1>4 DEF InitialCrops
  <2> QED BY <1>7, <1>8, <2>1 DEF PotentialBalance
<1>11. \A d \in Depots : OwnBalance(d, depots[d])
  BY DepotFacts DEF OwnBalance
<1>12. LedgerTotals(depots, tally)
  BY <1>5 DEF LedgerTotals
<1> QED BY <1>9, <1>10, <1>11, <1>12 DEF Balanced, Balances

LEMMA ClockBalanced ==
  ASSUME Balanced, NEW t, Clock(t)
  PROVE  Balanced'
BY DEF Balanced, Clock, Balances, FoodBalance, PotentialBalance, OwnBalance, LedgerTotals,
       StockOf, StolenOf, ExportedOf, DeliveredOf, ConsumedOf, CargoOf, MeatLeft, CropsLeft

LEMMA ExpireBalanced ==
  ASSUME Sound, Balanced, Expire
  PROVE  Balanced'
<1>1. /\ depots' = depots /\ fields' = ExpiredFields /\ actors' = ExpiredActors
      /\ carcasses' = ExpiredCarcasses /\ tally' = ExpiredTally
  BY DEF Expire
<1>2. Balances(depots, ExpiredFields, ExpiredActors, ExpiredCarcasses, ExpiredTally)
  BY SweepBalances
<1>3. Balances(depots', fields', actors', carcasses', tally')
  BY <1>1, <1>2
<1> QED BY <1>3 DEF Balanced

\* The meat on one carcass, if it has any to give up.
LEMMA MeatOfOne ==
  ASSUME NEW cs \in [Sources -> Carcass], NEW s \in Sources, NEW C \in SUBSET {s},
         s \notin C => cs[s].remaining = 0
  PROVE  MeatOf(cs, C) = cs[s].remaining
<1> DEFINE m == [r \in Sources |-> IF r \in C THEN cs[r].remaining ELSE 0]
<1>1. m \in [Sources -> Nat] /\ m[s] = cs[s].remaining /\ \A r \in Sources \ {s} : m[r] = 0
  BY DEF Carcass
<1>2. IsFiniteSet(Sources)
  BY Domains
<1> HIDE DEF m
<1>3. Total(m) = m[s]
  BY <1>1, <1>2, TotalSingle
<1> QED BY <1>1, <1>3 DEF m, MeatOf

\* A carcass of a new life replaces whatever its source still had.
LEMMA RegisterCarcassBalanced ==
  ASSUME Sound, Sound', Balanced, NEW s \in Sources, NEW life, NEW expires, NEW portions \in Nat,
         RegisterCarcass(s, life, expires, portions)
  PROVE  Balanced'
<1> DEFINE C == {r \in {s} : carcasses[r].active}
           A == Claimants(actors, carcasses, C)
           fresh == [life |-> life, remaining |-> portions, reserved |-> 0,
                     expires |-> expires, active |-> TRUE]
           gone == MeatOf(carcasses, C)
<1>1. /\ depots \in [Depots -> Depot] /\ fields \in [Fields -> Field]
      /\ actors \in [Actors -> Actor] /\ carcasses \in [Sources -> Carcass]
      /\ tally \in Counters /\ carcasses' \in [Sources -> Carcass]
  BY SoundTypes DEF Sound, ClaimBooks
<1>2. /\ depots' = depots /\ fields' = fields /\ actors' = Unclaimed(actors, A)
      /\ carcasses' = [carcasses EXCEPT ![s] = fresh]
      /\ tally' = [tally EXCEPT !.potentialCreated = @ + portions, !.potentialLost = @ + gone]
  BY DEF RegisterCarcass
<1>3. gone = carcasses[s].remaining
  <2>1. s \notin C => carcasses[s].remaining = 0
    BY DEF Sound, ClaimBooks, Exact
  <2> QED BY <1>1, <2>1, MeatOfOne
<1>4. gone \in Nat
  BY <1>1, MeatType
<1> HIDE DEF C, A, gone
<1>5. Total(MeatLeft(carcasses')) + gone = Total(MeatLeft(carcasses)) + portions
  <2>1. /\ carcasses'[s].remaining = portions
        /\ \A r \in Sources \ {s} : carcasses'[r].remaining = carcasses[r].remaining
    BY <1>1, <1>2
  <2> QED BY <1>1, <1>3, <2>1, MeatTotal
<1>6. CargoOf(actors') = CargoOf(actors)
  BY <1>1, <1>2, UnclaimedCargo
<1>7. Balances(depots, fields, actors, carcasses, tally)
  BY DEF Balanced
<1>8. Balances(depots, fields, actors', carcasses', tally')
  BY <1>1, <1>2, <1>4, <1>5, <1>6, <1>7, MeatChanges
<1> QED BY <1>2, <1>8 DEF Balanced

LEMMA CloseCarcassBalanced ==
  ASSUME Sound, Sound', Balanced, NEW s \in Sources, NEW life, CloseCarcass(s, life)
  PROVE  Balanced'
<1> DEFINE A == Claimants(actors, carcasses, {s})
           gone == MeatOf(carcasses, {s})
<1>1. /\ depots \in [Depots -> Depot] /\ fields \in [Fields -> Field]
      /\ actors \in [Actors -> Actor] /\ carcasses \in [Sources -> Carcass]
      /\ tally \in Counters /\ carcasses' \in [Sources -> Carcass]
  BY SoundTypes DEF Sound, ClaimBooks
<1>2. /\ depots' = depots /\ fields' = fields /\ actors' = Unclaimed(actors, A)
      /\ carcasses' = Entombed(Release(actors, carcasses, A), {s})
      /\ tally' = [tally EXCEPT !.potentialLost = @ + gone]
  BY DEF CloseCarcass
<1>3. gone \in Nat
  BY <1>1, MeatType
<1>4. Total(MeatLeft(carcasses)) = Total(MeatLeft(carcasses')) + gone
  BY <1>1, <1>2, ClosedMeat
<1> HIDE DEF A, gone
<1>5. CargoOf(actors') = CargoOf(actors)
  BY <1>1, <1>2, UnclaimedCargo
<1>6. tally' = [tally EXCEPT !.potentialCreated = @ + 0, !.potentialLost = @ + gone]
  <2>1. tally.potentialCreated \in Nat /\ tally.potentialCreated + 0 = tally.potentialCreated
    BY <1>1, TallyTypes
  <2> QED BY <1>1, <1>2, <2>1 DEF Counters
<1>7. Total(MeatLeft(carcasses')) + gone = Total(MeatLeft(carcasses)) + 0
  <2>1. Total(MeatLeft(carcasses)) \in Nat
    BY <1>1, TotalsTyped
  <2> QED BY <1>4, <2>1
<1>8. Balances(depots, fields, actors, carcasses, tally)
  BY DEF Balanced
<1>9. 0 \in Nat
  OBVIOUS
<1>10. Balances(depots, fields, actors', carcasses', tally')
  BY <1>1, <1>3, <1>5, <1>6, <1>7, <1>8, <1>9, MeatChanges
<1> QED BY <1>2, <1>10 DEF Balanced

\* A claim changes a reservation only.
LEMMA ReserveBalanced ==
  ASSUME Sound, Balanced, NEW a \in Actors, NEW s \in Sources, NEW life, NEW requested,
         Reserve(a, s, life, requested)
  PROVE  Balanced'
<1>1. /\ Balances(depots, ExpiredFields, ExpiredActors, ExpiredCarcasses, ExpiredTally)
      /\ ExpiredActors \in [Actors -> Actor] /\ ExpiredCarcasses \in [Sources -> Carcass]
  BY SweptState
<1>2. PICK claim, amount : /\ actors' = [ExpiredActors EXCEPT ![a].pending = claim]
                           /\ carcasses' = [ExpiredCarcasses EXCEPT ![s].reserved = amount]
  BY DEF Reserve
<1>3. depots' = depots /\ fields' = ExpiredFields /\ tally' = ExpiredTally
  BY DEF Reserve
<1>4. CargoOf(actors') = CargoOf(ExpiredActors)
  <2>1. \A b \in Actors : actors'[b].cargo = ExpiredActors[b].cargo
    BY <1>1, <1>2 DEF Actor
  <2> QED BY <2>1 DEF CargoOf
<1>5. MeatLeft(carcasses') = MeatLeft(ExpiredCarcasses)
  <2>1. \A r \in Sources : carcasses'[r].remaining = ExpiredCarcasses[r].remaining
    BY <1>1, <1>2 DEF Carcass
  <2> QED BY <2>1 DEF MeatLeft
<1>6. Balances(depots, ExpiredFields, actors', carcasses', ExpiredTally)
  BY <1>1, <1>4, <1>5, NothingMoves
<1> QED BY <1>3, <1>6 DEF Balanced

LEMMA CancelBalanced ==
  ASSUME Sound, Balanced, NEW a \in Actors, NEW serial, Cancel(a, serial)
  PROVE  Balanced'
<1>1. actors \in [Actors -> Actor] /\ carcasses \in [Sources -> Carcass]
  BY SoundTypes
<1>2. /\ depots' = depots /\ fields' = fields /\ tally' = tally
      /\ actors' = Unclaimed(actors, {a}) /\ carcasses' = Release(actors, carcasses, {a})
  BY DEF Cancel
<1>3. CargoOf(actors') = CargoOf(actors) /\ MeatLeft(carcasses') = MeatLeft(carcasses)
  BY <1>1, <1>2, UnclaimedCargo, ReleasedMeat
<1>4. Balances(depots, fields, actors, carcasses, tally)
  BY DEF Balanced
<1>5. Balances(depots, fields, actors', carcasses', tally)
  BY <1>3, <1>4, NothingMoves
<1> QED BY <1>2, <1>5 DEF Balanced

---------------------------------------------------------------------------
(* The calls that move food *)

\* The types of the state before and after a call.
StateTypes ==
  /\ depots \in [Depots -> Depot] /\ actors \in [Actors -> Actor] /\ tally \in Counters
  /\ depots' \in [Depots -> Depot] /\ actors' \in [Actors -> Actor] /\ tally' \in Counters

LEMMA PairTypes ==
  ASSUME Sound, Sound'
  PROVE  StateTypes
BY DEF StateTypes, Sound, ClaimBooks, StoreBooks

\* What is known of depot d and of the totals before a call.
Account(d) ==
  /\ depots[d].stock \in Nat /\ depots[d].stolen \in Nat /\ depots[d].exported \in Nat
  /\ depots[d].delivered \in Nat /\ depots[d].consumed \in Nat /\ DepotSpec[d].initial \in Nat
  /\ depots[d].stock + depots[d].stolen + depots[d].exported + depots[d].consumed
       = DepotSpec[d].initial + depots[d].delivered
  /\ tally.stolen \in Nat /\ tally.loaded \in Nat /\ tally.delivered \in Nat
  /\ tally.depotConsumed \in Nat /\ tally.consumed \in Nat /\ tally.predatorConsumed \in Nat
  /\ tally.consumed = tally.depotConsumed + tally.predatorConsumed

LEMMA DepotAccount ==
  ASSUME Sound, Balanced, NEW d \in Depots
  PROVE  Account(d)
<1>1. depots[d] \in Depot /\ tally \in Counters
  BY SoundTypes
<1>2. /\ depots[d].stock \in Nat /\ depots[d].stolen \in Nat /\ depots[d].exported \in Nat
      /\ depots[d].delivered \in Nat /\ depots[d].consumed \in Nat /\ DepotSpec[d].initial \in Nat
  BY <1>1, DepotFacts DEF Depot
<1>3. OwnBalance(d, depots[d]) /\ tally.consumed = tally.depotConsumed + tally.predatorConsumed
  BY DEF Balanced, Balances, LedgerTotals
<1> QED BY <1>1, <1>2, <1>3, TallyTypes DEF Account, OwnBalance

\* Potential, harvests and losses stay as they are.
SameFood(tl, tl2) ==
  /\ tl2.harvested = tl.harvested /\ tl2.lost = tl.lost
  /\ tl2.potentialCreated = tl.potentialCreated /\ tl2.potentialLost = tl.potentialLost

\* A call that changes one depot and one actor.
LEMMA DepotEvent ==
  ASSUME Balanced, StateTypes, NEW d \in Depots, NEW a \in Actors, NEW new, NEW saved,
         depots' = [depots EXCEPT ![d] = new], actors' = [actors EXCEPT ![a] = saved],
         fields' = fields, carcasses' = carcasses,
         DepotBooked(d, depots[d], new, tally, tally'),
         new.stock + saved.cargo + tally'.consumed
           = depots[d].stock + actors[a].cargo + tally.consumed
  PROVE  Balanced'
<1>1. /\ depots \in [Depots -> Depot] /\ actors \in [Actors -> Actor] /\ tally \in Counters
      /\ depots' \in [Depots -> Depot] /\ actors' \in [Actors -> Actor] /\ tally' \in Counters
  BY DEF StateTypes
<1>2. new \in Depot /\ actors'[a] = saved /\ OnlyCargo(actors, actors', a)
  BY <1>1 DEF OnlyCargo
<1>3. Balances(depots, fields, actors, carcasses, tally)
  BY DEF Balanced
<1>4. new.stock + actors'[a].cargo + tally'.consumed
        = depots[d].stock + actors[a].cargo + tally.consumed
  BY <1>2
<1>5. Balances([depots EXCEPT ![d] = new], fields, actors', carcasses, tally')
  BY <1>1, <1>2, <1>3, <1>4, DepotMoves
<1>6. Balances(depots', fields', actors', carcasses', tally')
  BY <1>5
<1> QED BY <1>6 DEF Balanced

\* A claim that is honoured turns its portions into cargo or a meal.
LEMMA CommitBalanced ==
  ASSUME Sound, Sound', Balanced, NEW a \in Actors, NEW serial \in Nat, Commit(a, serial)
  PROVE  Balanced'
<1> DEFINE as == ExpiredActors
           cs == ExpiredCarcasses
           claim == as[a].pending
           s == claim.source
           eaten == IF IsPredator(a) THEN claim.amount ELSE 0
           carried == claim.amount - eaten
<1>1. /\ Balances(depots, ExpiredFields, as, cs, ExpiredTally)
      /\ ExpiredFields \in [Fields -> Field] /\ as \in [Actors -> Actor]
      /\ cs \in [Sources -> Carcass] /\ ExpiredTally \in Counters
  BY SweptState
<1>2. /\ depots \in [Depots -> Depot] /\ actors' \in [Actors -> Actor]
      /\ carcasses' \in [Sources -> Carcass] /\ tally' \in Counters
  BY SoundTypes DEF Sound, ClaimBooks, StoreBooks
<1>3. depots' = depots /\ fields' = ExpiredFields
  BY DEF Commit
<1>4. CASE ~Honourable(as, cs, a)
  <2>1. actors' = Unclaimed(as, {a}) /\ carcasses' = Release(as, cs, {a}) /\ tally' = ExpiredTally
    BY <1>4 DEF Commit
  <2>2. CargoOf(actors') = CargoOf(as) /\ MeatLeft(carcasses') = MeatLeft(cs)
    BY <1>1, <2>1, UnclaimedCargo, ReleasedMeat
  <2>3. Balances(depots, ExpiredFields, actors', carcasses', ExpiredTally)
    BY <1>1, <2>2, NothingMoves
  <2> QED BY <1>3, <2>1, <2>3 DEF Balanced
<1>5. CASE Honourable(as, cs, a)
  <2>1. claim # NoClaim /\ claim.amount \in Nat /\ as[a].cargo \in Nat
    BY <1>1 DEF Commit, NoClaim, Actor, Claim
  <2>2. eaten \in Nat /\ carried \in Nat /\ claim.amount = carried + eaten
    BY <2>1
  <2>3. s \in Sources /\ cs[s].remaining \in Nat /\ claim.amount <= cs[s].remaining
    <3>1. ClaimBooks(as, cs)
      BY ExpireSound
    <3> QED BY <1>1, <1>5, <2>1, <3>1 DEF ClaimBooks, GoodClaim, Carcass, Honourable
  <2>4. \E receipt :
          /\ carcasses' = [cs EXCEPT ![s].remaining = @ - claim.amount,
                                     ![s].reserved = @ - claim.amount]
          /\ actors' = [as EXCEPT ![a].pending = NoClaim, ![a].cargo = @ + carried,
                                  ![a].committed = receipt]
          /\ tally' = [ExpiredTally EXCEPT !.harvested = @ + claim.amount,
                                           !.consumed = @ + eaten, !.predatorConsumed = @ + eaten]
    BY <1>5 DEF Commit
  <2> HIDE DEF as, cs, eaten, carried
  <2>5. Harvests(ExpiredTally, tally', carried, eaten)
    BY <2>2, <2>4 DEF Harvests
  <2>6. OnlyCargo(as, actors', a) /\ actors'[a].cargo = as[a].cargo + carried
    <3>1. as \in [Actors -> Actor] /\ as[a] \in Actor
      BY <1>1
    <3>2. PICK receipt : actors' = [as EXCEPT ![a].pending = NoClaim, ![a].cargo = @ + carried,
                                              ![a].committed = receipt]
      BY <2>4
    <3>3. actors'[a].cargo = as[a].cargo + carried
      BY <3>1, <3>2 DEF Actor
    <3>4. \A b \in Actors \ {a} : actors'[b] = as[b]
      BY <3>1, <3>2
    <3> QED BY <3>3, <3>4 DEF OnlyCargo
  <2>7. /\ carcasses'[s].remaining = cs[s].remaining - claim.amount
        /\ \A r \in Sources \ {s} : carcasses'[r].remaining = cs[r].remaining
    <3>1. carcasses' = [cs EXCEPT ![s].remaining = @ - claim.amount,
                                  ![s].reserved = @ - claim.amount]
      BY <2>4
    <3>2. cs \in [Sources -> Carcass] /\ cs[s] \in Carcass
      BY <1>1, <2>3
    <3> HIDE DEF claim, s
    <3>3. carcasses'[s].remaining = cs[s].remaining - claim.amount
      BY <2>3, <3>1, <3>2 DEF Carcass
    <3>4. \A r \in Sources \ {s} : carcasses'[r] = cs[r]
      BY <2>3, <3>1, <3>2
    <3> QED BY <3>3, <3>4
  <2>8. Total(MeatLeft(cs)) + Total(CropsLeft(ExpiredFields))
          = Total(MeatLeft(carcasses')) + Total(CropsLeft(ExpiredFields)) + (carried + eaten)
    <3>1. Total(MeatLeft(carcasses')) + cs[s].remaining = Total(MeatLeft(cs)) + carcasses'[s].remaining
      BY <1>1, <1>2, <2>3, <2>7, MeatTotal
    <3>2. /\ Total(MeatLeft(cs)) \in Nat /\ Total(MeatLeft(carcasses')) \in Nat
          /\ Total(CropsLeft(ExpiredFields)) \in Nat
      BY <1>1, <1>2, TotalsTyped
    <3> DEFINE meat == Total(MeatLeft(cs))
               meat2 == Total(MeatLeft(carcasses'))
               crops == Total(CropsLeft(ExpiredFields))
               rest == cs[s].remaining
               amount == claim.amount
    <3>3. meat2 + rest = meat + (rest - amount) /\ amount = carried + eaten
      BY <2>2, <2>7, <3>1
    <3>4. meat \in Nat /\ meat2 \in Nat /\ crops \in Nat /\ rest \in Nat /\ amount \in Nat
      BY <2>1, <2>3, <3>2
    <3> HIDE DEF meat, meat2, crops, rest, amount
    <3>5. meat + crops = meat2 + crops + amount
      BY <3>3, <3>4
    <3> QED BY <3>3, <3>5 DEF meat, meat2, crops
  <2>9. Balances(depots, ExpiredFields, actors', carcasses', tally')
    BY <1>1, <1>2, <2>2, <2>5, <2>6, <2>8, PotentialHarvested
  <2> QED BY <1>3, <2>9 DEF Balanced
<1> QED BY <1>4, <1>5

\* The cargo of a dead actor is lost.
LEMMA DropCargoBalanced ==
  ASSUME Sound, Sound', Balanced, NEW a \in Actors, DropCargo(a)
  PROVE  Balanced'
<1>1. /\ depots \in [Depots -> Depot] /\ fields \in [Fields -> Field]
      /\ actors \in [Actors -> Actor] /\ carcasses \in [Sources -> Carcass]
      /\ tally \in Counters /\ actors' \in [Actors -> Actor]
  BY SoundTypes DEF Sound, ClaimBooks
<1> DEFINE own == actors[a].cargo
           cargo == Total(CargoOf(actors))
           cargo2 == Total(CargoOf(actors'))
           stock == Total(StockOf(depots))
<1>2. /\ depots' = depots /\ fields' = fields /\ MeatLeft(carcasses') = MeatLeft(carcasses)
      /\ tally' = [tally EXCEPT !.lost = @ + own]
  BY <1>1, ReleasedMeat DEF DropCargo
<1>3. OnlyCargo(actors, actors', a) /\ actors'[a].cargo = 0
  BY <1>1 DEF DropCargo, OnlyCargo, Actor
<1>4. own \in Nat /\ cargo \in Nat /\ cargo2 \in Nat /\ stock \in Nat
  BY <1>1, TotalsTyped DEF Actor
<1>5. cargo2 + own = cargo
  <2>1. cargo2 + own = cargo + actors'[a].cargo
    BY <1>1, <1>3, CargoTotal
  <2> QED BY <1>3, <1>4, <2>1
<1>6. /\ tally'.lost = tally.lost + own
      /\ tally'.potentialCreated = tally.potentialCreated /\ tally'.potentialLost = tally.potentialLost
      /\ tally'.harvested = tally.harvested /\ tally'.consumed = tally.consumed
      /\ tally'.delivered = tally.delivered /\ tally'.stolen = tally.stolen
      /\ tally'.loaded = tally.loaded /\ tally'.predatorConsumed = tally.predatorConsumed
      /\ tally'.depotConsumed = tally.depotConsumed
  BY <1>1, <1>2 DEF Counters
<1>7. InitialFood + tally.harvested = stock + cargo + tally.consumed + tally.lost
  BY DEF Balanced, Balances, FoodBalance
<1>8. tally.lost \in Nat /\ tally.consumed \in Nat
  BY <1>1, TallyTypes
<1>9. ASSUME InitialFood + tally'.harvested = stock + cargo2 + tally'.consumed + tally'.lost
      PROVE  FoodBalance(depots, actors', tally')
  BY <1>9 DEF FoodBalance
<1> HIDE DEF own, cargo, cargo2, stock
<1>10. FoodBalance(depots, actors', tally')
  BY <1>4, <1>5, <1>6, <1>7, <1>8, <1>9
<1>11. PotentialBalance(carcasses', fields, tally')
  BY <1>2, <1>6 DEF Balanced, Balances, PotentialBalance
<1>12. (\A d \in Depots : OwnBalance(d, depots[d])) /\ LedgerTotals(depots, tally')
  BY <1>6 DEF Balanced, Balances, LedgerTotals
<1>13. Balances(depots, fields, actors', carcasses', tally')
  BY <1>10, <1>11, <1>12 DEF Balances
<1> QED BY <1>2, <1>13 DEF Balanced

\* A harvest moves crops into the cargo of the farmer.
LEMMA HarvestFieldBalanced ==
  ASSUME Sound, Sound', Balanced, NEW a \in Actors, NEW serial \in Serials, NEW f \in Fields,
         NEW requested \in Requests, HarvestField(a, serial, f, requested)
  PROVE  Balanced'
<1> DEFINE as == ExpiredActors
           fs == ExpiredFields
           amount == Smaller(requested, Smaller(CargoRoom(a, as[a]), fs[f].remaining))
           new == [fs[f] EXCEPT !.remaining = @ - amount, !.harvested = @ + amount]
<1>1. /\ Balances(depots, fs, as, ExpiredCarcasses, ExpiredTally)
      /\ fs \in [Fields -> Field] /\ as \in [Actors -> Actor]
      /\ ExpiredCarcasses \in [Sources -> Carcass] /\ ExpiredTally \in Counters
  BY SweptState
<1>2. /\ depots \in [Depots -> Depot] /\ actors' \in [Actors -> Actor]
      /\ carcasses' \in [Sources -> Carcass] /\ tally' \in Counters /\ fields' \in [Fields -> Field]
  BY SoundTypes DEF Sound, ClaimBooks, StoreBooks
<1>3. /\ fs[f].remaining \in Nat /\ fs[f].harvested \in Nat /\ as[a].cargo \in Nat
  BY <1>1 DEF Field, Actor
<1>4. amount \in Nat /\ amount <= fs[f].remaining
  <2>1. requested \in Nat /\ CargoRoom(a, as[a]) \in Nat
    BY ExpireSound, RoomType, InputAssumption
  <2> QED BY <1>3, <2>1, SmallerFacts
<1>5. /\ depots' = depots /\ carcasses' = ExpiredCarcasses
      /\ actors' = [as EXCEPT ![a] = SaveEvent([as[a] EXCEPT !.cargo = @ + amount],
                                        serial, "FieldHarvest", f, requested, amount)]
      /\ tally' = [ExpiredTally EXCEPT !.harvested = @ + amount]
  BY DEF HarvestField
<1>6. fields' = [fs EXCEPT ![f] = new] /\ new.remaining = fs[f].remaining - amount
  <2>1. fields' = [fs EXCEPT ![f].remaining = @ - amount, ![f].harvested = @ + amount]
    BY DEF HarvestField
  <2> QED BY <1>1, <2>1 DEF Field
<1> HIDE DEF as, fs, amount
<1>7. OnlyCargo(as, actors', a) /\ actors'[a].cargo = as[a].cargo + amount
  <2> DEFINE saved == SaveEvent([as[a] EXCEPT !.cargo = as[a].cargo + amount],
                                serial, "FieldHarvest", f, requested, amount)
  <2>1. actors' = [as EXCEPT ![a] = saved]
    BY <1>5
  <2>2. saved.cargo = as[a].cargo + amount
    BY <1>1 DEF SaveEvent, Actor
  <2> HIDE DEF saved
  <2> QED BY <1>1, <2>1, <2>2 DEF OnlyCargo
<1>8. new \in Field
  BY <1>2, <1>6
<1> HIDE DEF new
<1>9. Total(MeatLeft(ExpiredCarcasses)) + Total(CropsLeft(fs))
        = Total(MeatLeft(carcasses')) + Total(CropsLeft(fields')) + (amount + 0)
  <2> DEFINE meat == Total(MeatLeft(ExpiredCarcasses))
             crops == Total(CropsLeft(fs))
             crops2 == Total(CropsLeft(fields'))
             rest == fs[f].remaining
  <2>1. crops2 + rest = crops + (rest - amount)
    <3>1. Total(CropsLeft([fs EXCEPT ![f] = new])) + rest = crops + new.remaining
      BY <1>1, <1>8, CropTotal
    <3> QED BY <1>6, <3>1
  <2>2. meat \in Nat /\ crops \in Nat /\ crops2 \in Nat /\ rest \in Nat
    BY <1>1, <1>2, <1>3, TotalsTyped
  <2> HIDE DEF meat, crops, crops2, rest
  <2>3. meat + crops = meat + crops2 + (amount + 0)
    BY <1>4, <2>1, <2>2
  <2> QED BY <1>5, <2>3 DEF meat, crops, crops2
<1>10. Harvests(ExpiredTally, tally', amount, 0)
  <2>1. /\ ExpiredTally.consumed + 0 = ExpiredTally.consumed /\ amount + 0 = amount
        /\ ExpiredTally.predatorConsumed + 0 = ExpiredTally.predatorConsumed
    BY <1>1, <1>4, TallyTypes
  <2> QED BY <1>1, <1>5, <2>1 DEF Harvests, Counters
<1>11. 0 \in Nat
  OBVIOUS
<1>12. Balances(depots, fields', actors', carcasses', tally')
  BY <1>1, <1>2, <1>4, <1>7, <1>9, <1>10, <1>11, PotentialHarvested
<1> QED BY <1>5, <1>12 DEF Balanced

\* A theft moves portions from the depot into the cargo of the raider.
LEMMA StealBalanced ==
  ASSUME Sound, Sound', Balanced, NEW a \in Actors, NEW serial \in Serials, NEW d \in Depots,
         NEW requested \in Requests, Steal(a, serial, d, requested)
  PROVE  Balanced'
<1> DEFINE amount == Smaller(requested, CargoRoom(a, actors[a]))
           old == depots[d]
           new == [old EXCEPT !.stock = @ - amount, !.stolen = @ + amount]
           saved == SaveEvent([actors[a] EXCEPT !.cargo = @ + amount],
                              serial, "Theft", d, requested, amount)
<1>1. StateTypes
  BY PairTypes
<1>2. Account(d) /\ actors[a].cargo \in Nat /\ actors[a] \in Actor
  BY <1>1, DepotAccount DEF Actor, StateTypes
<1>3. amount \in Nat /\ amount <= old.stock
  <2>1. requested \in Nat /\ CargoRoom(a, actors[a]) \in Nat
    BY RoomType, InputAssumption DEF Sound
  <2>2. amount <= old.stock
    BY <1>2 DEF Steal, Affords, Account
  <2> QED BY <2>1, <2>2 DEF Smaller
<1>4. /\ fields' = fields /\ carcasses' = carcasses
      /\ actors' = [actors EXCEPT ![a] = saved] /\ tally' = [tally EXCEPT !.stolen = @ + amount]
  BY DEF Steal
<1>5. depots' = [depots EXCEPT ![d] = new]
  <2>1. depots' = [depots EXCEPT ![d].stock = @ - amount, ![d].stolen = @ + amount]
    BY DEF Steal
  <2> QED BY <1>1, <2>1 DEF StateTypes, Depot
<1> HIDE DEF amount
<1>6. saved.cargo = actors[a].cargo + amount
  BY <1>2 DEF SaveEvent, Actor
<1>7. /\ new.stock = old.stock - amount /\ new.stolen = old.stolen + amount
      /\ new.exported = old.exported /\ new.delivered = old.delivered
      /\ new.consumed = old.consumed
  BY <1>1 DEF StateTypes, Depot
<1>8. /\ tally'.stolen = tally.stolen + amount /\ SameFood(tally, tally')
      /\ tally'.loaded = tally.loaded /\ tally'.delivered = tally.delivered
      /\ tally'.depotConsumed = tally.depotConsumed /\ tally'.consumed = tally.consumed
      /\ tally'.predatorConsumed = tally.predatorConsumed
  BY <1>1, <1>4 DEF StateTypes, Counters, SameFood
<1> HIDE DEF saved, new, old
<1>9. DepotBooked(d, old, new, tally, tally')
  BY <1>2, <1>3, <1>7, <1>8 DEF DepotBooked, SameFood, OwnBalance, Account, old
<1>10. new.stock + saved.cargo + tally'.consumed = old.stock + actors[a].cargo + tally.consumed
  BY <1>2, <1>3, <1>6, <1>7, <1>8 DEF Account, old
<1> QED BY <1>1, <1>4, <1>5, <1>9, <1>10, DepotEvent DEF old

\* A loading moves portions from the depot into the cargo of the carrier.
LEMMA LoadBalanced ==
  ASSUME Sound, Sound', Balanced, NEW a \in Actors, NEW serial \in Serials, NEW d \in Depots,
         NEW requested \in Requests, Load(a, serial, d, requested)
  PROVE  Balanced'
<1> DEFINE amount == Smaller(requested, Smaller(CargoRoom(a, actors[a]), Surplus(d)))
           old == depots[d]
           new == [old EXCEPT !.stock = @ - amount, !.exported = @ + amount]
           saved == SaveEvent([actors[a] EXCEPT !.cargo = @ + amount],
                              serial, "Loading", d, requested, amount)
<1>1. StateTypes
  BY PairTypes
<1>2. Account(d) /\ actors[a].cargo \in Nat /\ actors[a] \in Actor
  BY <1>1, DepotAccount DEF Actor, StateTypes
<1>3. amount \in Nat /\ amount <= old.stock
  <2>1. requested \in Nat /\ CargoRoom(a, actors[a]) \in Nat
    BY RoomType, InputAssumption DEF Sound
  <2>2. Surplus(d) \in Nat /\ Surplus(d) <= old.stock
    BY <1>2, DepotFacts DEF Surplus, Account
  <2>3. amount \in Nat /\ amount <= Surplus(d)
    BY <2>1, <2>2, SmallerFacts
  <2>4. old.stock \in Nat
    BY <1>2 DEF Account
  <2> HIDE DEF amount, old
  <2> QED BY <2>2, <2>3, <2>4
<1>4. /\ fields' = fields /\ carcasses' = carcasses
      /\ actors' = [actors EXCEPT ![a] = saved] /\ tally' = [tally EXCEPT !.loaded = @ + amount]
  BY DEF Load
<1>5. depots' = [depots EXCEPT ![d] = new]
  <2>1. depots' = [depots EXCEPT ![d].stock = @ - amount, ![d].exported = @ + amount]
    BY DEF Load
  <2> QED BY <1>1, <2>1 DEF StateTypes, Depot
<1> HIDE DEF amount
<1>6. saved.cargo = actors[a].cargo + amount
  BY <1>2 DEF SaveEvent, Actor
<1>7. /\ new.stock = old.stock - amount /\ new.exported = old.exported + amount
      /\ new.stolen = old.stolen /\ new.delivered = old.delivered
      /\ new.consumed = old.consumed
  BY <1>1 DEF StateTypes, Depot
<1>8. /\ tally'.loaded = tally.loaded + amount /\ SameFood(tally, tally')
      /\ tally'.stolen = tally.stolen /\ tally'.delivered = tally.delivered
      /\ tally'.depotConsumed = tally.depotConsumed /\ tally'.consumed = tally.consumed
      /\ tally'.predatorConsumed = tally.predatorConsumed
  BY <1>1, <1>4 DEF StateTypes, Counters, SameFood
<1> HIDE DEF saved, new, old
<1>9. DepotBooked(d, old, new, tally, tally')
  BY <1>2, <1>3, <1>7, <1>8 DEF DepotBooked, SameFood, OwnBalance, Account, old
<1>10. new.stock + saved.cargo + tally'.consumed = old.stock + actors[a].cargo + tally.consumed
  BY <1>2, <1>3, <1>6, <1>7, <1>8 DEF Account, old
<1> QED BY <1>1, <1>4, <1>5, <1>9, <1>10, DepotEvent DEF old

\* A delivery moves portions from the cargo into the depot.
LEMMA DeliverBalanced ==
  ASSUME Sound, Sound', Balanced, NEW a \in Actors, NEW serial \in Serials, NEW d \in Depots,
         NEW requested \in Requests, Deliver(a, serial, d, requested)
  PROVE  Balanced'
<1> DEFINE amount == Smaller(requested, Smaller(actors[a].cargo, DepotRoom(d)))
           old == depots[d]
           new == [old EXCEPT !.stock = @ + amount, !.delivered = @ + amount]
           saved == SaveEvent([actors[a] EXCEPT !.cargo = @ - amount],
                              serial, "Delivery", d, requested, amount)
<1>1. StateTypes
  BY PairTypes
<1>2. Account(d) /\ actors[a].cargo \in Nat /\ actors[a] \in Actor
  BY <1>1, DepotAccount DEF Actor, StateTypes
<1>3. amount \in Nat /\ amount <= actors[a].cargo
  <2>1. requested \in Nat /\ DepotRoom(d) \in Nat
    <3>1. depots[d].stock \in Nat /\ depots[d].stock <= DepotSpec[d].capacity
      BY <1>2 DEF Account, Sound, StoreBooks
    <3> QED BY <3>1, DepotFacts, InputAssumption DEF DepotRoom
  <2> QED BY <1>2, <2>1, SmallerFacts
<1>4. /\ fields' = fields /\ carcasses' = carcasses
      /\ actors' = [actors EXCEPT ![a] = saved] /\ tally' = [tally EXCEPT !.delivered = @ + amount]
  BY DEF Deliver
<1>5. depots' = [depots EXCEPT ![d] = new]
  <2>1. depots' = [depots EXCEPT ![d].stock = @ + amount, ![d].delivered = @ + amount]
    BY DEF Deliver
  <2> QED BY <1>1, <2>1 DEF StateTypes, Depot
<1> HIDE DEF amount
<1>6. saved.cargo = actors[a].cargo - amount
  BY <1>2 DEF SaveEvent, Actor
<1>7. /\ new.stock = old.stock + amount /\ new.delivered = old.delivered + amount
      /\ new.stolen = old.stolen /\ new.exported = old.exported
      /\ new.consumed = old.consumed
  BY <1>1 DEF StateTypes, Depot
<1>8. /\ tally'.delivered = tally.delivered + amount /\ SameFood(tally, tally')
      /\ tally'.stolen = tally.stolen /\ tally'.loaded = tally.loaded
      /\ tally'.depotConsumed = tally.depotConsumed /\ tally'.consumed = tally.consumed
      /\ tally'.predatorConsumed = tally.predatorConsumed
  BY <1>1, <1>4 DEF StateTypes, Counters, SameFood
<1> HIDE DEF saved, new, old
<1>9. DepotBooked(d, old, new, tally, tally')
  <2>1. OwnBalance(d, new)
    <3>1. actors[a].cargo \in Nat /\ amount \in Nat
      BY <1>2, <1>3
    <3> QED BY <1>2, <3>1, <1>7 DEF OwnBalance, Account, old
  <2>2. tally'.delivered + old.delivered = tally.delivered + new.delivered
    BY <1>2, <1>3, <1>7, <1>8 DEF Account, old
  <2> QED BY <1>2, <1>7, <1>8, <2>1, <2>2 DEF DepotBooked, SameFood, Account, old
<1>10. new.stock + saved.cargo + tally'.consumed = old.stock + actors[a].cargo + tally.consumed
  BY <1>2, <1>3, <1>6, <1>7, <1>8 DEF Account, old
<1> QED BY <1>1, <1>4, <1>5, <1>9, <1>10, DepotEvent DEF old

\* A meal takes portions from the depot and books them as eaten there.
LEMMA EatDepotBalanced ==
  ASSUME Sound, Sound', Balanced, NEW a \in Actors, NEW serial \in Serials, NEW d \in Depots,
         NEW portions \in Requests, EatDepot(a, serial, d, portions)
  PROVE  Balanced'
<1> DEFINE old == depots[d]
           new == [old EXCEPT !.stock = @ - portions, !.consumed = @ + portions]
           saved == SaveEvent(actors[a], serial, "Meal", d, portions, portions)
<1>1. StateTypes
  BY PairTypes
<1>2. Account(d) /\ actors[a].cargo \in Nat /\ actors[a] \in Actor
  BY <1>1, DepotAccount DEF Actor, StateTypes
<1>3. portions \in Nat /\ portions <= old.stock
  <2>1. portions \in Nat
    BY InputAssumption
  <2> QED BY <1>2, <2>1 DEF EatDepot, Affords, Account
<1>4. /\ fields' = fields /\ carcasses' = carcasses
      /\ actors' = [actors EXCEPT ![a] = saved]
      /\ tally' = [tally EXCEPT !.consumed = @ + portions, !.depotConsumed = @ + portions]
  BY DEF EatDepot
<1>5. depots' = [depots EXCEPT ![d] = new]
  <2>1. depots' = [depots EXCEPT ![d].stock = @ - portions, ![d].consumed = @ + portions]
    BY DEF EatDepot
  <2> QED BY <1>1, <2>1 DEF StateTypes, Depot
<1>6. saved.cargo = actors[a].cargo
  BY <1>2 DEF SaveEvent, Actor
<1>7. /\ new.stock = old.stock - portions /\ new.consumed = old.consumed + portions
      /\ new.stolen = old.stolen /\ new.exported = old.exported
      /\ new.delivered = old.delivered
  BY <1>1 DEF StateTypes, Depot
<1>8. /\ tally'.consumed = tally.consumed + portions
      /\ tally'.depotConsumed = tally.depotConsumed + portions /\ SameFood(tally, tally')
      /\ tally'.stolen = tally.stolen /\ tally'.loaded = tally.loaded
      /\ tally'.delivered = tally.delivered
      /\ tally'.predatorConsumed = tally.predatorConsumed
  BY <1>1, <1>4 DEF StateTypes, Counters, SameFood
<1> HIDE DEF saved, new, old
<1>9. DepotBooked(d, old, new, tally, tally')
  BY <1>2, <1>3, <1>7, <1>8 DEF DepotBooked, SameFood, OwnBalance, Account, old
<1>10. new.stock + saved.cargo + tally'.consumed = old.stock + actors[a].cargo + tally.consumed
  BY <1>2, <1>3, <1>6, <1>7, <1>8 DEF Account, old
<1> QED BY <1>1, <1>4, <1>5, <1>9, <1>10, DepotEvent DEF old

\* The balances are kept by every call.
LEMMA NextBalanced ==
  ASSUME Sound, Sound', Balanced, [Next]_vars
  PROVE  Balanced'
<1>1. CASE \E t \in Times : Clock(t)
  BY <1>1, ClockBalanced
<1>2. CASE Expire
  BY <1>2, ExpireBalanced
<1>3. ASSUME NEW s \in Sources, NEW life \in Lives, OnCarcass(s, life) PROVE Balanced'
  <2>1. CASE \E t \in Times : RegisterCarcass(s, life, t, CarcassPortions)
    <3>1. CarcassPortions \in Nat
      BY PortionAssumption
    <3> QED BY <2>1, <3>1, RegisterCarcassBalanced
  <2>2. CASE CloseCarcass(s, life)
    BY <2>2, CloseCarcassBalanced
  <2>3. CASE \E a \in Actors, n \in Requests : Reserve(a, s, life, n)
    BY <2>3, ReserveBalanced
  <2> QED BY <1>3, <2>1, <2>2, <2>3 DEF OnCarcass
<1>4. ASSUME NEW a \in Actors, ByActor(a) PROVE Balanced'
  <2>1. CASE \E n \in 1..nextClaim : Commit(a, n) \/ Cancel(a, n)
    <3>1. \A n \in 1..nextClaim : n \in Nat
      BY DEF Sound, StoreBooks
    <3> QED BY <2>1, <3>1, CommitBalanced, CancelBalanced
  <2>2. CASE DropCargo(a)
    BY <2>2, DropCargoBalanced
  <2>3. ASSUME NEW n \in Serials, NEW requested \in Requests, Completed(a, n, requested)
        PROVE  Balanced'
    BY <2>3, HarvestFieldBalanced, StealBalanced, LoadBalanced, DeliverBalanced, EatDepotBalanced
       DEF Completed
  <2> QED BY <1>4, <2>1, <2>2, <2>3 DEF ByActor
<1>5. CASE UNCHANGED vars
  BY <1>5 DEF vars, Balanced, Balances, FoodBalance, PotentialBalance, OwnBalance, LedgerTotals,
              StockOf, StolenOf, ExportedOf, DeliveredOf, ConsumedOf, CargoOf, MeatLeft, CropsLeft
<1> QED BY <1>1, <1>2, <1>3, <1>4, <1>5 DEF Next

\* The balances hold in every reachable state.
LEMMA LedgerBalanced == Spec => []Balanced
<1>1. Init => Balanced
  BY InitBalanced
<1>2. Balanced /\ Sound /\ Sound' /\ [Next]_vars => Balanced'
  BY NextBalanced
<1> QED BY <1>1, <1>2, LedgerSound, PTL DEF Spec

\* No order of calls, sweeps and deaths makes or loses a portion of food or of
\* potential (Ledger::Conserved and PotentialConserved).
THEOREM LedgerFood == Spec => []FoodAccounted
<1>1. Balanced => FoodAccounted
  BY BalancedSplit
<1> QED BY <1>1, LedgerBalanced, PTL

\* Every movement is booked at its depot and in the totals (the counters of
\* Steal, Load, Deliver and EatDepot).
THEOREM LedgerBooks == Spec => []DepotBooks
<1>1. Balanced => DepotBooks
  BY BalancedSplit
<1> QED BY <1>1, LedgerBalanced, PTL

---------------------------------------------------------------------------
(* Completed events.  That an event moves food once is inductive only with *)
(* the watermark: no serial above it has moved anything yet.               *)

Journal(as, mv) ==
  \A a \in Actors :
    /\ \A n \in Serials : /\ mv[a][n].times <= 1
                          /\ n > as[a].lastSerial => mv[a][n] = NoMove
    /\ as[a].lastEvent # NoEvent =>
         mv[a][as[a].lastEvent.serial] = [times |-> 1, portions |-> as[a].lastEvent.portions]

\* The watermarks and the receipts stay as they are.
SameJournal(as, as2) ==
  \A a \in Actors : as2[a].lastSerial = as[a].lastSerial /\ as2[a].lastEvent = as[a].lastEvent

LEMMA QuietJournal ==
  ASSUME NEW as, NEW as2, NEW mv, Journal(as, mv), SameJournal(as, as2)
  PROVE  Journal(as2, mv)
BY DEF Journal, SameJournal

LEMMA UnclaimedJournal ==
  ASSUME NEW as \in [Actors -> Actor], NEW A
  PROVE  SameJournal(as, Unclaimed(as, A))
BY DEF SameJournal, Unclaimed, Actor

\* A fresh event is recorded once, whatever the call does before it.
LEMMA EventJournal ==
  ASSUME moved \in [Actors -> [Serials -> Move]], Journal(actors, moved),
         NEW as \in [Actors -> Actor], SameJournal(actors, as),
         NEW a \in Actors, NEW serial \in Serials, Fresh(a, serial),
         NEW loaded \in Actor, NEW kind, NEW place, NEW requested, NEW portions \in Nat,
         actors' = [as EXCEPT ![a] = SaveEvent(loaded, serial, kind, place, requested, portions)],
         Record(a, serial, portions)
  PROVE  Journal(actors', moved')
<1> DEFINE new == SaveEvent(loaded, serial, kind, place, requested, portions)
           once == [times |-> 1, portions |-> portions]
<1>1. new.lastSerial = serial /\ new.lastEvent.serial = serial /\ new.lastEvent.portions = portions
  BY DEF SaveEvent, Actor
<1>2. actors' = [as EXCEPT ![a] = new]
  OBVIOUS
<1> HIDE DEF new
<1>3. moved[a][serial] = NoMove
  BY DEF Journal, Fresh
<1>4. moved' = [moved EXCEPT ![a][serial] = once]
  BY <1>3 DEF Record, NoMove
<1>5. /\ \A b \in Actors \ {a} : moved'[b] = moved[b]
      /\ moved'[a][serial] = once
      /\ \A n \in Serials \ {serial} : moved'[a][n] = moved[a][n]
  BY <1>4
<1>6. /\ \A b \in Actors \ {a} : actors'[b] = as[b]
      /\ actors'[a] = new
  BY <1>2
<1>7. ASSUME NEW b \in Actors
      PROVE  /\ \A n \in Serials : /\ moved'[b][n].times <= 1
                                   /\ n > actors'[b].lastSerial => moved'[b][n] = NoMove
             /\ actors'[b].lastEvent # NoEvent =>
                  moved'[b][actors'[b].lastEvent.serial]
                    = [times |-> 1, portions |-> actors'[b].lastEvent.portions]
  <2>1. CASE b # a
    <3>1. moved'[b] = moved[b] /\ actors'[b] = as[b]
      BY <1>5, <1>6, <2>1
    <3>2. actors'[b].lastSerial = actors[b].lastSerial /\ actors'[b].lastEvent = actors[b].lastEvent
      BY <3>1 DEF SameJournal
    <3>3. /\ \A n \in Serials : /\ moved[b][n].times <= 1
                                /\ n > actors[b].lastSerial => moved[b][n] = NoMove
          /\ actors[b].lastEvent # NoEvent =>
               moved[b][actors[b].lastEvent.serial]
                 = [times |-> 1, portions |-> actors[b].lastEvent.portions]
      BY DEF Journal
    <3> QED BY <3>1, <3>2, <3>3, Zenon
  <2>2. CASE b = a
    <3>1. ASSUME NEW n \in Serials
          PROVE  moved'[a][n].times <= 1 /\ (n > serial => moved'[a][n] = NoMove)
      <4>1. CASE n = serial
        <5>1. ~(n > serial)
          BY <4>1, InputAssumption
        <5> QED BY <1>5, <4>1, <5>1
      <4>2. CASE n # serial
        <5>1. n > serial => n > actors[a].lastSerial
          <6>1. as[a].lastSerial = actors[a].lastSerial /\ as[a].lastSerial \in Nat
            BY DEF SameJournal, Actor
          <6> QED BY <6>1, InputAssumption DEF Fresh
        <5> QED BY <1>5, <4>2, <5>1 DEF Journal
      <4> QED BY <4>1, <4>2
    <3> QED BY <1>1, <1>5, <1>6, <2>2, <3>1
  <2> QED BY <2>1, <2>2
<1> QED BY <1>7 DEF Journal

JournalKept == Journal(actors, moved)

LEMMA NextJournal ==
  ASSUME Sound, JournalKept, [Next]_vars
  PROVE  JournalKept'
<1> DEFINE as == ExpiredActors
<1>1. /\ actors \in [Actors -> Actor] /\ moved \in [Actors -> [Serials -> Move]]
      /\ as \in [Actors -> Actor]
  BY ExpireSound DEF Sound, ClaimBooks, StoreBooks
<1>2. SameJournal(actors, as)
  BY <1>1, UnclaimedJournal DEF ExpiredActors
<1>3. ASSUME SameJournal(actors, actors'), moved' = moved PROVE JournalKept'
  BY <1>3, QuietJournal DEF JournalKept
<1>4. SameJournal(actors, actors)
  BY DEF SameJournal
<1> HIDE DEF as
<1>5. CASE \E t \in Times : Clock(t)
  BY <1>3, <1>4, <1>5 DEF Clock
<1>6. CASE Expire
  BY <1>2, <1>3, <1>6 DEF Expire, as
<1>7. ASSUME NEW s \in Sources, NEW life \in Lives, OnCarcass(s, life) PROVE JournalKept'
  <2>1. CASE \E t \in Times : RegisterCarcass(s, life, t, CarcassPortions)
    <3>1. moved' = moved /\ \E A : actors' = Unclaimed(actors, A)
      BY <2>1 DEF RegisterCarcass
    <3> QED BY <1>1, <1>3, <3>1, UnclaimedJournal
  <2>2. CASE CloseCarcass(s, life)
    <3>1. moved' = moved /\ \E A : actors' = Unclaimed(actors, A)
      BY <2>2 DEF CloseCarcass
    <3> QED BY <1>1, <1>3, <3>1, UnclaimedJournal
  <2>3. CASE \E a \in Actors, n \in Requests : Reserve(a, s, life, n)
    <3>1. PICK a \in Actors : \E n \in Requests : Reserve(a, s, life, n)
      BY <2>3
    <3>2. PICK claim : moved' = moved /\ actors' = [as EXCEPT ![a].pending = claim]
      BY <3>1 DEF Reserve, as
    <3>3. SameJournal(as, actors')
      <4>1. \A b \in Actors \ {a} : actors'[b] = as[b]
        BY <1>1, <3>2
      <4>2. actors'[a].lastSerial = as[a].lastSerial /\ actors'[a].lastEvent = as[a].lastEvent
        BY <1>1, <3>2 DEF Actor
      <4> QED BY <4>1, <4>2 DEF SameJournal
    <3>4. SameJournal(actors, actors')
      BY <1>2, <3>3 DEF SameJournal
    <3> QED BY <1>3, <3>2, <3>4
  <2> QED BY <1>7, <2>1, <2>2, <2>3 DEF OnCarcass
<1>8. ASSUME NEW a \in Actors, ByActor(a) PROVE JournalKept'
  <2>1. ASSUME NEW n, Commit(a, n) PROVE JournalKept'
    <3>1. moved' = moved
      BY <2>1 DEF Commit
    <3>2. SameJournal(as, actors')
      <4>1. CASE actors' = Unclaimed(as, {a})
        BY <1>1, <4>1, UnclaimedJournal
      <4>2. ASSUME NEW cargo, NEW receipt,
                   actors' = [as EXCEPT ![a].pending = NoClaim, ![a].cargo = cargo,
                                        ![a].committed = receipt]
            PROVE  SameJournal(as, actors')
        BY <1>1, <4>2 DEF SameJournal, Actor
      <4>3. actors' = Unclaimed(as, {a}) \/
              \E cargo, receipt : actors' = [as EXCEPT ![a].pending = NoClaim, ![a].cargo = cargo,
                                                       ![a].committed = receipt]
        <5>1. CASE Honourable(as, ExpiredCarcasses, a)
          <6>1. actors' = [as EXCEPT ![a].pending = NoClaim,
                     ![a].cargo = @ + (as[a].pending.amount
                                       - (IF IsPredator(a) THEN as[a].pending.amount ELSE 0)),
                     ![a].committed = [serial |-> n, portions |-> as[a].pending.amount]]
            BY <2>1, <5>1 DEF Commit, as
          <6> QED BY <6>1
        <5>2. CASE ~Honourable(as, ExpiredCarcasses, a)
          BY <2>1, <5>2 DEF Commit, as
        <5> QED BY <5>1, <5>2
      <4> QED BY <4>1, <4>2, <4>3
    <3>3. SameJournal(actors, actors')
      BY <1>2, <3>2 DEF SameJournal
    <3> QED BY <1>3, <3>1, <3>3
  <2>2. ASSUME NEW n, Cancel(a, n) PROVE JournalKept'
    BY <1>1, <1>3, <2>2, UnclaimedJournal DEF Cancel
  <2>3. CASE DropCargo(a)
    <3>1. /\ moved' = moved
          /\ actors' = [actors EXCEPT ![a] = [@ EXCEPT !.pending = NoClaim, !.cargo = 0,
                                              !.committed = NoCommit, !.lastEvent = NoEvent]]
      BY <2>3 DEF DropCargo
    <3>2. /\ actors'[a].lastSerial = actors[a].lastSerial /\ actors'[a].lastEvent = NoEvent
          /\ \A b \in Actors \ {a} : actors'[b] = actors[b]
      BY <1>1, <3>1 DEF Actor
    <3>3. ASSUME NEW b \in Actors
          PROVE  /\ actors'[b].lastSerial = actors[b].lastSerial
                 /\ actors'[b].lastEvent # NoEvent => actors'[b].lastEvent = actors[b].lastEvent
      BY <3>2
    <3> QED BY <3>1, <3>3 DEF JournalKept, Journal
  <2>4. ASSUME NEW serial \in Serials, NEW requested \in Requests, Completed(a, serial, requested)
        PROVE  JournalKept'
    <3>1. requested \in Nat /\ actors[a] \in Actor /\ as[a] \in Actor
          /\ actors[a].cargo \in Nat /\ as[a].cargo \in Nat
      BY <1>1, InputAssumption DEF Actor
    <3>2. CargoRoom(a, actors[a]) \in Nat /\ CargoRoom(a, as[a]) \in Nat
      BY ExpireSound, RoomType DEF Sound, as
    <3>3. ASSUME NEW f \in Fields, HarvestField(a, serial, f, requested) PROVE JournalKept'
      <4> DEFINE amount == Smaller(requested, Smaller(CargoRoom(a, as[a]), ExpiredFields[f].remaining))
                 loaded == [as[a] EXCEPT !.cargo = @ + amount]
      <4>1. /\ actors' = [as EXCEPT ![a] = SaveEvent(loaded, serial, "FieldHarvest", f, requested, amount)]
            /\ Record(a, serial, amount) /\ Fresh(a, serial)
        BY <3>3 DEF HarvestField, as
      <4>2. amount \in Nat
        <5>1. ExpiredFields[f].remaining \in Nat
          BY ExpireSound DEF StoreBooks, Field
        <5> QED BY <3>1, <3>2, <5>1, SmallerFacts
      <4> HIDE DEF amount
      <4>3. loaded \in Actor
        BY <3>1, <4>2, Portions DEF Actor
      <4> HIDE DEF loaded
      <4> QED BY <1>1, <1>2, <4>1, <4>2, <4>3, EventJournal DEF JournalKept
    <3>4. ASSUME NEW d \in Depots, Steal(a, serial, d, requested) PROVE JournalKept'
      <4> DEFINE amount == Smaller(requested, CargoRoom(a, actors[a]))
                 loaded == [actors[a] EXCEPT !.cargo = @ + amount]
      <4>1. /\ actors' = [actors EXCEPT ![a] = SaveEvent(loaded, serial, "Theft", d, requested, amount)]
            /\ Record(a, serial, amount) /\ Fresh(a, serial)
        BY <3>4 DEF Steal
      <4>2. amount \in Nat
        BY <3>1, <3>2 DEF Smaller
      <4> HIDE DEF amount
      <4>3. loaded \in Actor
        BY <3>1, <4>2, Portions DEF Actor
      <4> HIDE DEF loaded
      <4> QED BY <1>1, <1>4, <4>1, <4>2, <4>3, EventJournal DEF JournalKept
    <3>5. ASSUME NEW d \in Depots, Load(a, serial, d, requested) PROVE JournalKept'
      <4> DEFINE amount == Smaller(requested, Smaller(CargoRoom(a, actors[a]), Surplus(d)))
                 loaded == [actors[a] EXCEPT !.cargo = @ + amount]
      <4>1. /\ actors' = [actors EXCEPT ![a] = SaveEvent(loaded, serial, "Loading", d, requested, amount)]
            /\ Record(a, serial, amount) /\ Fresh(a, serial)
        BY <3>5 DEF Load
      <4>2. amount \in Nat
        <5>1. Surplus(d) \in Nat
          BY DepotFacts DEF Surplus, Sound, StoreBooks, Depot
        <5> QED BY <3>1, <3>2, <5>1, SmallerFacts
      <4> HIDE DEF amount
      <4>3. loaded \in Actor
        BY <3>1, <4>2, Portions DEF Actor
      <4> HIDE DEF loaded
      <4> QED BY <1>1, <1>4, <4>1, <4>2, <4>3, EventJournal DEF JournalKept
    <3>6. ASSUME NEW d \in Depots, Deliver(a, serial, d, requested) PROVE JournalKept'
      <4> DEFINE amount == Smaller(requested, Smaller(actors[a].cargo, DepotRoom(d)))
                 loaded == [actors[a] EXCEPT !.cargo = @ - amount]
      <4>1. /\ actors' = [actors EXCEPT ![a] = SaveEvent(loaded, serial, "Delivery", d, requested, amount)]
            /\ Record(a, serial, amount) /\ Fresh(a, serial)
        BY <3>6 DEF Deliver
      <4>2. amount \in Nat /\ amount <= actors[a].cargo
        <5>1. DepotRoom(d) \in Nat
          BY DepotFacts, Portions DEF DepotRoom, Sound, StoreBooks, Depot
        <5> QED BY <3>1, <5>1, SmallerFacts
      <4> HIDE DEF amount
      <4>3. loaded \in Actor
        <5>1. actors[a].cargo - amount \in Nat
          BY <3>1, <4>2, Portions, Zenon
        <5> QED BY <3>1, <5>1 DEF Actor
      <4> HIDE DEF loaded
      <4> QED BY <1>1, <1>4, <4>1, <4>2, <4>3, EventJournal DEF JournalKept
    <3>7. ASSUME NEW d \in Depots, EatDepot(a, serial, d, requested) PROVE JournalKept'
      <4>1. /\ actors' = [actors EXCEPT ![a] = SaveEvent(actors[a], serial, "Meal", d, requested, requested)]
            /\ Record(a, serial, requested) /\ Fresh(a, serial)
        BY <3>7 DEF EatDepot
      <4> QED BY <1>1, <1>4, <3>1, <4>1, EventJournal DEF JournalKept
    <3> QED BY <2>4, <3>3, <3>4, <3>5, <3>6, <3>7 DEF Completed
  <2> QED BY <1>8, <2>1, <2>2, <2>3, <2>4 DEF ByActor
<1>9. CASE UNCHANGED vars
  BY <1>3, <1>4, <1>9 DEF vars
<1> QED BY <1>5, <1>6, <1>7, <1>8, <1>9 DEF Next

\* An event serial moves food once, over all kinds of events and across deaths,
\* and its receipt tells what it moved (ReplayEvent and SaveEvent).
THEOREM LedgerEvents == Spec => []EventsOnce
<1>1. Init => JournalKept
  <2> SUFFICES ASSUME Init PROVE JournalKept
    OBVIOUS
  <2>1. \A a \in Actors : actors[a].lastEvent = NoEvent
    BY DEF Init
  <2>2. \A a \in Actors, n \in Serials : moved[a][n] = NoMove /\ NoMove.times <= 1
    BY DEF Init, NoMove
  <2> QED BY <2>1, <2>2 DEF JournalKept, Journal
<1>2. JournalKept /\ Sound /\ [Next]_vars => JournalKept'
  BY NextJournal
<1>3. JournalKept => EventsOnce
  BY DEF JournalKept, Journal, EventsOnce
<1> QED BY <1>1, <1>2, <1>3, LedgerSound, PTL DEF Spec

---------------------------------------------------------------------------
(* Crops and the clock *)

\* Growing g more portions takes g more periods.
LEMMA PeriodsAdd ==
  ASSUME NEW k \in Nat, NEW g \in Nat, NEW p \in Nat
  PROVE  (k + g) * p = k * p + g * p /\ k * p \in Nat /\ g * p \in Nat
OBVIOUS

\* No more whole periods than the time that has passed.
LEMMA WholePeriods ==
  ASSUME NEW m \in Nat, NEW p \in Nat, p > 0, NEW g \in Nat, g <= m \div p
  PROVE  g * p <= m
<1> DEFINE q == m \div p
<1>1. q \in Nat /\ q * p <= m
  OBVIOUS
<1>2. g <= q
  OBVIOUS
<1> HIDE DEF q
<1>3. g * p <= q * p
  <2>1. q - g \in Nat /\ q = g + (q - g)
    BY <1>1, <1>2
  <2>2. q * p = g * p + (q - g) * p /\ (q - g) * p \in Nat /\ g * p \in Nat
    <3>1. (g + (q - g)) * p = g * p + (q - g) * p /\ (q - g) * p \in Nat /\ g * p \in Nat
      BY <2>1, PeriodsAdd
    <3> QED BY <2>1, <3>1
  <2> QED BY <2>2
<1>4. g * p \in Nat /\ q * p \in Nat
  BY <1>1, PeriodsAdd
<1> QED BY <1>1, <1>3, <1>4

\* A field that has not outrun the clock.
Pace(f, field) ==
  /\ field.last >= StartMs
  /\ field.regrown * FieldSpec[f].regrow <= field.last - StartMs
  /\ field.remaining + field.harvested = FieldSpec[f].initial + field.regrown

LEMMA RegrowPace ==
  ASSUME NEW f \in Fields, NEW field \in Field, NEW t \in Nat,
         field.remaining <= FieldSpec[f].capacity, Pace(f, field)
  PROVE  Pace(f, Regrow(f, field, t))
<1> DEFINE growth == Growth(f, field, t)
           p == FieldSpec[f].regrow
           after == Regrow(f, field, t)
           full == field.remaining + growth = FieldSpec[f].capacity
<1>1. /\ field.last \in Nat /\ field.remaining \in Nat /\ field.regrown \in Nat
      /\ field.harvested \in Nat /\ p \in Nat /\ p > 0 /\ StartMs \in Nat
      /\ FieldSpec[f].initial \in Nat
  BY FieldFacts, InputAssumption DEF Field
<1>2. growth \in Nat
  BY GrowthType
<1>3. /\ after.remaining = field.remaining + growth /\ after.regrown = field.regrown + growth
      /\ after.harvested = field.harvested
  BY RegrowAmounts
<1>4. after.remaining + after.harvested = FieldSpec[f].initial + after.regrown
  <2>1. field.remaining + field.harvested = FieldSpec[f].initial + field.regrown
    BY DEF Pace
  <2> HIDE DEF growth, after
  <2> QED BY <1>1, <1>2, <1>3, <2>1
<1>5. CASE t <= field.last \/ (growth = 0 /\ ~full)
  <2>1. after = field
    BY <1>5 DEF Regrow
  <2> QED BY <2>1
<1>6. CASE ~(t <= field.last \/ (growth = 0 /\ ~full))
  <2>1. after.last = IF full THEN t ELSE field.last + growth * p
    <3>1. after = [field EXCEPT !.remaining = field.remaining + growth, !.regrown = @ + growth,
                                !.last = IF full THEN t ELSE @ + growth * p]
      BY <1>6 DEF Regrow
    <3> HIDE DEF growth, full, p, after
    <3> QED BY <3>1 DEF Field
  <2>2. growth * p <= t - field.last
    <3>1. t - field.last \in Nat /\ growth <= (t - field.last) \div p
      BY <1>1, <1>6, <1>2 DEF Growth, Smaller
    <3> HIDE DEF growth, p
    <3> QED BY <1>1, <1>2, <3>1, WholePeriods
  <2>3. /\ (field.regrown + growth) * p = field.regrown * p + growth * p
        /\ field.regrown * p \in Nat /\ growth * p \in Nat
    BY <1>1, <1>2, PeriodsAdd
  <2>4. field.regrown * p <= field.last - StartMs /\ field.last >= StartMs
    BY DEF Pace
  <2>5. after.last >= StartMs /\ after.regrown * p <= after.last - StartMs
    <3> DEFINE had == field.regrown * p
               got == growth * p
    <3>1. after.regrown * p = had + got
      BY <1>3, <2>3
    <3>2. had \in Nat /\ got \in Nat /\ had <= field.last - StartMs /\ got <= t - field.last
      BY <2>2, <2>3, <2>4
    <3>3. after.last = t \/ after.last = field.last + got
      BY <2>1
    <3> HIDE DEF had, got, after
    <3> QED BY <1>1, <2>4, <3>1, <3>2, <3>3
  <2> QED BY <1>4, <2>5 DEF Pace
<1> QED BY <1>5, <1>6

CropsPaced == \A f \in Fields : Pace(f, fields[f])

LEMMA SweepPaced ==
  ASSUME Sound, CropsPaced, NEW f \in Fields
  PROVE  Pace(f, ExpiredFields[f])
<1>1. fields[f] \in Field /\ fields[f].remaining <= FieldSpec[f].capacity /\ now \in Nat
  BY SoundTypes
<1> QED BY <1>1, RegrowPace DEF CropsPaced, ExpiredFields

\* What a call does to the fields: nothing, a sweep, or a sweep and a harvest.
FieldsAfter ==
  \/ fields' = fields
  \/ fields' = ExpiredFields
  \/ \E f \in Fields, amount \in Nat \ {0} :
       /\ amount <= ExpiredFields[f].remaining
       /\ fields' = [ExpiredFields EXCEPT ![f].remaining = @ - amount, ![f].harvested = @ + amount]

LEMMA FieldSteps ==
  ASSUME Sound, [Next]_vars
  PROVE  FieldsAfter
<1>1. ASSUME NEW a \in Actors, NEW serial \in Serials, NEW requested \in Requests,
             NEW f \in Fields, HarvestField(a, serial, f, requested)
      PROVE  FieldsAfter
  <2> DEFINE amount == Smaller(requested, Smaller(CargoRoom(a, ExpiredActors[a]),
                                                  ExpiredFields[f].remaining))
  <2>1. /\ amount # 0
        /\ fields' = [ExpiredFields EXCEPT ![f].remaining = @ - amount, ![f].harvested = @ + amount]
    BY <1>1 DEF HarvestField
  <2>2. amount \in Nat /\ amount <= ExpiredFields[f].remaining
    <3>1. requested \in Nat /\ CargoRoom(a, ExpiredActors[a]) \in Nat
      BY ExpireSound, RoomType, InputAssumption
    <3>2. ExpiredFields[f].remaining \in Nat
      BY ExpireSound DEF StoreBooks, Field
    <3> QED BY <3>1, <3>2, SmallerFacts
  <2> HIDE DEF amount
  <2> QED BY <2>1, <2>2 DEF FieldsAfter
<1>2. CASE UNCHANGED vars \/ \E t \in Times : Clock(t)
  BY <1>2 DEF vars, Clock, FieldsAfter
<1>3. CASE Expire
  BY <1>3 DEF Expire, FieldsAfter
<1>4. ASSUME NEW s \in Sources, NEW life \in Lives, OnCarcass(s, life) PROVE FieldsAfter
  BY <1>4 DEF OnCarcass, RegisterCarcass, CloseCarcass, Reserve, FieldsAfter
<1>5. ASSUME NEW a \in Actors, ByActor(a) PROVE FieldsAfter
  <2>1. ASSUME NEW n \in Serials, NEW requested \in Requests, Completed(a, n, requested)
        PROVE  FieldsAfter
    BY <1>1, <2>1 DEF Completed, Steal, Load, Deliver, EatDepot, FieldsAfter
  <2>2. ASSUME NEW n, Commit(a, n) \/ Cancel(a, n) PROVE FieldsAfter
    BY <2>2 DEF Commit, Cancel, FieldsAfter
  <2>3. CASE DropCargo(a)
    BY <2>3 DEF DropCargo, FieldsAfter
  <2> QED BY <1>5, <2>1, <2>2, <2>3 DEF ByActor
<1> QED BY <1>2, <1>3, <1>4, <1>5 DEF Next

\* A harvest takes crops that have grown.
LEMMA HarvestedField ==
  ASSUME NEW fs \in [Fields -> Field], NEW f \in Fields, NEW amount \in Nat,
         amount <= fs[f].remaining, NEW fs2,
         fs2 = [fs EXCEPT ![f].remaining = @ - amount, ![f].harvested = @ + amount]
  PROVE  /\ fs2[f].remaining = fs[f].remaining - amount
         /\ fs2[f].harvested = fs[f].harvested + amount
         /\ fs2[f].last = fs[f].last /\ fs2[f].regrown = fs[f].regrown
         /\ \A g \in Fields \ {f} : fs2[g] = fs[g]
BY DEF Field

LEMMA NextPaced ==
  ASSUME Sound, CropsPaced, [Next]_vars
  PROVE  CropsPaced'
<1>1. ExpiredFields \in [Fields -> Field]
  BY ExpireSound DEF StoreBooks
<1>2. CASE fields' = fields
  BY <1>2 DEF CropsPaced, Pace
<1>3. CASE fields' = ExpiredFields
  <2>1. \A f \in Fields : Pace(f, fields'[f])
    BY <1>3, SweepPaced
  <2> QED BY <2>1 DEF CropsPaced, Pace
<1>4. ASSUME NEW f \in Fields, NEW amount \in Nat \ {0}, amount <= ExpiredFields[f].remaining,
             fields' = [ExpiredFields EXCEPT ![f].remaining = @ - amount, ![f].harvested = @ + amount]
      PROVE  CropsPaced'
  <2>1. /\ fields'[f].remaining = ExpiredFields[f].remaining - amount
        /\ fields'[f].harvested = ExpiredFields[f].harvested + amount
        /\ fields'[f].last = ExpiredFields[f].last /\ fields'[f].regrown = ExpiredFields[f].regrown
        /\ \A g \in Fields \ {f} : fields'[g] = ExpiredFields[g]
    BY <1>1, <1>4, HarvestedField
  <2>2. ASSUME NEW g \in Fields PROVE Pace(g, fields'[g])
    <3>1. Pace(g, ExpiredFields[g])
      BY SweepPaced
    <3>2. CASE g # f
      BY <2>1, <3>1, <3>2
    <3>3. CASE g = f
      <4>1. ExpiredFields[f].remaining \in Nat /\ ExpiredFields[f].harvested \in Nat
        BY <1>1 DEF Field
      <4>2. fields'[f].remaining + fields'[f].harvested
              = ExpiredFields[f].remaining + ExpiredFields[f].harvested
        BY <1>4, <2>1, <4>1
      <4> QED BY <2>1, <3>1, <3>3, <4>2 DEF Pace
    <3> QED BY <3>2, <3>3
  <2> QED BY <2>2 DEF CropsPaced, Pace
<1> QED BY <1>2, <1>3, <1>4, FieldSteps DEF FieldsAfter

\* A clock set back and forth grows nothing twice (Regrow).
THEOREM LedgerCrops == Spec => []CropsKeepPace
<1>1. Init => CropsPaced
  <2> SUFFICES ASSUME Init, NEW f \in Fields PROVE Pace(f, fields[f])
    BY DEF CropsPaced
  <2>1. /\ fields[f].last = StartMs /\ fields[f].regrown = 0 /\ fields[f].harvested = 0
        /\ fields[f].remaining = FieldSpec[f].initial
    BY DEF Init
  <2>2. StartMs \in Nat /\ FieldSpec[f].initial \in Nat /\ FieldSpec[f].regrow \in Nat
    BY FieldFacts, InputAssumption
  <2>3. 0 * FieldSpec[f].regrow = 0
    BY <2>2
  <2> QED BY <2>1, <2>2, <2>3 DEF Pace
<1>2. CropsPaced /\ Sound /\ [Next]_vars => CropsPaced'
  BY NextPaced
<1>3. CropsPaced => CropsKeepPace
  BY DEF CropsPaced, Pace, CropsKeepPace
<1> QED BY <1>1, <1>2, <1>3, LedgerSound, PTL DEF Spec

\* The harvest that takes a field from full starts its growth period then:
\* the time that the field was full is not banked (Regrow, HarvestField).
THEOREM LedgerNothingBanked == Spec => CropsNotBanked
<1> DEFINE NotBanked == \A f \in Fields :
             /\ fields[f].remaining = FieldSpec[f].capacity
             /\ fields'[f].remaining < FieldSpec[f].capacity
             => fields'[f].last >= now
<1>1. ASSUME Sound, [Next]_vars, NEW f \in Fields,
             fields[f].remaining = FieldSpec[f].capacity,
             fields'[f].remaining < FieldSpec[f].capacity
      PROVE  fields'[f].last >= now
  <2>1. /\ fields[f] \in Field /\ now \in Nat /\ fields[f].last \in Nat
        /\ FieldSpec[f].capacity \in Nat /\ fields[f].remaining \in Nat
        /\ ExpiredFields \in [Fields -> Field]
    <3>1. fields[f] \in Field /\ now \in Nat
      BY <1>1, SoundTypes
    <3>2. ExpiredFields \in [Fields -> Field]
      BY <1>1, ExpireSound DEF StoreBooks
    <3> QED BY <3>1, <3>2, FieldFacts DEF Field
  <2>2. Growth(f, fields[f], now) = 0
    <3>1. Growth(f, fields[f], now) \in Nat
          /\ fields[f].remaining + Growth(f, fields[f], now) <= FieldSpec[f].capacity
      BY <1>1, <2>1, GrowthType
    <3> QED BY <1>1, <2>1, <3>1
  <2>3. ExpiredFields[f].remaining = FieldSpec[f].capacity /\ ExpiredFields[f].last >= now
    <3>1. ExpiredFields[f] = Regrow(f, fields[f], now)
      BY DEF ExpiredFields
    <3>2. ExpiredFields[f].remaining = fields[f].remaining + 0
      BY <1>1, <2>1, <2>2, <3>1, RegrowAmounts
    <3>3. CASE now <= fields[f].last
      <4>1. Regrow(f, fields[f], now) = fields[f]
        BY <3>3 DEF Regrow
      <4> QED BY <1>1, <2>1, <3>1, <3>3, <4>1
    <3>4. CASE ~(now <= fields[f].last)
      <4>1. fields[f].remaining + 0 = FieldSpec[f].capacity
        BY <1>1, <2>1
      <4>2. Regrow(f, fields[f], now)
              = [fields[f] EXCEPT !.remaining = @ + 0, !.regrown = @ + 0, !.last = now]
        BY <2>2, <3>4, <4>1 DEF Regrow
      <4>3. Regrow(f, fields[f], now).last = now
        BY <2>1, <4>2 DEF Field
      <4> QED BY <2>1, <3>1, <3>2, <4>1, <4>3
    <3> QED BY <3>3, <3>4
  <2>4. fields' # fields /\ fields' # ExpiredFields
    BY <1>1, <2>1, <2>3
  <2>5. PICK g \in Fields, amount \in Nat \ {0} :
          /\ amount <= ExpiredFields[g].remaining
          /\ fields' = [ExpiredFields EXCEPT ![g].remaining = @ - amount, ![g].harvested = @ + amount]
    BY <1>1, <2>4, FieldSteps DEF FieldsAfter
  <2>6. fields'[f].last = ExpiredFields[f].last
    <3>1. /\ fields'[g].last = ExpiredFields[g].last
          /\ \A h \in Fields \ {g} : fields'[h] = ExpiredFields[h]
      BY <2>1, <2>5, HarvestedField
    <3> QED BY <3>1
  <2> QED BY <2>3, <2>6
<1>2. Sound /\ [Next]_vars => NotBanked
  BY <1>1
<1>3. Sound /\ [Next]_vars => [NotBanked]_vars
  BY <1>2
<1> QED BY <1>3, LedgerSound, PTL DEF Spec, CropsNotBanked

---------------------------------------------------------------------------
(* Meat and lives *)

\* Lives only rise, and meat comes only with a new one.
NoMeatFromNothing(cs, cs2) ==
  \A s \in Sources :
    /\ cs2[s].life >= cs[s].life
    /\ cs2[s].remaining > cs[s].remaining => cs2[s].life > cs[s].life

\* Lives stay and meat goes.
MeatShrinks(cs, cs2) ==
  \A s \in Sources : cs2[s].life = cs[s].life /\ cs2[s].remaining <= cs[s].remaining

LEMMA ShrinkingMeat ==
  ASSUME NEW cs \in [Sources -> Carcass], NEW cs2 \in [Sources -> Carcass], MeatShrinks(cs, cs2)
  PROVE  NoMeatFromNothing(cs, cs2)
BY DEF MeatShrinks, NoMeatFromNothing, Carcass

LEMMA ClosedShrinks ==
  ASSUME NEW as, NEW cs \in [Sources -> Carcass], NEW A, NEW C
  PROVE  /\ MeatShrinks(cs, Release(as, cs, A))
         /\ MeatShrinks(cs, Entombed(Release(as, cs, A), C))
<1>1. \A s \in Sources : /\ Release(as, cs, A)[s].life = cs[s].life
                         /\ Release(as, cs, A)[s].remaining = cs[s].remaining
  BY DEF Release, Carcass
<1>2. \A s \in Sources :
        /\ Entombed(Release(as, cs, A), C)[s].life = cs[s].life
        /\ Entombed(Release(as, cs, A), C)[s].remaining = IF s \in C THEN 0 ELSE cs[s].remaining
  BY DEF Entombed, Release, Carcass
<1>3. \A s \in Sources : cs[s].remaining \in Nat
  BY DEF Carcass
<1>4. \A n \in Nat : n <= n /\ 0 <= n
  OBVIOUS
<1>5. MeatShrinks(cs, Release(as, cs, A))
  BY <1>1, <1>3, <1>4 DEF MeatShrinks
<1>6. MeatShrinks(cs, Entombed(Release(as, cs, A), C))
  BY <1>2, <1>3, <1>4 DEF MeatShrinks
<1> QED BY <1>5, <1>6

\* A sweep and a further loss.
LEMMA ShrinksTwice ==
  ASSUME NEW cs \in [Sources -> Carcass], NEW cs2 \in [Sources -> Carcass],
         NEW cs3 \in [Sources -> Carcass], MeatShrinks(cs, cs2), MeatShrinks(cs2, cs3)
  PROVE  MeatShrinks(cs, cs3)
<1>1. ASSUME NEW s \in Sources PROVE cs3[s].life = cs[s].life /\ cs3[s].remaining <= cs[s].remaining
  <2>1. cs[s].remaining \in Nat /\ cs2[s].remaining \in Nat /\ cs3[s].remaining \in Nat
    BY DEF Carcass
  <2>2. cs2[s].remaining <= cs[s].remaining /\ cs3[s].remaining <= cs2[s].remaining
        /\ cs2[s].life = cs[s].life /\ cs3[s].life = cs2[s].life
    BY DEF MeatShrinks
  <2> QED BY <2>1, <2>2
<1> QED BY <1>1 DEF MeatShrinks

\* Every call but a registration leaves no source with more meat than it had.
LEMMA MeatSteps ==
  ASSUME Sound, Sound', [Next]_vars
  PROVE  NoMeatFromNothing(carcasses, carcasses')
<1> DEFINE cs == ExpiredCarcasses
<1>1. /\ carcasses \in [Sources -> Carcass] /\ carcasses' \in [Sources -> Carcass]
      /\ cs \in [Sources -> Carcass]
  BY ExpireSound DEF Sound, ClaimBooks
<1>2. MeatShrinks(carcasses, cs)
  BY <1>1, ClosedShrinks DEF ExpiredCarcasses
<1>3. MeatShrinks(carcasses, carcasses)
  BY <1>1 DEF MeatShrinks, Carcass
<1>4. ASSUME MeatShrinks(carcasses, carcasses') PROVE NoMeatFromNothing(carcasses, carcasses')
  BY <1>1, <1>4, ShrinkingMeat
<1>5. ASSUME MeatShrinks(cs, carcasses') PROVE NoMeatFromNothing(carcasses, carcasses')
  BY <1>1, <1>2, <1>4, <1>5, ShrinksTwice
<1> HIDE DEF cs
<1>6. CASE carcasses' = carcasses
  BY <1>3, <1>4, <1>6
<1>7. CASE Expire
  BY <1>2, <1>4, <1>7 DEF Expire, cs
<1>8. ASSUME NEW s \in Sources, NEW life \in Lives, OnCarcass(s, life)
      PROVE  NoMeatFromNothing(carcasses, carcasses')
  <2>1. CASE \E t \in Times : RegisterCarcass(s, life, t, CarcassPortions)
    <3>1. PICK t : RegisterCarcass(s, life, t, CarcassPortions)
      BY <2>1
    <3> DEFINE fresh == [life |-> life, remaining |-> CarcassPortions, reserved |-> 0,
                         expires |-> t, active |-> TRUE]
    <3>2. /\ carcasses' = [carcasses EXCEPT ![s] = fresh]
          /\ fresh.life = life /\ life > carcasses[s].life
      BY <3>1 DEF RegisterCarcass
    <3> HIDE DEF fresh
    <3>3. carcasses'[s].life > carcasses[s].life /\ \A r \in Sources \ {s} : carcasses'[r] = carcasses[r]
      BY <1>1, <3>2
    <3>4. \A r \in Sources : /\ carcasses[r].life \in Nat /\ carcasses'[r].life \in Nat
                             /\ carcasses[r].remaining \in Nat
      BY <1>1 DEF Carcass
    <3> QED BY <3>3, <3>4 DEF NoMeatFromNothing
  <2>2. CASE CloseCarcass(s, life)
    BY <1>1, <1>4, <2>2, ClosedShrinks DEF CloseCarcass
  <2>3. CASE \E a \in Actors, n \in Requests : Reserve(a, s, life, n)
    <3>1. PICK amount : carcasses' = [cs EXCEPT ![s].reserved = amount]
      BY <2>3 DEF Reserve, cs
    <3>2. \A r \in Sources : /\ carcasses'[r].life = cs[r].life
                             /\ carcasses'[r].remaining = cs[r].remaining /\ cs[r].remaining \in Nat
      BY <1>1, <3>1 DEF Carcass
    <3>3. MeatShrinks(cs, carcasses')
      BY <3>2 DEF MeatShrinks
    <3> QED BY <1>5, <3>3
  <2> QED BY <1>8, <2>1, <2>2, <2>3 DEF OnCarcass
<1>9. ASSUME NEW a \in Actors, ByActor(a) PROVE NoMeatFromNothing(carcasses, carcasses')
  <2>1. ASSUME NEW n, Commit(a, n) PROVE NoMeatFromNothing(carcasses, carcasses')
    <3> DEFINE claim == ExpiredActors[a].pending
               s == claim.source
    <3>1. CASE ~Honourable(ExpiredActors, cs, a)
      <4>1. carcasses' = Release(ExpiredActors, cs, {a})
        BY <2>1, <3>1 DEF Commit, cs
      <4> QED BY <1>1, <1>5, <4>1, ClosedShrinks
    <3>2. CASE Honourable(ExpiredActors, cs, a)
      <4>1. carcasses' = [cs EXCEPT ![s].remaining = @ - claim.amount, ![s].reserved = @ - claim.amount]
        BY <2>1, <3>2 DEF Commit, cs
      <4>2. claim.amount \in Nat
        BY ExpireSound DEF ClaimBooks, Actor, Claim
      <4> HIDE DEF s, claim
      <4>3. ASSUME NEW r \in Sources
            PROVE  carcasses'[r].life = cs[r].life /\ carcasses'[r].remaining <= cs[r].remaining
        <5>1. cs[r] \in Carcass /\ cs[r].remaining \in Nat
          BY <1>1 DEF Carcass
        <5>2. CASE r = s
          <6>1. carcasses'[r].life = cs[r].life
            BY <1>1, <4>1, <5>1, <5>2 DEF Carcass
          <6>2. carcasses'[r].remaining = cs[r].remaining - claim.amount
            BY <1>1, <4>1, <5>1, <5>2 DEF Carcass
          <6> QED BY <4>2, <5>1, <6>1, <6>2
        <5>3. CASE r # s
          BY <1>1, <4>1, <5>1, <5>3
        <5> QED BY <5>2, <5>3
      <4>4. MeatShrinks(cs, carcasses')
        BY <4>3 DEF MeatShrinks
      <4> QED BY <1>5, <4>4
    <3> QED BY <3>1, <3>2
  <2>2. ASSUME NEW n, Cancel(a, n) PROVE NoMeatFromNothing(carcasses, carcasses')
    BY <1>1, <1>4, <2>2, ClosedShrinks DEF Cancel
  <2>3. CASE DropCargo(a)
    BY <1>1, <1>4, <2>3, ClosedShrinks DEF DropCargo
  <2>4. ASSUME NEW n \in Serials, NEW requested \in Requests, Completed(a, n, requested)
        PROVE  NoMeatFromNothing(carcasses, carcasses')
    <3>1. carcasses' = carcasses \/ carcasses' = cs
      BY <2>4 DEF Completed, HarvestField, Steal, Load, Deliver, EatDepot, cs
    <3> QED BY <1>2, <1>4, <1>6, <3>1
  <2> QED BY <1>9, <2>1, <2>2, <2>3, <2>4 DEF ByActor
<1>10. CASE UNCHANGED vars \/ \E t \in Times : Clock(t)
  BY <1>6, <1>10 DEF vars, Clock
<1> QED BY <1>7, <1>8, <1>9, <1>10 DEF Next

\* Meat appears only with a new, higher life of its source; a repeated or late
\* observation of a death mints nothing (RegisterCarcass).
THEOREM LedgerMeat == Spec => MeatOnlyFromNewLife
<1>1. Sound /\ Sound' /\ [Next]_vars => [NoMeatFromNothing(carcasses, carcasses')]_vars
  BY MeatSteps
<1> QED BY <1>1, LedgerSound, PTL DEF Spec, MeatOnlyFromNewLife, NoMeatFromNothing

---------------------------------------------------------------------------
(* The book of carcasses                                                   *)

\* The book that a state of the ledger stands for.
BookOf(as, cs, n) ==
  [last |-> LastOf(cs), open |-> OpenOf(cs), claims |-> ClaimsOf(as), issued |-> n,
   receipts |-> ReceiptsOf(as)]

\* The present book is that of the present state.
LEMMA BookNow == Carcasses!Book = BookOf(actors, carcasses, nextClaim)
BY DEF Carcasses!Book, BookOf

\* A step that leads to this book is a step of it.
LEMMA BookNext ==
  ASSUME NEW b, b = BookOf(actors', carcasses', nextClaim')
  PROVE  Carcasses!Becomes(b)
BY DEF Carcasses!Becomes, BookOf, LastOf, OpenOf, ClaimsOf, ReceiptsOf

\* The open carcasses and the claims of a book after a sweep.
OpenWithout(cs, C) == [s \in Sources |-> OpenOf(cs)[s] /\ s \notin C]
ClaimsWithout(as, C, A) ==
  [a \in Actors |-> IF a \in A \/ ClaimsOf(as)[a].source \in C
                    THEN Carcasses!NoClaim ELSE ClaimsOf(as)[a]]

\* Replacing fields one after the other is replacing them together.
LEMMA Together ==
  ASSUME NEW x, NEW o, NEW c
  PROVE  [x EXCEPT !.open = o, !.claims = c] = [[x EXCEPT !.open = o] EXCEPT !.claims = c]
OBVIOUS

\* A sweep of a book that is written out.
LEMMA SweptRecord ==
  ASSUME NEW l, NEW o, NEW c, NEW i, NEW r, NEW C, NEW A
  PROVE  Carcasses!Swept([last |-> l, open |-> o, claims |-> c, issued |-> i, receipts |-> r], C, A) =
         [last |-> l, open |-> [s \in Sources |-> o[s] /\ s \notin C],
          claims |-> [a \in Actors |-> IF a \in A \/ c[a].source \in C
                                        THEN Carcasses!NoClaim ELSE c[a]],
          issued |-> i, receipts |-> r]
<1> DEFINE o2 == [s \in Sources |-> o[s] /\ s \notin C]
           c2 == [a \in Actors |-> IF a \in A \/ c[a].source \in C
                                   THEN Carcasses!NoClaim ELSE c[a]]
           x == [last |-> l, open |-> o, claims |-> c, issued |-> i, receipts |-> r]
           y == [last |-> l, open |-> o2, claims |-> c, issued |-> i, receipts |-> r]
           z == [last |-> l, open |-> o2, claims |-> c2, issued |-> i, receipts |-> r]
<1>1. x.open = o /\ x.claims = c
  OBVIOUS
<1>2. Carcasses!Swept(x, C, A) = [x EXCEPT !.open = o2, !.claims = c2]
  <2>1. Carcasses!Swept(x, C, A)
          = [x EXCEPT !.open = [s \in Sources |-> x.open[s] /\ s \notin C],
                      !.claims = [a \in Actors |-> IF a \in A \/ x.claims[a].source \in C
                                         THEN Carcasses!NoClaim ELSE x.claims[a]]]
    <3> HIDE DEF x
    <3> QED BY Zenon DEF Carcasses!Swept
  <2> HIDE DEF x
  <2> QED BY <1>1, <2>1, Zenon
<1> HIDE DEF o2, c2
<1>3. [x EXCEPT !.open = o2] = y
  OBVIOUS
<1>4. [y EXCEPT !.claims = c2] = z
  OBVIOUS
<1>5. Carcasses!Swept(x, C, A) = z
  <2> HIDE DEF x, y, z
  <2> QED BY <1>2, <1>3, <1>4, Together, Zenon
<1> QED BY <1>5 DEF o2, c2

\* A sweep of the book of a state.
LEMMA SweptBook ==
  ASSUME NEW as, NEW cs, NEW n, NEW C, NEW A
  PROVE  Carcasses!Swept(BookOf(as, cs, n), C, A)
           = [last |-> LastOf(cs), open |-> OpenWithout(cs, C), claims |-> ClaimsWithout(as, C, A),
              issued |-> n, receipts |-> ReceiptsOf(as)]
<1>1. ASSUME NEW l, l = LastOf(cs), NEW o, o = OpenOf(cs), NEW c, c = ClaimsOf(as), NEW r, r = ReceiptsOf(as)
      PROVE  Carcasses!Swept([last |-> l, open |-> o, claims |-> c, issued |-> n, receipts |-> r], C, A) =
         [last |-> l, open |-> [s \in Sources |-> o[s] /\ s \notin C],
          claims |-> [a \in Actors |-> IF a \in A \/ c[a].source \in C
                                        THEN Carcasses!NoClaim ELSE c[a]],
          issued |-> n, receipts |-> r]
  BY SweptRecord
<1> QED BY <1>1, Zenon DEF BookOf, OpenWithout, ClaimsWithout

\* An absent claim is absent in the book; a claim is on its source there too.
LEMMA ClaimParts ==
  ASSUME NEW as, NEW a \in Actors
  PROVE  /\ as[a].pending = NoClaim => ClaimsOf(as)[a] = Carcasses!NoClaim
         /\ ClaimsOf(as)[a].source = as[a].pending.source
<1>1. NoClaim.serial = 0 /\ NoClaim.source = 0 /\ NoClaim.life = 0
  BY DEF NoClaim
<1>2. ClaimsOf(as)[a] = [serial |-> as[a].pending.serial, source |-> as[a].pending.source,
                            life |-> as[a].pending.life]
  BY DEF ClaimsOf
<1>3. ClaimsOf(as)[a].source = as[a].pending.source
  BY <1>2
<1>4. ASSUME as[a].pending = NoClaim PROVE ClaimsOf(as)[a] = Carcasses!NoClaim
  BY <1>1, <1>2, <1>4 DEF Carcasses!NoClaim
<1> QED BY <1>3, <1>4

\* The claims that go with the carcasses C are those of their claimants.
LEMMA ClaimantsInBook ==
  ASSUME NEW as, NEW cs, ClaimBooks(as, cs), NEW C \in SUBSET Sources, NEW a \in Actors
  PROVE  a \in Claimants(as, cs, C) <=> as[a].pending.source \in C
<1>1. CASE as[a].pending = NoClaim
  <2>1. as[a].pending.source = 0 /\ 0 \notin C
    BY <1>1, Domains DEF NoClaim
  <2> QED
    BY <2>1 DEF Claimants, On
<1>2. CASE as[a].pending # NoClaim
  <2>1. cs[as[a].pending.source].life = as[a].pending.life
    BY <1>2 DEF ClaimBooks, GoodClaim
  <2> QED
    BY <2>1 DEF Claimants, On
<1> QED
  BY <1>1, <1>2

\* Releasing the claims of A and of those on C, and closing C, is a sweep.
LEMMA SweepInBook ==
  ASSUME NEW as, NEW cs, ClaimBooks(as, cs), NEW n,
         NEW C \in SUBSET Sources, NEW A \in SUBSET Actors,
         NEW S, S = A \cup Claimants(as, cs, C)
  PROVE  BookOf(Unclaimed(as, S), Entombed(Release(as, cs, S), C), n)
           = Carcasses!Swept(BookOf(as, cs, n), C, A)
<1> DEFINE as2 == Unclaimed(as, S)
           cs2 == Entombed(Release(as, cs, S), C)
<1>1. /\ as \in [Actors -> Actor] /\ cs \in [Sources -> Carcass]
  BY DEF ClaimBooks
<1>2. \A s \in Sources : cs2[s].life = cs[s].life
  BY <1>1 DEF Entombed, Release, Carcass
<1>3. \A s \in Sources : cs2[s].active = (cs[s].active /\ s \notin C)
  BY <1>1 DEF Entombed, Release, Carcass
<1>4. \A a \in Actors : as2[a].committed = as[a].committed
  BY <1>1 DEF Unclaimed, Actor
<1>5. \A a \in Actors : as2[a].pending = IF a \in S THEN NoClaim ELSE as[a].pending
  BY <1>1 DEF Unclaimed, Actor
<1>6. \A a \in Actors : a \in S <=> a \in A \/ as[a].pending.source \in C
  BY ClaimantsInBook
<1> HIDE DEF as2, cs2
<1>7. LastOf(cs2) = LastOf(cs)
  BY <1>2, Zenon DEF LastOf
<1>8. OpenOf(cs2) = OpenWithout(cs, C)
  <2>1. \A s \in Sources : OpenOf(cs)[s] = cs[s].active
    BY DEF OpenOf
  <2> QED
    BY <1>3, <2>1, Zenon DEF OpenOf, OpenWithout
<1>9. ReceiptsOf(as2) = ReceiptsOf(as)
  BY <1>4, Zenon DEF ReceiptsOf
<1>10. ClaimsOf(as2) = ClaimsWithout(as, C, A)
  <2>1. ASSUME NEW a \in Actors
        PROVE  ClaimsOf(as2)[a] = IF a \in A \/ ClaimsOf(as)[a].source \in C
                                  THEN Carcasses!NoClaim ELSE ClaimsOf(as)[a]
    <3>1. CASE a \in S
      <4>1. as2[a].pending = NoClaim
        BY <1>5, <3>1
      <4>2. a \in A \/ ClaimsOf(as)[a].source \in C
        BY <1>6, <3>1, ClaimParts
      <4> QED
        BY <4>1, <4>2, ClaimParts
    <3>2. CASE a \notin S
      <4>1. as2[a].pending = as[a].pending
        BY <1>5, <3>2
      <4>2. ~(a \in A \/ ClaimsOf(as)[a].source \in C)
        BY <1>6, <3>2, ClaimParts
      <4>3. ClaimsOf(as2)[a] = ClaimsOf(as)[a]
        BY <4>1 DEF ClaimsOf
      <4> QED
        BY <4>2, <4>3
    <3> QED
      BY <3>1, <3>2
  <2>2. ClaimsOf(as2) = [a \in Actors |-> ClaimsOf(as2)[a]]
    BY DEF ClaimsOf
  <2> QED
    BY <2>1, <2>2, Zenon DEF ClaimsWithout
<1>11. BookOf(as2, cs2, n) = Carcasses!Swept(BookOf(as, cs, n), C, A)
  <2> DEFINE z == [last |-> LastOf(cs), open |-> OpenWithout(cs, C),
                   claims |-> ClaimsWithout(as, C, A),
                   issued |-> n, receipts |-> ReceiptsOf(as)]
  <2>1. BookOf(as2, cs2, n) = z
    BY <1>7, <1>8, <1>9, <1>10, Zenon DEF BookOf
  <2>2. Carcasses!Swept(BookOf(as, cs, n), C, A) = z
    BY SweptBook, Zenon
  <2> HIDE DEF z
  <2> QED
    BY <2>1, <2>2, Zenon
<1> QED
  BY <1>11 DEF as2, cs2

---------------------------------------------------------------------------
(* The operations of the book on a book that is written out *)

\* A new life, after the sweep that closes the carcass of the last one.
LEMMA RegisteredRecord ==
  ASSUME NEW l, NEW o, NEW c, NEW i, NEW r, NEW s, NEW life,
         NEW b, Carcasses!Swept(b, {s}, {})
                  = [last |-> l, open |-> o, claims |-> c, issued |-> i, receipts |-> r]
  PROVE  Carcasses!Registered(b, s, life)
           = [last |-> [l EXCEPT ![s] = life], open |-> [o EXCEPT ![s] = TRUE],
              claims |-> c, issued |-> i, receipts |-> r]
<1> DEFINE l2 == [l EXCEPT ![s] = life]
           o2 == [o EXCEPT ![s] = TRUE]
           x == [last |-> l, open |-> o, claims |-> c, issued |-> i, receipts |-> r]
           y == [last |-> l2, open |-> o, claims |-> c, issued |-> i, receipts |-> r]
           z == [last |-> l2, open |-> o2, claims |-> c, issued |-> i, receipts |-> r]
<1>1. Carcasses!Registered(b, s, life) = [x EXCEPT !.last[s] = life, !.open[s] = TRUE]
  BY Zenon DEF Carcasses!Registered
<1>2. x.last = l /\ y.open = o
  OBVIOUS
<1>3. [x EXCEPT !.last[s] = life] = [x EXCEPT !.last = l2]
  <2> HIDE DEF x
  <2> QED BY <1>2
<1>4. [y EXCEPT !.open[s] = TRUE] = [y EXCEPT !.open = o2]
  <2> HIDE DEF y
  <2> QED BY <1>2
<1>5. [x EXCEPT !.last[s] = life, !.open[s] = TRUE]
        = [[x EXCEPT !.last[s] = life] EXCEPT !.open[s] = TRUE]
  <2> HIDE DEF x
  <2> QED OBVIOUS
<1> HIDE DEF l2, o2
<1>6. [x EXCEPT !.last = l2] = y
  OBVIOUS
<1>7. [y EXCEPT !.open = o2] = z
  OBVIOUS
<1>8. Carcasses!Registered(b, s, life) = z
  <2> HIDE DEF x, y, z
  <2> QED BY <1>1, <1>3, <1>4, <1>5, <1>6, <1>7, Zenon
<1> QED BY <1>8 DEF l2, o2

\* A new claim.
LEMMA GrantedRecord ==
  ASSUME NEW l, NEW o, NEW c, NEW i, NEW r, NEW a, NEW s
  PROVE  Carcasses!Granted([last |-> l, open |-> o, claims |-> c, issued |-> i, receipts |-> r], a, s)
           = [last |-> l, open |-> o,
              claims |-> [c EXCEPT ![a] = [serial |-> i + 1, source |-> s, life |-> l[s]]],
              issued |-> i + 1, receipts |-> r]
<1> DEFINE new == [serial |-> i + 1, source |-> s, life |-> l[s]]
           c2 == [c EXCEPT ![a] = new]
           i2 == i + 1
           x == [last |-> l, open |-> o, claims |-> c, issued |-> i, receipts |-> r]
           y == [last |-> l, open |-> o, claims |-> c, issued |-> i2, receipts |-> r]
           z == [last |-> l, open |-> o, claims |-> c2, issued |-> i2, receipts |-> r]
<1>1. x.issued = i /\ x.last = l /\ y.claims = c
  OBVIOUS
<1>2. Carcasses!Granted(x, a, s) = [x EXCEPT !.issued = i2, !.claims[a] = new]
  <2> HIDE DEF x
  <2> QED BY <1>1 DEF Carcasses!Granted
<1>3. [y EXCEPT !.claims[a] = new] = [y EXCEPT !.claims = c2]
  <2> HIDE DEF y, new
  <2> QED BY <1>1
<1>4. [x EXCEPT !.issued = i2, !.claims[a] = new] = [[x EXCEPT !.issued = i2] EXCEPT !.claims[a] = new]
  <2> HIDE DEF x, new, i2
  <2> QED OBVIOUS
<1> HIDE DEF c2, i2, new
<1>5. [x EXCEPT !.issued = i2] = y
  OBVIOUS
<1>6. [y EXCEPT !.claims = c2] = z
  OBVIOUS
<1>7. Carcasses!Granted(x, a, s) = z
  <2> HIDE DEF x, y, z
  <2> QED BY <1>2, <1>3, <1>4, <1>5, <1>6, Zenon
<1> QED BY <1>7 DEF c2, i2, new

\* The claim of an actor goes and n is its receipt.
Receipted(b, a, n) == [b EXCEPT !.receipts[a] = n, !.claims[a] = Carcasses!NoClaim]

\* A claim that ends with a receipt, or with its receipt forgotten.
LEMMA ReceiptRecord ==
  ASSUME NEW l, NEW o, NEW c, NEW i, NEW r, NEW a, NEW n
  PROVE  Receipted([last |-> l, open |-> o, claims |-> c, issued |-> i, receipts |-> r], a, n)
           = [last |-> l, open |-> o, claims |-> [c EXCEPT ![a] = Carcasses!NoClaim],
              issued |-> i, receipts |-> [r EXCEPT ![a] = n]]
<1> DEFINE none == Carcasses!NoClaim
           c2 == [c EXCEPT ![a] = none]
           r2 == [r EXCEPT ![a] = n]
           x == [last |-> l, open |-> o, claims |-> c, issued |-> i, receipts |-> r]
           y == [last |-> l, open |-> o, claims |-> c, issued |-> i, receipts |-> r2]
           z == [last |-> l, open |-> o, claims |-> c2, issued |-> i, receipts |-> r2]
<1>1. x.receipts = r /\ y.claims = c
  OBVIOUS
<1> HIDE DEF none
<1>2. [x EXCEPT !.receipts[a] = n] = [x EXCEPT !.receipts = r2]
  <2> HIDE DEF x
  <2> QED BY <1>1
<1>3. [y EXCEPT !.claims[a] = none] = [y EXCEPT !.claims = c2]
  <2> HIDE DEF y
  <2> QED BY <1>1
<1>4. [x EXCEPT !.receipts[a] = n, !.claims[a] = none]
        = [[x EXCEPT !.receipts[a] = n] EXCEPT !.claims[a] = none]
  <2> HIDE DEF x
  <2> QED OBVIOUS
<1> HIDE DEF c2, r2
<1>5. [x EXCEPT !.receipts = r2] = y
  OBVIOUS
<1>6. [y EXCEPT !.claims = c2] = z
  OBVIOUS
<1>7. Receipted(x, a, n) = [x EXCEPT !.receipts[a] = n, !.claims[a] = none]
  <2> HIDE DEF x
  <2> QED BY Zenon DEF Receipted, none
<1>8. Receipted(x, a, n) = z
  <2> HIDE DEF x, y, z
  <2> QED BY <1>2, <1>3, <1>4, <1>5, <1>6, <1>7, Zenon
<1> QED BY <1>8 DEF c2, r2, none

---------------------------------------------------------------------------
(* Each action of the ledger in the book *)

\* A call that does nothing but release claims and close carcasses.
LEMMA SweepStep ==
  ASSUME Sound, NEW C \in SUBSET Sources, NEW A \in SUBSET Actors,
         NEW S, S = A \cup Claimants(actors, carcasses, C),
         actors' = Unclaimed(actors, S),
         carcasses' = Entombed(Release(actors, carcasses, S), C),
         nextClaim' = nextClaim
  PROVE  Carcasses!Sweep(C, A)
<1>1. ClaimBooks(actors, carcasses)
  BY DEF Sound
<1>2. BookOf(Unclaimed(actors, S), Entombed(Release(actors, carcasses, S), C), nextClaim)
        = Carcasses!Swept(BookOf(actors, carcasses, nextClaim), C, A)
  BY <1>1, SweepInBook
<1>3. Carcasses!Swept(Carcasses!Book, C, A) = BookOf(actors', carcasses', nextClaim')
  BY <1>2, BookNow, Zenon
<1>4. Carcasses!Becomes(Carcasses!Swept(Carcasses!Book, C, A))
  BY <1>3, BookNext, Zenon
<1> QED BY <1>4 DEF Carcasses!Sweep

\* What the sweep at the start of a call leaves, in the book.
LEMMA ExpiredBook ==
  ASSUME Sound
  PROVE  /\ BookOf(ExpiredActors, ExpiredCarcasses, nextClaim)
              = Carcasses!Swept(Carcasses!Book, DueCarcasses, LapsedClaims)
         /\ DueCarcasses \in SUBSET Sources /\ LapsedClaims \in SUBSET Actors
<1>1. ClaimBooks(actors, carcasses)
  BY DEF Sound
<1>2. DueCarcasses \in SUBSET Sources /\ LapsedClaims \in SUBSET Actors
  BY DEF DueCarcasses, LapsedClaims
<1>3. SweptClaims = LapsedClaims \cup Claimants(actors, carcasses, DueCarcasses)
  BY DEF SweptClaims
<1>4. BookOf(Unclaimed(actors, SweptClaims),
             Entombed(Release(actors, carcasses, SweptClaims), DueCarcasses), nextClaim)
        = Carcasses!Swept(BookOf(actors, carcasses, nextClaim), DueCarcasses, LapsedClaims)
  BY <1>1, <1>2, <1>3, SweepInBook
<1> QED BY <1>2, <1>4, BookNow DEF ExpiredActors, ExpiredCarcasses

\* Expire by itself, or with work that touches no claim.
LEMMA ExpiredStep ==
  ASSUME Sound, NEW as, ClaimsOf(as) = ClaimsOf(ExpiredActors), ReceiptsOf(as) = ReceiptsOf(ExpiredActors),
         actors' = as, carcasses' = ExpiredCarcasses, nextClaim' = nextClaim
  PROVE  Carcasses!Next
<1>1. BookOf(actors', carcasses', nextClaim') = BookOf(ExpiredActors, ExpiredCarcasses, nextClaim)
  BY DEF BookOf
<1>2. BookOf(actors', carcasses', nextClaim')
        = Carcasses!Swept(Carcasses!Book, DueCarcasses, LapsedClaims)
  BY <1>1, ExpiredBook, Zenon
<1>3. Carcasses!Becomes(Carcasses!Swept(Carcasses!Book, DueCarcasses, LapsedClaims))
  BY <1>2, BookNext, Zenon
<1>4. Carcasses!Sweep(DueCarcasses, LapsedClaims)
  BY <1>3 DEF Carcasses!Sweep
<1> QED BY <1>4, ExpiredBook DEF Carcasses!Next

\* Expire as a call of its own.
LEMMA ExpireInBook ==
  ASSUME Sound, Expire
  PROVE  Carcasses!Next
<1>1. actors' = ExpiredActors /\ carcasses' = ExpiredCarcasses /\ nextClaim' = nextClaim
  BY DEF Expire
<1> QED BY <1>1, ExpiredStep

\* Nothing is closed.
LEMMA NoneEntombed ==
  ASSUME NEW as, NEW cs, NEW A
  PROVE  /\ Entombed(Release(as, cs, A), {}) = Release(as, cs, A)
         /\ Claimants(as, cs, {}) = {}
<1> DEFINE r == Release(as, cs, A)
<1>1. r = [s \in Sources |-> r[s]]
  BY DEF Release
<1> HIDE DEF r
<1>2. Entombed(r, {}) = [s \in Sources |-> r[s]]
  BY DEF Entombed
<1>3. Claimants(as, cs, {}) = {}
  BY DEF Claimants
<1> QED BY <1>1, <1>2, <1>3 DEF r

\* Cancel takes one claim.
LEMMA CancelInBook ==
  ASSUME Sound, NEW a \in Actors, NEW n, Cancel(a, n)
  PROVE  Carcasses!Next
<1>1. /\ actors' = Unclaimed(actors, {a}) /\ nextClaim' = nextClaim
      /\ carcasses' = Entombed(Release(actors, carcasses, {a}), {})
  BY NoneEntombed DEF Cancel
<1>2. {a} = {a} \cup Claimants(actors, carcasses, {})
  BY NoneEntombed
<1>3. {} \in SUBSET Sources /\ {a} \in SUBSET Actors
  OBVIOUS
<1>4. Carcasses!Sweep({}, {a})
  BY <1>1, <1>2, <1>3, SweepStep
<1> QED BY <1>3, <1>4 DEF Carcasses!Next

\* CloseCarcass takes the claims on one carcass.
LEMMA CloseInBook ==
  ASSUME Sound, NEW s \in Sources, NEW life, CloseCarcass(s, life)
  PROVE  Carcasses!Next
<1> DEFINE A == Claimants(actors, carcasses, {s})
<1>1. /\ actors' = Unclaimed(actors, A) /\ nextClaim' = nextClaim
      /\ carcasses' = Entombed(Release(actors, carcasses, A), {s})
  BY DEF CloseCarcass
<1>2. A = {} \cup Claimants(actors, carcasses, {s})
  OBVIOUS
<1>3. {s} \in SUBSET Sources /\ {} \in SUBSET Actors
  OBVIOUS
<1> HIDE DEF A
<1>4. Carcasses!Sweep({s}, {})
  BY <1>1, <1>2, <1>3, SweepStep
<1> QED BY <1>3, <1>4 DEF Carcasses!Next

---------------------------------------------------------------------------
(* Work that touches no claim *)

\* A change of one actor that leaves its claim and its receipt alone.
LEMMA Untouched ==
  ASSUME NEW as \in [Actors -> Actor], NEW a \in Actors, NEW new,
         new.pending = as[a].pending, new.committed = as[a].committed
  PROVE  /\ ClaimsOf([as EXCEPT ![a] = new]) = ClaimsOf(as)
         /\ ReceiptsOf([as EXCEPT ![a] = new]) = ReceiptsOf(as)
<1> DEFINE as2 == [as EXCEPT ![a] = new]
<1>1. \A b \in Actors : as2[b].pending = as[b].pending /\ as2[b].committed = as[b].committed
  OBVIOUS
<1> HIDE DEF as2
<1>2. ClaimsOf(as2) = ClaimsOf(as) /\ ReceiptsOf(as2) = ReceiptsOf(as)
  BY <1>1, Zenon DEF ClaimsOf, ReceiptsOf
<1> QED BY <1>2 DEF as2

\* The actor after a completed action, whatever it has on board now.
LEMMA Saved ==
  ASSUME NEW actor \in Actor, NEW v, NEW serial, NEW kind, NEW place, NEW requested, NEW portions
  PROVE  /\ SaveEvent([actor EXCEPT !.cargo = v], serial, kind, place, requested, portions).pending
              = actor.pending
         /\ SaveEvent([actor EXCEPT !.cargo = v], serial, kind, place, requested, portions).committed
              = actor.committed
BY DEF SaveEvent, Actor

\* The same when nothing is taken on board.
LEMMA SavedMeal ==
  ASSUME NEW actor \in Actor, NEW serial, NEW kind, NEW place, NEW requested, NEW portions
  PROVE  /\ SaveEvent(actor, serial, kind, place, requested, portions).pending = actor.pending
         /\ SaveEvent(actor, serial, kind, place, requested, portions).committed = actor.committed
BY DEF SaveEvent, Actor

\* A call that changes no claim, receipt or carcass does not show in the book.
LEMMA StaysInBook ==
  ASSUME Sound, NEW a \in Actors, NEW new,
         new.pending = actors[a].pending, new.committed = actors[a].committed,
         actors' = [actors EXCEPT ![a] = new], UNCHANGED <<carcasses, nextClaim>>
  PROVE  UNCHANGED Carcasses!vars
<1>1. actors \in [Actors -> Actor]
  BY DEF Sound, ClaimBooks
<1>2. ClaimsOf(actors') = ClaimsOf(actors) /\ ReceiptsOf(actors') = ReceiptsOf(actors)
  BY <1>1, Untouched
<1>3. /\ LastOf(carcasses)' = LastOf(carcasses) /\ OpenOf(carcasses)' = OpenOf(carcasses)
      /\ ClaimsOf(actors)' = ClaimsOf(actors') /\ ReceiptsOf(actors)' = ReceiptsOf(actors')
  BY DEF LastOf, OpenOf, ClaimsOf, ReceiptsOf
<1> QED BY <1>2, <1>3, Zenon DEF Carcasses!vars

\* Completed work of an actor is no business of the book, except that HarvestField
\* sweeps first.
LEMMA CompletedInBook ==
  ASSUME Sound, NEW a \in Actors, NEW n, NEW requested, Completed(a, n, requested)
  PROVE  Carcasses!Next \/ UNCHANGED Carcasses!vars
<1>1. actors[a] \in Actor
  BY DEF Sound, ClaimBooks
<1>2. ASSUME NEW d \in Depots, Steal(a, n, d, requested) PROVE UNCHANGED Carcasses!vars
  <2> DEFINE v == actors[a].cargo + Smaller(requested, CargoRoom(a, actors[a]))
             new == SaveEvent([actors[a] EXCEPT !.cargo = v], n, "Theft", d, requested,
                              Smaller(requested, CargoRoom(a, actors[a])))
  <2>1. actors' = [actors EXCEPT ![a] = new] /\ UNCHANGED <<carcasses, nextClaim>>
    BY <1>2 DEF Steal
  <2> HIDE DEF v
  <2>2. new.pending = actors[a].pending /\ new.committed = actors[a].committed
    BY <1>1, Saved
  <2> HIDE DEF new
  <2> QED BY <2>1, <2>2, StaysInBook
<1>3. ASSUME NEW d \in Depots, Load(a, n, d, requested) PROVE UNCHANGED Carcasses!vars
  <2> DEFINE amount == Smaller(requested, Smaller(CargoRoom(a, actors[a]), Surplus(d)))
             v == actors[a].cargo + amount
             new == SaveEvent([actors[a] EXCEPT !.cargo = v], n, "Loading", d, requested, amount)
  <2>1. actors' = [actors EXCEPT ![a] = new] /\ UNCHANGED <<carcasses, nextClaim>>
    BY <1>3 DEF Load
  <2> HIDE DEF v, amount
  <2>2. new.pending = actors[a].pending /\ new.committed = actors[a].committed
    BY <1>1, Saved
  <2> HIDE DEF new
  <2> QED BY <2>1, <2>2, StaysInBook
<1>4. ASSUME NEW d \in Depots, Deliver(a, n, d, requested) PROVE UNCHANGED Carcasses!vars
  <2> DEFINE amount == Smaller(requested, Smaller(actors[a].cargo, DepotRoom(d)))
             v == actors[a].cargo - amount
             new == SaveEvent([actors[a] EXCEPT !.cargo = v], n, "Delivery", d, requested, amount)
  <2>1. actors' = [actors EXCEPT ![a] = new] /\ UNCHANGED <<carcasses, nextClaim>>
    BY <1>4 DEF Deliver
  <2> HIDE DEF v, amount
  <2>2. new.pending = actors[a].pending /\ new.committed = actors[a].committed
    BY <1>1, Saved
  <2> HIDE DEF new
  <2> QED BY <2>1, <2>2, StaysInBook
<1>5. ASSUME NEW d \in Depots, EatDepot(a, n, d, requested) PROVE UNCHANGED Carcasses!vars
  <2> DEFINE new == SaveEvent(actors[a], n, "Meal", d, requested, requested)
  <2>1. actors' = [actors EXCEPT ![a] = new] /\ UNCHANGED <<carcasses, nextClaim>>
    BY <1>5 DEF EatDepot
  <2>2. new.pending = actors[a].pending /\ new.committed = actors[a].committed
    BY <1>1, SavedMeal
  <2> HIDE DEF new
  <2> QED BY <2>1, <2>2, StaysInBook
<1>6. ASSUME NEW f \in Fields, HarvestField(a, n, f, requested) PROVE Carcasses!Next
  <2> DEFINE owner == ExpiredActors[a]
             amount == Smaller(requested, Smaller(CargoRoom(a, owner), ExpiredFields[f].remaining))
             v == owner.cargo + amount
             new == SaveEvent([owner EXCEPT !.cargo = v], n, "FieldHarvest", f, requested, amount)
             as == [ExpiredActors EXCEPT ![a] = new]
  <2>1. actors' = as /\ carcasses' = ExpiredCarcasses /\ nextClaim' = nextClaim
    BY <1>6 DEF HarvestField
  <2>2. ExpiredActors \in [Actors -> Actor]
    BY ExpireSound DEF ClaimBooks
  <2>3. owner \in Actor
    BY <2>2
  <2> HIDE DEF v, amount
  <2>4. new.pending = owner.pending /\ new.committed = owner.committed
    BY <2>3, Saved
  <2> HIDE DEF new
  <2>5. ClaimsOf(as) = ClaimsOf(ExpiredActors) /\ ReceiptsOf(as) = ReceiptsOf(ExpiredActors)
    BY <2>2, <2>4, Untouched
  <2> HIDE DEF as
  <2> QED BY <2>1, <2>5, ExpiredStep
<1> QED BY <1>2, <1>3, <1>4, <1>5, <1>6 DEF Completed

---------------------------------------------------------------------------
(* New lives, claims, receipts and deaths *)

\* RegisterCarcass: the claims it releases are those on the carcass of the last life.
LEMMA RegisterInBook ==
  ASSUME Sound, NEW s \in Sources, NEW life \in Lives, NEW t, NEW portions,
         RegisterCarcass(s, life, t, portions)
  PROVE  Carcasses!Next
<1> DEFINE C == {r \in {s} : carcasses[r].active}
           A == Claimants(actors, carcasses, C)
           new == [life |-> life, remaining |-> portions, reserved |-> 0,
                   expires |-> t, active |-> TRUE]
           cs2 == [carcasses EXCEPT ![s] = new]
           as2 == Unclaimed(actors, A)
           o == OpenWithout(carcasses, {s})
           c == ClaimsWithout(actors, {s}, {})
<1>1. ClaimBooks(actors, carcasses) /\ carcasses \in [Sources -> Carcass]
      /\ actors \in [Actors -> Actor]
  BY DEF Sound, ClaimBooks
<1>2. actors' = as2 /\ carcasses' = cs2 /\ nextClaim' = nextClaim /\ life > carcasses[s].life
  BY DEF RegisterCarcass
<1>3. LastOf(cs2) = [LastOf(carcasses) EXCEPT ![s] = life]
  BY <1>1 DEF LastOf
<1>4. OpenOf(cs2) = [o EXCEPT ![s] = TRUE]
  <2>1. \A r \in Sources : cs2[r].active = (r = s \/ carcasses[r].active)
    BY <1>1 DEF Carcass
  <2>2. \A r \in Sources : o[r] = (OpenOf(carcasses)[r] /\ r # s)
    BY DEF OpenWithout
  <2>3. \A r \in Sources : OpenOf(carcasses)[r] = carcasses[r].active /\ carcasses[r].active \in BOOLEAN
    BY <1>1 DEF OpenOf, Carcass
  <2>4. o = [r \in Sources |-> o[r]]
    BY DEF OpenWithout
  <2>5. OpenOf(cs2) = [r \in Sources |-> cs2[r].active]
    BY DEF OpenOf
  <2> HIDE DEF o, cs2
  <2>6. ASSUME NEW r \in Sources PROVE [o EXCEPT ![s] = TRUE][r] = cs2[r].active
    <3>1. CASE r = s
      <4>1. [o EXCEPT ![s] = TRUE][r] = TRUE
        BY <2>4, <3>1
      <4> QED BY <2>1, <3>1, <4>1, Zenon
    <3>2. CASE r # s
      <4>1. [o EXCEPT ![s] = TRUE][r] = o[r]
        BY <2>4, <3>2
      <4>2. o[r] = carcasses[r].active /\ cs2[r].active = carcasses[r].active
        BY <2>1, <2>2, <2>3, <3>2, Zenon
      <4> QED BY <4>1, <4>2, Zenon
    <3> QED BY <3>1, <3>2
  <2>7. [o EXCEPT ![s] = TRUE] = [r \in Sources |-> [o EXCEPT ![s] = TRUE][r]]
    BY <2>4
  <2> QED BY <2>5, <2>6, <2>7
<1>5. ReceiptsOf(as2) = ReceiptsOf(actors)
  <2>1. \A a \in Actors : as2[a].committed = actors[a].committed
    BY <1>1 DEF Unclaimed, Actor
  <2> HIDE DEF as2
  <2> QED BY <2>1, Zenon DEF ReceiptsOf
<1>6. ClaimsOf(as2) = c
  <2>1. ASSUME NEW a \in Actors PROVE a \in A <=> actors[a].pending.source = s
    <3>1. C \in SUBSET Sources
      OBVIOUS
    <3>2. a \in A <=> actors[a].pending.source \in C
      BY <1>1, <3>1, ClaimantsInBook
    <3>3. actors[a].pending.source = s => carcasses[s].active
      <4>1. GoodClaim(actors, carcasses, a)
        BY <1>1 DEF ClaimBooks
      <4> QED BY <4>1, Domains DEF GoodClaim, NoClaim
    <3> QED BY <3>2, <3>3
  <2>2. \A a \in Actors : as2[a].pending = IF a \in A THEN NoClaim ELSE actors[a].pending
    BY <1>1 DEF Unclaimed, Actor
  <2> HIDE DEF as2, A
  <2>3. ASSUME NEW a \in Actors
        PROVE  ClaimsOf(as2)[a] = IF a \in {} \/ ClaimsOf(actors)[a].source \in {s}
                                  THEN Carcasses!NoClaim ELSE ClaimsOf(actors)[a]
    <3>1. CASE a \in A
      <4>1. as2[a].pending = NoClaim
        BY <2>2, <3>1
      <4>2. ClaimsOf(actors)[a].source \in {s}
        BY <2>1, <3>1, ClaimParts
      <4> QED BY <4>1, <4>2, ClaimParts
    <3>2. CASE a \notin A
      <4>1. as2[a].pending = actors[a].pending
        BY <2>2, <3>2
      <4>2. ~(a \in {} \/ ClaimsOf(actors)[a].source \in {s})
        BY <2>1, <3>2, ClaimParts
      <4>3. ClaimsOf(as2)[a] = ClaimsOf(actors)[a]
        BY <4>1 DEF ClaimsOf
      <4> QED BY <4>2, <4>3
    <3> QED BY <3>1, <3>2
  <2>4. ClaimsOf(as2) = [a \in Actors |-> ClaimsOf(as2)[a]]
    BY DEF ClaimsOf
  <2> QED BY <2>3, <2>4, Zenon DEF ClaimsWithout
<1> HIDE DEF o, c
<1>7. Carcasses!Swept(Carcasses!Book, {s}, {})
        = [last |-> LastOf(carcasses), open |-> o, claims |-> c, issued |-> nextClaim,
           receipts |-> ReceiptsOf(actors)]
  BY BookNow, SweptBook, Zenon DEF o, c
<1>8. Carcasses!Registered(Carcasses!Book, s, life)
        = [last |-> [LastOf(carcasses) EXCEPT ![s] = life], open |-> [o EXCEPT ![s] = TRUE],
           claims |-> c, issued |-> nextClaim, receipts |-> ReceiptsOf(actors)]
  BY SMTT(30), <1>7, RegisteredRecord
<1> HIDE DEF as2, cs2
<1>9. Carcasses!Registered(Carcasses!Book, s, life) = BookOf(actors', carcasses', nextClaim')
  BY <1>2, <1>3, <1>4, <1>5, <1>6, <1>8 DEF BookOf
<1>10. Carcasses!Becomes(Carcasses!Registered(Carcasses!Book, s, life))
  BY <1>9, BookNext, Zenon
<1>11. LastOf(carcasses)'[s] = life /\ LastOf(carcasses)[s] = carcasses[s].life /\ life \in Nat
  BY <1>1, <1>2, InputAssumption DEF LastOf, cs2
<1>12. Carcasses!Register(s)
  BY <1>2, <1>10, <1>11 DEF Carcasses!Register
<1> QED BY <1>12 DEF Carcasses!Next

\* Reserve grants a claim after its sweep.
LEMMA ReserveInBook ==
  ASSUME Sound, NEW a \in Actors, NEW s \in Sources, NEW life, NEW requested,
         Reserve(a, s, life, requested)
  PROVE  Carcasses!Next
<1> DEFINE as == ExpiredActors
           cs == ExpiredCarcasses
           amount == Claimable(as, cs, a, s, requested)
           claim == [serial |-> nextClaim + 1, source |-> s, life |-> life,
                     requested |-> requested, amount |-> amount,
                     expires |-> Smaller(now + ClaimTtlMs, cs[s].expires)]
           as2 == [as EXCEPT ![a].pending = claim]
           cs2 == [cs EXCEPT ![s].reserved = @ + amount]
           b == Carcasses!Swept(Carcasses!Book, DueCarcasses, LapsedClaims)
           entry == [serial |-> nextClaim + 1, source |-> s, life |-> LastOf(cs)[s]]
<1>1. as \in [Actors -> Actor] /\ cs \in [Sources -> Carcass]
  BY ExpireSound DEF ClaimBooks
<1>2. /\ cs[s].active /\ cs[s].life = life /\ as[a].pending = NoClaim
      /\ nextClaim' = nextClaim + 1 /\ actors' = as2 /\ carcasses' = cs2
  BY DEF Reserve
<1>3. b = BookOf(as, cs, nextClaim)
  BY ExpiredBook
<1> HIDE DEF as, cs, amount
<1>4. LastOf(cs2) = LastOf(cs) /\ OpenOf(cs2) = OpenOf(cs)
  <2>1. \A r \in Sources : cs2[r].life = cs[r].life /\ cs2[r].active = cs[r].active
    BY <1>1 DEF Carcass
  <2> HIDE DEF cs2
  <2> QED BY <2>1, Zenon DEF LastOf, OpenOf
<1>5. ReceiptsOf(as2) = ReceiptsOf(as)
  <2>1. \A c \in Actors : as2[c].committed = as[c].committed
    <3> HIDE DEF claim
    <3> QED BY <1>1 DEF Actor
  <2> HIDE DEF as2
  <2> QED BY <2>1, Zenon DEF ReceiptsOf
<1>6. ClaimsOf(as2) = [ClaimsOf(as) EXCEPT ![a] = entry]
  <2>1. LastOf(cs)[s] = life
    BY <1>2 DEF LastOf
  <2>2. as2[a].pending = claim /\ \A c \in Actors : c # a => as2[c] = as[c]
    <3> HIDE DEF claim
    <3> QED BY <1>1 DEF Actor
  <2>3. claim.serial = nextClaim + 1 /\ claim.source = s /\ claim.life = life
    OBVIOUS
  <2> HIDE DEF as2, claim
  <2>4. ClaimsOf(as2)[a] = entry
    BY <2>1, <2>2, <2>3 DEF ClaimsOf
  <2>5. \A c \in Actors : c # a => ClaimsOf(as2)[c] = ClaimsOf(as)[c]
    BY <2>2 DEF ClaimsOf
  <2>6. ClaimsOf(as2) = [c \in Actors |-> ClaimsOf(as2)[c]]
    BY DEF ClaimsOf
  <2>7. ClaimsOf(as) = [c \in Actors |-> ClaimsOf(as)[c]]
    BY DEF ClaimsOf
  <2> HIDE DEF entry
  <2> QED BY <2>4, <2>5, <2>6, <2>7
<1>7. Carcasses!Granted(b, a, s)
        = [last |-> LastOf(cs), open |-> OpenOf(cs), claims |-> [ClaimsOf(as) EXCEPT ![a] = entry],
           issued |-> nextClaim + 1, receipts |-> ReceiptsOf(as)]
  <2>1. ASSUME NEW l, l = LastOf(cs), NEW o, o = OpenOf(cs), NEW c, c = ClaimsOf(as),
               NEW r, r = ReceiptsOf(as)
        PROVE  Carcasses!Granted([last |-> l, open |-> o, claims |-> c, issued |-> nextClaim,
                                  receipts |-> r], a, s)
                 = [last |-> l, open |-> o,
                    claims |-> [c EXCEPT ![a] = [serial |-> nextClaim + 1, source |-> s, life |-> l[s]]],
                    issued |-> nextClaim + 1, receipts |-> r]
    BY GrantedRecord
  <2> HIDE DEF b
  <2> QED BY <1>3, <2>1, Zenon DEF BookOf
<1> HIDE DEF as2, cs2, entry
<1>8. Carcasses!Granted(b, a, s) = BookOf(actors', carcasses', nextClaim')
  BY <1>2, <1>4, <1>5, <1>6, <1>7, Zenon DEF BookOf
<1>9. Carcasses!Becomes(Carcasses!Granted(b, a, s))
  BY <1>8, BookNext, Zenon
<1>10. Carcasses!Grantable(b, a, s)
  <2>1. b.open = OpenOf(cs) /\ b.claims = ClaimsOf(as)
    <3> HIDE DEF b
    <3> QED BY <1>3 DEF BookOf
  <2>2. OpenOf(cs)[s] /\ ClaimsOf(as)[a] = Carcasses!NoClaim
    BY <1>2, ClaimParts DEF OpenOf
  <2> HIDE DEF b
  <2> QED BY <2>1, <2>2, Zenon DEF Carcasses!Grantable
<1>11. Carcasses!Reserve(a, s, DueCarcasses, LapsedClaims)
  BY <1>9, <1>10, Zenon DEF Carcasses!Reserve
<1> QED BY <1>11, ExpiredBook DEF Carcasses!Next

\* After the sweep of the same call a claim that is left can be honoured.
LEMMA AlwaysHonoured ==
  ASSUME Sound, NEW a \in Actors, ExpiredActors[a].pending # NoClaim
  PROVE  Honourable(ExpiredActors, ExpiredCarcasses, a)
<1> DEFINE as == ExpiredActors
           cs == ExpiredCarcasses
           claim == as[a].pending
           s == claim.source
<1>1. ClaimBooks(as, cs)
  BY ExpireSound
<1>2. GoodClaim(as, cs, a) /\ Exact(as, cs) /\ as[a] \in Actor /\ cs \in [Sources -> Carcass]
  BY <1>1 DEF ClaimBooks
<1>3. now < claim.expires
  <2>1. actors \in [Actors -> Actor] /\ now \in Nat
    BY InputAssumption DEF Sound, ClaimBooks
  <2>2. a \notin SweptClaims
    BY <2>1 DEF ExpiredActors, Unclaimed, Actor
  <2>3. claim = actors[a].pending
    BY <2>2 DEF ExpiredActors, Unclaimed
  <2>4. ~(now >= actors[a].pending.expires)
    BY <2>2, <2>3 DEF SweptClaims, LapsedClaims
  <2>5. actors[a].pending.expires \in Nat
    BY <2>1 DEF Actor, Claim
  <2>6. \A m, n \in Nat : ~(m >= n) => m < n
    OBVIOUS
  <2> QED BY <2>1, <2>3, <2>4, <2>5, <2>6, Zenon
<1> HIDE DEF as, cs
<1>4. /\ s \in Sources /\ cs[s].active /\ cs[s].life = claim.life
      /\ claim.amount <= cs[s].reserved
      /\ Hunts(a) => as[a].cargo + claim.amount <= Roster[a].capacity
  BY <1>2 DEF GoodClaim, as
<1>5. cs[s].reserved <= cs[s].remaining
  BY <1>2, <1>4 DEF Exact
<1>6. /\ claim.amount \in Nat /\ as[a].cargo \in Nat /\ Roster[a].capacity \in Nat
      /\ cs[s].reserved \in Nat /\ cs[s].remaining \in Nat
  BY <1>2, <1>4, RosterFacts DEF Actor, Claim, Carcass
<1> HIDE DEF claim, s
<1>7. ASSUME NEW m \in Nat, m = claim.amount, NEW n \in Nat, n = cs[s].reserved,
             NEW k \in Nat, k = cs[s].remaining
      PROVE  n >= m /\ k >= m
  <2>1. m <= n /\ n <= k
    BY <1>4, <1>5, <1>7, Zenon
  <2> QED BY <2>1
<1>8. cs[s].reserved >= claim.amount /\ cs[s].remaining >= claim.amount
  BY <1>6, <1>7, Zenon
<1>9. Hunts(a) => as[a].cargo <= Roster[a].capacity - claim.amount
  <2>1. \A m, n, k \in Nat : m + n <= k => m <= k - n
    OBVIOUS
  <2> QED BY <1>4, <1>6, <2>1, Zenon
<1> QED BY <1>3, <1>4, <1>8, <1>9 DEF Honourable, as, cs, claim, s

\* The claim of one actor becomes n in its receipt.
LEMMA ReceiptInBook ==
  ASSUME NEW as \in [Actors -> Actor], NEW as2, NEW a \in Actors, NEW n,
         as2[a].pending = NoClaim, as2[a].committed.serial = n,
         \A c \in Actors : c # a => as2[c] = as[c]
  PROVE  /\ ClaimsOf(as2) = [ClaimsOf(as) EXCEPT ![a] = Carcasses!NoClaim]
         /\ ReceiptsOf(as2) = [ReceiptsOf(as) EXCEPT ![a] = n]
<1>1. ClaimsOf(as2)[a] = Carcasses!NoClaim
  BY ClaimParts
<1>2. \A c \in Actors : c # a => ClaimsOf(as2)[c] = ClaimsOf(as)[c]
  BY DEF ClaimsOf
<1>3. /\ ClaimsOf(as2) = [c \in Actors |-> ClaimsOf(as2)[c]]
      /\ ClaimsOf(as) = [c \in Actors |-> ClaimsOf(as)[c]]
  BY DEF ClaimsOf
<1>4. ClaimsOf(as2) = [ClaimsOf(as) EXCEPT ![a] = Carcasses!NoClaim]
  <2> DEFINE none == Carcasses!NoClaim
  <2> HIDE DEF none
  <2>1. ClaimsOf(as2)[a] = none
    BY <1>1 DEF none
  <2>2. ClaimsOf(as2) = [ClaimsOf(as) EXCEPT ![a] = none]
    BY <1>2, <1>3, <2>1
  <2> QED BY <2>2 DEF none
<1>5. ReceiptsOf(as2) = [ReceiptsOf(as) EXCEPT ![a] = n]
  BY DEF ReceiptsOf
<1> QED BY <1>4, <1>5

\* Commit honours a claim after its sweep.
LEMMA CommitInBook ==
  ASSUME Sound, NEW a \in Actors, NEW serial, Commit(a, serial)
  PROVE  Carcasses!Next
<1> DEFINE as == ExpiredActors
           cs == ExpiredCarcasses
           portions == as[a].pending.amount
           eaten == IF IsPredator(a) THEN portions ELSE 0
           receipt == [serial |-> serial, portions |-> portions]
           s == as[a].pending.source
           as2 == [as EXCEPT ![a].pending = NoClaim, ![a].cargo = @ + (portions - eaten),
                             ![a].committed = receipt]
           cs2 == [cs EXCEPT ![s].remaining = @ - portions, ![s].reserved = @ - portions]
           b == Carcasses!Swept(Carcasses!Book, DueCarcasses, LapsedClaims)
<1>1. as \in [Actors -> Actor] /\ cs \in [Sources -> Carcass]
  BY ExpireSound DEF ClaimBooks
<1>2. as[a].pending.serial = serial /\ serial # 0
  BY DEF Commit
<1>3. as[a].pending # NoClaim
  BY <1>2 DEF NoClaim
<1>4. Honourable(as, cs, a)
  BY <1>3, AlwaysHonoured
<1>5. actors' = as2 /\ carcasses' = cs2 /\ nextClaim' = nextClaim
  BY <1>4 DEF Commit
<1>6. b = BookOf(as, cs, nextClaim)
  BY ExpiredBook
<1> HIDE DEF as, cs, b
<1>7. LastOf(cs2) = LastOf(cs) /\ OpenOf(cs2) = OpenOf(cs)
  <2> HIDE DEF portions
  <2>1. \A r \in Sources : cs2[r].life = cs[r].life /\ cs2[r].active = cs[r].active
    BY <1>1 DEF Carcass
  <2> HIDE DEF cs2
  <2> QED BY <2>1, Zenon DEF LastOf, OpenOf
<1>8. /\ as2[a].pending = NoClaim /\ as2[a].committed = receipt
      /\ \A c \in Actors : c # a => as2[c] = as[c]
  <2> HIDE DEF portions, eaten, receipt
  <2> QED BY <1>1 DEF Actor
<1>9. receipt.serial = serial
  OBVIOUS
<1> HIDE DEF as2, cs2, receipt, s
<1>10. /\ ClaimsOf(as2) = [ClaimsOf(as) EXCEPT ![a] = Carcasses!NoClaim]
       /\ ReceiptsOf(as2) = [ReceiptsOf(as) EXCEPT ![a] = serial]
  <2>1. as2[a].committed.serial = serial
    BY <1>8, <1>9, Zenon
  <2>2. as2[a].pending = NoClaim /\ \A c \in Actors : c # a => as2[c] = as[c]
    BY <1>8
  <2>3. ASSUME NEW x \in [Actors -> Actor], x = as, NEW y, y = as2
        PROVE  /\ ClaimsOf(y) = [ClaimsOf(x) EXCEPT ![a] = Carcasses!NoClaim]
               /\ ReceiptsOf(y) = [ReceiptsOf(x) EXCEPT ![a] = serial]
    <3>1. /\ y[a].pending = NoClaim /\ y[a].committed.serial = serial
          /\ \A c \in Actors : c # a => y[c] = x[c]
      BY <2>1, <2>2, <2>3, Zenon
    <3> QED BY <3>1, ReceiptInBook
  <2> QED BY <1>1, <2>3, Zenon
<1>11. Carcasses!Honoured(b, a) = Receipted(b, a, serial)
  <2>1. b.claims[a].serial = serial
    BY <1>2, <1>6 DEF BookOf, ClaimsOf
  <2> QED BY <2>1, Zenon DEF Carcasses!Honoured, Receipted
<1>12. Carcasses!Honoured(b, a)
         = [last |-> LastOf(cs), open |-> OpenOf(cs),
            claims |-> [ClaimsOf(as) EXCEPT ![a] = Carcasses!NoClaim],
            issued |-> nextClaim, receipts |-> [ReceiptsOf(as) EXCEPT ![a] = serial]]
  <2>1. ASSUME NEW l, l = LastOf(cs), NEW o, o = OpenOf(cs), NEW c, c = ClaimsOf(as),
               NEW r, r = ReceiptsOf(as)
        PROVE  Receipted([last |-> l, open |-> o, claims |-> c, issued |-> nextClaim,
                           receipts |-> r], a, serial)
                 = [last |-> l, open |-> o, claims |-> [c EXCEPT ![a] = Carcasses!NoClaim],
                    issued |-> nextClaim, receipts |-> [r EXCEPT ![a] = serial]]
    BY ReceiptRecord
  <2>2. b = [last |-> LastOf(cs), open |-> OpenOf(cs), claims |-> ClaimsOf(as),
             issued |-> nextClaim, receipts |-> ReceiptsOf(as)]
    BY <1>6, Zenon DEF BookOf
  <2>3. Receipted(b, a, serial)
          = [last |-> LastOf(cs), open |-> OpenOf(cs),
             claims |-> [ClaimsOf(as) EXCEPT ![a] = Carcasses!NoClaim],
             issued |-> nextClaim, receipts |-> [ReceiptsOf(as) EXCEPT ![a] = serial]]
    BY <2>1, <2>2, Zenon
  <2> QED BY <1>11, <2>3, Zenon
<1>13. Carcasses!Honoured(b, a) = BookOf(actors', carcasses', nextClaim')
  BY <1>5, <1>7, <1>10, <1>12, Zenon DEF BookOf
<1>14. Carcasses!Becomes(Carcasses!Honoured(b, a))
  BY <1>13, BookNext, Zenon
<1>15. b.claims[a] # Carcasses!NoClaim
  <2>1. b.claims[a].serial = serial /\ Carcasses!NoClaim.serial = 0
    BY <1>2, <1>6 DEF BookOf, ClaimsOf, Carcasses!NoClaim
  <2> QED BY <1>2, <2>1
<1>16. Carcasses!Commit(a, DueCarcasses, LapsedClaims)
  BY <1>14, <1>15, Zenon DEF Carcasses!Commit, b
<1> QED BY <1>16, ExpiredBook DEF Carcasses!Next

\* DropCargo forgets an actor's claim and receipt.
LEMMA DropCargoInBook ==
  ASSUME Sound, NEW a \in Actors, DropCargo(a)
  PROVE  Carcasses!Next
<1> DEFINE as2 == [actors EXCEPT ![a] = [@ EXCEPT !.pending = NoClaim, !.cargo = 0,
                                                  !.committed = NoCommit, !.lastEvent = NoEvent]]
           cs2 == Release(actors, carcasses, {a})
<1>1. actors \in [Actors -> Actor] /\ carcasses \in [Sources -> Carcass]
  BY DEF Sound, ClaimBooks
<1>2. actors' = as2 /\ carcasses' = cs2 /\ nextClaim' = nextClaim
  BY DEF DropCargo
<1>3. LastOf(cs2) = LastOf(carcasses) /\ OpenOf(cs2) = OpenOf(carcasses)
  <2>1. \A r \in Sources : cs2[r].life = carcasses[r].life /\ cs2[r].active = carcasses[r].active
    BY <1>1 DEF Release, Carcass
  <2> HIDE DEF cs2
  <2> QED BY <2>1, Zenon DEF LastOf, OpenOf
<1>4. /\ as2[a].pending = NoClaim /\ as2[a].committed = NoCommit
      /\ \A c \in Actors : c # a => as2[c] = actors[c]
  BY <1>1 DEF Actor
<1>5. NoCommit.serial = 0
  BY DEF NoCommit
<1> HIDE DEF as2, cs2
<1>6. /\ ClaimsOf(as2) = [ClaimsOf(actors) EXCEPT ![a] = Carcasses!NoClaim]
      /\ ReceiptsOf(as2) = [ReceiptsOf(actors) EXCEPT ![a] = 0]
  BY <1>1, <1>4, <1>5, ReceiptInBook
<1>7. Carcasses!Forgotten(Carcasses!Book, a)
        = [last |-> LastOf(carcasses), open |-> OpenOf(carcasses),
           claims |-> [ClaimsOf(actors) EXCEPT ![a] = Carcasses!NoClaim],
           issued |-> nextClaim, receipts |-> [ReceiptsOf(actors) EXCEPT ![a] = 0]]
  <2>1. ASSUME NEW l, l = LastOf(carcasses), NEW o, o = OpenOf(carcasses), NEW c, c = ClaimsOf(actors),
               NEW r, r = ReceiptsOf(actors)
        PROVE  Receipted([last |-> l, open |-> o, claims |-> c, issued |-> nextClaim,
                           receipts |-> r], a, 0)
                 = [last |-> l, open |-> o, claims |-> [c EXCEPT ![a] = Carcasses!NoClaim],
                    issued |-> nextClaim, receipts |-> [r EXCEPT ![a] = 0]]
    BY ReceiptRecord
  <2>2. Carcasses!Forgotten(Carcasses!Book, a) = Receipted(BookOf(actors, carcasses, nextClaim), a, 0)
    BY BookNow, Zenon DEF Carcasses!Forgotten, Receipted
  <2> QED BY <2>1, <2>2, Zenon DEF BookOf
<1>8. Carcasses!Forgotten(Carcasses!Book, a) = BookOf(actors', carcasses', nextClaim')
  BY <1>2, <1>3, <1>6, <1>7, Zenon DEF BookOf
<1>9. Carcasses!Forget(a)
  BY <1>8, BookNext, Zenon DEF Carcasses!Forget
<1> QED BY <1>9 DEF Carcasses!Next

---------------------------------------------------------------------------
(* The refinement *)

\* The ledger starts with an empty book.
LEMMA InitInBook ==
  ASSUME Init
  PROVE  Carcasses!Init
<1>1. LastOf(carcasses) = [s \in Sources |-> 0] /\ OpenOf(carcasses) = [s \in Sources |-> FALSE]
  BY DEF Init, LastOf, OpenOf
<1>2. \A a \in Actors : actors[a].pending = NoClaim /\ actors[a].committed.serial = 0
  BY DEF Init, NoCommit
<1>3. ReceiptsOf(actors) = [a \in Actors |-> 0]
  BY <1>2 DEF ReceiptsOf
<1>4. \A a \in Actors : ClaimsOf(actors)[a] = Carcasses!NoClaim
  BY <1>2, ClaimParts
<1>5. ClaimsOf(actors) = [a \in Actors |-> ClaimsOf(actors)[a]]
  BY DEF ClaimsOf
<1>6. ClaimsOf(actors) = [a \in Actors |-> Carcasses!NoClaim]
  BY <1>4, <1>5, Zenon
<1>7. nextClaim = 0
  BY DEF Init
<1> QED BY <1>1, <1>3, <1>6, <1>7, Zenon DEF Carcasses!Init

\* Each step of the ledger is one of the book, or the book does not notice it.
LEMMA NextInBook ==
  ASSUME Sound, [Next]_vars
  PROVE  Carcasses!Next \/ UNCHANGED Carcasses!vars
<1>1. ASSUME UNCHANGED <<actors, carcasses, nextClaim>> PROVE UNCHANGED Carcasses!vars
  BY <1>1 DEF Carcasses!vars, LastOf, OpenOf, ClaimsOf, ReceiptsOf
<1>2. CASE UNCHANGED vars
  BY <1>1, <1>2 DEF vars
<1>3. ASSUME NEW t \in Times, Clock(t) PROVE UNCHANGED Carcasses!vars
  BY <1>1, <1>3 DEF Clock
<1>4. CASE Expire
  BY <1>4, ExpireInBook
<1>5. ASSUME NEW s \in Sources, NEW life \in Lives, OnCarcass(s, life) PROVE Carcasses!Next
  BY <1>5, RegisterInBook, CloseInBook, ReserveInBook DEF OnCarcass
<1>6. ASSUME NEW a \in Actors, ByActor(a) PROVE Carcasses!Next \/ UNCHANGED Carcasses!vars
  BY <1>6, CommitInBook, CancelInBook, DropCargoInBook, CompletedInBook DEF ByActor
<1> QED BY <1>2, <1>3, <1>4, <1>5, <1>6 DEF Next

\* LivingSupply::Ledger keeps the book of carcasses and claims that the world
\* thread relies on, whatever its callers ask in whatever order, for every
\* configuration: every call of it is one step of the book, sweep included.
THEOREM LedgerImplementsBook == Spec => ImplementsBook
<1>1. Init => Carcasses!Init
  BY InitInBook
<1>2. Sound /\ [Next]_vars => [Carcasses!Next]_(Carcasses!vars)
  BY NextInBook
<1> QED BY <1>1, <1>2, LedgerSound, PTL DEF Spec, ImplementsBook, Carcasses!Spec

---------------------------------------------------------------------------
(* What holds of the book holds of the ledger *)

Promise ==
  INSTANCE CarcassBookProofs WITH
    last <- LastOf(carcasses), open <- OpenOf(carcasses), claims <- ClaimsOf(actors),
    issued <- nextClaim, receipts <- ReceiptsOf(actors)

\* The book that CarcassBookProofs is about is the same one.
LEMMA SameInit == Carcasses!Init => Promise!Init
BY DEF Carcasses!Init, Promise!Init, Carcasses!NoClaim, Promise!NoClaim

\* It has the same variables.
LEMMA SameStutter == UNCHANGED Carcasses!vars => UNCHANGED Promise!vars
BY DEF Carcasses!vars, Promise!vars

\* It has the same steps.
LEMMA SameNext == Carcasses!Next => Promise!Next
BY Zenon DEF Carcasses!Next, Carcasses!Register, Carcasses!Forget, Carcasses!Sweep,
             Carcasses!Reserve, Carcasses!Commit, Carcasses!Becomes, Carcasses!Book,
             Carcasses!Swept, Carcasses!Registered, Carcasses!Granted, Carcasses!Grantable,
             Carcasses!Honoured, Carcasses!Forgotten, Carcasses!NoClaim,
             Promise!Next, Promise!Register, Promise!Forget, Promise!Sweep,
             Promise!Reserve, Promise!Commit, Promise!Becomes, Promise!Book,
             Promise!Swept, Promise!Registered, Promise!Granted, Promise!Grantable,
             Promise!Honoured, Promise!Forgotten, Promise!NoClaim

\* The invariant of the book is kept by the steps of the ledger.
LEMMA PromiseKept ==
  ASSUME Sound, Promise!Sound, [Next]_vars
  PROVE  Promise!Sound'
<1>1. Promise!Next \/ UNCHANGED Promise!vars
  BY NextInBook, SameNext, SameStutter
<1>2. [Promise!Next]_(Promise!vars)
  BY <1>1
<1> QED BY <1>2, Promise!NextSound

\* What the invariant of the book says about serials.
LEMMA TokensFromBook ==
  ASSUME Sound, Promise!Sound
  PROVE  TokensUnique
<1> DEFINE c == ClaimsOf(actors)
           r == ReceiptsOf(actors)
<1>1. /\ \A a \in Actors : r[a] <= nextClaim
      /\ \A a \in Actors : c[a] # Promise!NoClaim =>
           /\ c[a].serial \in 1..nextClaim
           /\ \A b \in Actors : r[b] # c[a].serial /\ (b # a => c[b].serial # c[a].serial)
  <2>1. Promise!ReceiptsIssued /\ Promise!ClaimsOpen
    BY DEF Promise!Sound
  <2>2. \A a \in Actors : r[a] <= nextClaim
    BY <2>1, Zenon DEF Promise!ReceiptsIssued
  <2>3. ASSUME NEW a \in Actors, c[a] # Promise!NoClaim
        PROVE  /\ c[a].serial \in 1..nextClaim
               /\ \A b \in Actors : r[b] # c[a].serial /\ (b # a => c[b].serial # c[a].serial)
    BY <2>1, <2>3, Zenon DEF Promise!ClaimsOpen
  <2> QED BY <2>2, <2>3
<1>2. /\ \A a \in Actors : r[a] = actors[a].committed.serial
      /\ \A a \in Actors : c[a].serial = actors[a].pending.serial
      /\ \A a \in Actors : c[a].source = actors[a].pending.source
  BY DEF ClaimsOf, ReceiptsOf
<1> HIDE DEF c, r
<1>3. ASSUME NEW a \in Actors, actors[a].pending # NoClaim PROVE c[a] # Promise!NoClaim
  <2>1. GoodClaim(actors, carcasses, a)
    BY DEF Sound, ClaimBooks
  <2>2. actors[a].pending.source \in Sources
    BY <1>3, <2>1 DEF GoodClaim
  <2>3. c[a].source # 0
    BY <1>2, <2>2, Domains
  <2>4. Promise!NoClaim.source = 0
    BY DEF Promise!NoClaim
  <2> QED BY <2>3, <2>4
<1> QED BY <1>1, <1>2, <1>3 DEF TokensUnique

\* Claim serials are never shared or reissued, and what was committed once is
\* never pending again: Reserve, Commit and Cancel keep the book's promise for
\* every configuration.
THEOREM LedgerTokens == Spec => []TokensUnique
<1>1. Init => Promise!Sound
  BY InitInBook, SameInit, Promise!InitSound
<1>2. Sound /\ Promise!Sound /\ [Next]_vars => Promise!Sound'
  BY PromiseKept
<1>3. Sound /\ Promise!Sound => TokensUnique
  BY TokensFromBook
<1> QED BY <1>1, <1>2, <1>3, LedgerSound, PTL DEF Spec
=============================================================================
