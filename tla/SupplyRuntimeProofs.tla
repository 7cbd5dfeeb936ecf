------------------------ MODULE SupplyRuntimeProofs ------------------------
(***************************************************************************)
(* One carcass per death, claims that are held, and harvests of the death  *)
(* they were claimed for, for every set of sources and hunters and however *)
(* creatures live, die, unload and come back.                              *)
(*                                                                         *)
(* A pass changes the records in several calls, so the invariant is stated *)
(* of the record that the calls pass on (WellKept), shown to survive each  *)
(* call, and carried over to the state where the pass ends.                *)
(***************************************************************************)
EXTENDS SupplyRuntime, CarcassBookProofs

Observation == [guid : Nat, life : Nat, alive : BOOLEAN]
ActorRecord == [guid : Nat, live : BOOLEAN, claim : Nat, corpse : [source : Nat, life : Nat]]
RoleRecord == [guid : Nat, phase : {"idle", "hunting", "feeding"},
               target : [source : Nat, guid : Nat]]
Creature == [guid : Nat, alive : BOOLEAN]

\* The creatures: a live one has a guid, and no guid is given out twice.
World ==
  /\ prey \in [Sources -> Creature] /\ npc \in [Actors -> Creature]
  /\ spawned \in [Spawns -> Nat] /\ deaths \in [Sources -> Nat]
  /\ \A s \in Sources : prey[s].guid <= spawned[s] /\ (prey[s].alive => prey[s].guid # 0)

\* The records of a pass.
Typed(p) ==
  /\ p = [book |-> p.book, seen |-> p.seen, actors |-> p.actors, roles |-> p.roles,
          ofDeath |-> p.ofDeath, claimant |-> p.claimant]
  /\ SoundIn(p.book)
  /\ p.seen \in [Sources -> Observation]
  /\ p.actors \in [Actors -> ActorRecord] /\ p.roles \in [Actors -> RoleRecord]
  /\ DOMAIN p.ofDeath = Sources /\ p.claimant \in [Actors -> Nat]
  /\ \A a \in Actors : p.actors[a].claim <= p.book.issued

\* No carcass is ahead of the observed life, and that of a life that is not
\* known to be over has not been registered.
LifeAhead(p, s) ==
  /\ p.book.last[s] <= p.seen[s].life
  /\ p.seen[s].alive => p.book.last[s] < p.seen[s].life

\* The lives of a source are registered for different deaths, and none is
\* registered for a death that is still to be observed.
DeathsApart(p, s) ==
  /\ \A l \in DOMAIN p.ofDeath[s] : p.ofDeath[s][l] \in 0..deaths[s]
  /\ \A l, m \in DOMAIN p.ofDeath[s] : l # m => p.ofDeath[s][l] # p.ofDeath[s][m]
  /\ prey[s] # Unloaded /\ NewDeath(p, s) =>
       \A l \in DOMAIN p.ofDeath[s] : p.ofDeath[s][l] # deaths[s]

\* While the creature that a hunter is after is there, it is the observed one: it is
\* not known to be dead, or its carcass is that of its last death.
Watched(p, s) ==
  \/ p.seen[s].alive
  \/ /\ ~ prey[s].alive
     /\ p.book.last[s] = p.seen[s].life => p.ofDeath[s][p.book.last[s]] = deaths[s]

\* The target of a hunter is a creature that was there.
Aimed(p, a) ==
  LET target == p.roles[a].target
      s == target.source
  IN /\ p.roles[a].phase = "idle" <=> target = NoTarget
     /\ target # NoTarget => s \in Sources /\ target.guid \in 1..spawned[s]
     /\ Present(target) => p.seen[s].guid = target.guid /\ Watched(p, s)

\* A pending claim is remembered by the actor that was bound when it was made, which
\* works on it.
Held(p, a) ==
  LET claim == p.book.claims[a]
  IN claim # NoClaim =>
       /\ p.actors[a].claim = claim.serial
       /\ p.actors[a].corpse = [source |-> claim.source, life |-> claim.life]
       /\ p.roles[a].phase = "feeding" /\ p.roles[a].target.source = claim.source
       /\ p.roles[a].guid = p.claimant[a] /\ p.actors[a].guid = p.claimant[a]

WellKept(p) ==
  /\ Typed(p)
  /\ \A s \in Sources : LifeAhead(p, s) /\ DeathsApart(p, s)
  /\ \A a \in Actors : Aimed(p, a) /\ Held(p, a)

Inv == World /\ WellKept(Pass)

---------------------------------------------------------------------------
(* What a call leaves of the books *)

\* The claims that are swept are gone, and nothing else of the book changes.
LEMMA SweptBook ==
  ASSUME NEW b, SoundIn(b), NEW C \in SUBSET Sources, NEW A \in SUBSET Actors
  PROVE  /\ SoundIn(Swept(b, C, A))
         /\ Swept(b, C, A).last = b.last /\ Swept(b, C, A).issued = b.issued
         /\ Swept(b, C, A).receipts = b.receipts
         /\ \A a \in Actors : /\ Swept(b, C, A).claims[a] \in {b.claims[a], NoClaim}
                              /\ a \in A => Swept(b, C, A).claims[a] = NoClaim
<1>1. b \in Books
  BY DEF SoundIn
<1>2. SoundIn(Swept(b, C, A))
  BY SweptSound
<1>3. /\ Swept(b, C, A).last = b.last /\ Swept(b, C, A).issued = b.issued
      /\ Swept(b, C, A).receipts = b.receipts
      /\ Swept(b, C, A).claims = [a \in Actors |-> IF a \in A \/ b.claims[a].source \in C
                                                   THEN NoClaim ELSE b.claims[a]]
  BY <1>1 DEF Swept, Books
<1>4. \A a \in Actors : /\ Swept(b, C, A).claims[a] \in {b.claims[a], NoClaim}
                        /\ a \in A => Swept(b, C, A).claims[a] = NoClaim
  BY <1>3
<1> QED
  BY <1>2, <1>3, <1>4

\* A carcass that is registered closes the one before it and its claims.
LEMMA RegisteredBook ==
  ASSUME NEW b, SoundIn(b), NEW s \in Sources, NEW life \in Nat
  PROVE  /\ SoundIn(Registered(b, s, life))
         /\ Registered(b, s, life).last = [b.last EXCEPT ![s] = life]
         /\ Registered(b, s, life).issued = b.issued
         /\ Registered(b, s, life).receipts = b.receipts
         /\ \A a \in Actors : Registered(b, s, life).claims[a] \in {b.claims[a], NoClaim}
<1> DEFINE w == Swept(b, {s}, {})
<1>1. /\ SoundIn(w) /\ w.last = b.last /\ w.issued = b.issued /\ w.receipts = b.receipts
      /\ \A a \in Actors : w.claims[a] \in {b.claims[a], NoClaim}
  <2>1. {s} \in SUBSET Sources /\ {} \in SUBSET Actors
    OBVIOUS
  <2> QED
    BY <2>1, SweptBook
<1>2. SoundIn(Registered(b, s, life))
  BY RegisteredSound
<1>3. Registered(b, s, life) = [w EXCEPT !.last[s] = life, !.open[s] = TRUE]
  BY DEF Registered
<1>4. w \in Books
  BY <1>1 DEF SoundIn
<1> HIDE DEF w
<1>5. /\ Registered(b, s, life).last = [w.last EXCEPT ![s] = life]
      /\ Registered(b, s, life).issued = w.issued
      /\ Registered(b, s, life).receipts = w.receipts
      /\ Registered(b, s, life).claims = w.claims
  BY <1>3, <1>4 DEF Books
<1> QED
  BY <1>1, <1>2, <1>5

\* An actor whose claim is settled, with or without a receipt.
LEMMA SettledBook ==
  ASSUME NEW b, SoundIn(b), NEW a \in Actors, NEW n \in {0, b.claims[a].serial}
  PROVE  LET q == [b EXCEPT !.receipts[a] = n, !.claims[a] = NoClaim]
         IN /\ SoundIn(q)
            /\ q.last = b.last /\ q.issued = b.issued
            /\ q.receipts = [b.receipts EXCEPT ![a] = n]
            /\ q.claims = [b.claims EXCEPT ![a] = NoClaim]
<1>1. b \in Books
  BY DEF SoundIn
<1>2. SoundIn([b EXCEPT !.receipts[a] = n, !.claims[a] = NoClaim])
  BY SettledSound
<1> QED
  BY <1>1, <1>2 DEF Books

\* A pass that leaves the observations alone, takes claims away from the actors K and
\* changes nothing else of them, keeps the records well when it does so for the others.
LEMMA RecordsKept ==
  ASSUME NEW p, WellKept(p), NEW q, Typed(q), NEW K \in SUBSET Actors,
         q.seen = p.seen, q.ofDeath = p.ofDeath, q.book.last = p.book.last,
         \A a \in K : /\ q.book.claims[a] \in {p.book.claims[a], NoClaim}
                      /\ q.actors[a] = p.actors[a] /\ q.roles[a] = p.roles[a]
                      /\ q.claimant[a] = p.claimant[a],
         \A a \in Actors \ K : Aimed(q, a) /\ Held(q, a)
  PROVE  WellKept(q)
<1>1. ASSUME NEW s \in Sources PROVE LifeAhead(q, s) /\ DeathsApart(q, s)
  <2>1. LifeAhead(p, s) /\ DeathsApart(p, s)
    BY DEF WellKept
  <2>2. LifeAhead(q, s)
    BY <2>1 DEF LifeAhead
  <2>3. NewDeath(q, s) = NewDeath(p, s)
    BY DEF NewDeath, NewGuid
  <2>4. DeathsApart(q, s)
    BY <2>1, <2>3 DEF DeathsApart
  <2> QED
    BY <2>2, <2>4
<1>2. ASSUME NEW a \in K PROVE Aimed(q, a) /\ Held(q, a)
  <2>1. Aimed(p, a) /\ Held(p, a)
    BY DEF WellKept
  <2>2. Aimed(q, a)
    BY <2>1 DEF Aimed, Watched
  <2>3. Held(q, a)
    BY <2>1 DEF Held
  <2> QED
    BY <2>2, <2>3
<1> QED
  BY <1>1, <1>2 DEF WellKept

\* A book from which claims disappeared.
LEMMA BookReplaced ==
  ASSUME NEW p, WellKept(p), NEW b, SoundIn(b), b.last = p.book.last, b.issued = p.book.issued,
         \A a \in Actors : b.claims[a] \in {p.book.claims[a], NoClaim}
  PROVE  WellKept([p EXCEPT !.book = b])
<1> DEFINE q == [p EXCEPT !.book = b]
<1>1. /\ q.book = b /\ q.seen = p.seen /\ q.actors = p.actors /\ q.roles = p.roles
      /\ q.ofDeath = p.ofDeath /\ q.claimant = p.claimant
      /\ q = [book |-> q.book, seen |-> q.seen, actors |-> q.actors, roles |-> q.roles,
              ofDeath |-> q.ofDeath, claimant |-> q.claimant]
  BY DEF WellKept, Typed
<1> HIDE DEF q
<1>2. Typed(q)
  BY <1>1 DEF WellKept, Typed
<1>3. WellKept(q)
  BY <1>1, <1>2, RecordsKept
<1> QED
  BY <1>3 DEF q

---------------------------------------------------------------------------
(* ObserveLivingSupply *)

\* The carcass of the life before is closed.
LEMMA ClosedBook ==
  ASSUME NEW b, SoundIn(b), NEW s \in Sources, NEW life
  PROVE  LET c == CloseCarcass(b, s, life)
         IN /\ SoundIn(c) /\ c.last = b.last /\ c.issued = b.issued /\ c.receipts = b.receipts
            /\ \A a \in Actors : c.claims[a] \in {b.claims[a], NoClaim}
<1>1. {s} \in SUBSET Sources /\ {} \in SUBSET Actors
  OBVIOUS
<1> QED
  BY <1>1, SweptBook DEF CloseCarcass

\* What an observation of a prey that is there does: the observation is kept, the
\* carcass of the life before may be closed, and a new death is registered for the life
\* that it ends, which has no carcass yet.
LEMMA ObservationMade ==
  ASSUME NEW p, WellKept(p), World, NEW s \in Sources, prey[s] # Unloaded
  PROVE  LET q == SourceObserved(p, s)
             life == LifeNow(p, s)
         IN /\ q = [book |-> q.book, seen |-> q.seen, actors |-> p.actors, roles |-> p.roles,
                    ofDeath |-> q.ofDeath, claimant |-> p.claimant]
            /\ SoundIn(q.book) /\ q.book.issued = p.book.issued
            /\ q.book.receipts = p.book.receipts
            /\ \A a \in Actors : q.book.claims[a] \in {p.book.claims[a], NoClaim}
            /\ q.seen = [p.seen EXCEPT ![s] = [guid |-> prey[s].guid, life |-> life,
                                               alive |-> prey[s].alive]]
            /\ DOMAIN q.ofDeath = Sources
            /\ \A x \in Sources \ {s} : q.ofDeath[x] = p.ofDeath[x]
            /\ NewDeath(p, s) =>
                 /\ q.book.last = [p.book.last EXCEPT ![s] = life]
                 /\ q.ofDeath[s] = [l \in DOMAIN p.ofDeath[s] \union {life} |->
                                      IF l = life THEN deaths[s] ELSE p.ofDeath[s][l]]
            /\ ~ NewDeath(p, s) => q.book.last = p.book.last /\ q.ofDeath[s] = p.ofDeath[s]
            /\ life \in Nat /\ life >= p.seen[s].life
            /\ NewDeath(p, s) => life > p.book.last[s]
<1> DEFINE life == LifeNow(p, s)
           closes == p.seen[s].life # 0 /\ (prey[s] = Unloaded \/ NewLife(p, s))
           closed == IF closes THEN CloseCarcass(p.book, s, p.seen[s].life) ELSE p.book
           dies == NewDeath(p, s) /\ life # 0
           book == IF dies THEN RegisterCarcass(closed, s, life) ELSE closed
           map == [l \in DOMAIN p.ofDeath[s] \union {life} |->
                     IF l = life THEN deaths[s] ELSE p.ofDeath[s][l]]
           q == SourceObserved(p, s)
<1>1. /\ p = [book |-> p.book, seen |-> p.seen, actors |-> p.actors, roles |-> p.roles,
              ofDeath |-> p.ofDeath, claimant |-> p.claimant]
      /\ SoundIn(p.book) /\ p.seen \in [Sources -> Observation] /\ DOMAIN p.ofDeath = Sources
      /\ p.seen[s].life \in Nat
      /\ p.book.last \in [Sources -> Nat] /\ p.book.last[s] \in Nat
  BY DEF WellKept, Typed, SoundIn, Books, Observation
<1>2. /\ SoundIn(closed) /\ closed.last = p.book.last /\ closed.issued = p.book.issued
      /\ closed.receipts = p.book.receipts
      /\ \A a \in Actors : closed.claims[a] \in {p.book.claims[a], NoClaim}
  <2>1. CASE closes
    BY <1>1, <2>1, ClosedBook
  <2>2. CASE ~ closes
    BY <1>1, <2>2
  <2> QED
    BY <2>1, <2>2
<1>3. /\ life \in Nat /\ life >= p.seen[s].life
      /\ NewDeath(p, s) => life > p.book.last[s] /\ life # 0
  <2>1. LifeAhead(p, s)
    BY DEF WellKept
  <2>2. life = p.seen[s].life + 1 \/ life = p.seen[s].life
    BY DEF LifeNow
  <2>3. NewDeath(p, s) => life = p.seen[s].life + 1 \/ p.seen[s].alive
    BY DEF NewDeath, LifeNow, NewLife
  <2> HIDE DEF life
  <2> QED
    BY <1>1, <2>1, <2>2, <2>3 DEF LifeAhead
<1>4. q = [p EXCEPT !.seen[s] = Observed(p, s), !.book = book,
                    !.ofDeath[s] = IF dies /\ life > closed.last[s] THEN map ELSE @]
  BY DEF SourceObserved
<1>5. Observed(p, s) = [guid |-> prey[s].guid, life |-> life, alive |-> prey[s].alive]
  BY DEF Observed
<1>6. dies <=> NewDeath(p, s)
  BY <1>3
<1>7. /\ SoundIn(book) /\ book.issued = p.book.issued /\ book.receipts = p.book.receipts
      /\ \A a \in Actors : book.claims[a] \in {p.book.claims[a], NoClaim}
      /\ NewDeath(p, s) => book.last = [p.book.last EXCEPT ![s] = life]
      /\ ~ NewDeath(p, s) => book.last = p.book.last
  <2> HIDE DEF life, closed, dies
  <2>1. CASE NewDeath(p, s)
    <3>1. book = Registered(closed, s, life)
      BY <1>2, <1>3, <1>6, <2>1 DEF RegisterCarcass
    <3>2. /\ SoundIn(Registered(closed, s, life))
          /\ Registered(closed, s, life).last = [closed.last EXCEPT ![s] = life]
          /\ Registered(closed, s, life).issued = closed.issued
          /\ Registered(closed, s, life).receipts = closed.receipts
          /\ \A a \in Actors : Registered(closed, s, life).claims[a] \in {closed.claims[a], NoClaim}
      BY <1>2, <1>3, RegisteredBook
    <3> HIDE DEF book
    <3> QED
      BY <1>2, <2>1, <3>1, <3>2
  <2>2. CASE ~ NewDeath(p, s)
    BY <1>2, <1>6, <2>2
  <2> QED
    BY <2>1, <2>2
<1> HIDE DEF life, closed, dies, book, map
<1>8. dies /\ life > closed.last[s] <=> NewDeath(p, s)
  BY <1>2, <1>3, <1>6
<1>9. q = [book |-> book, seen |-> [p.seen EXCEPT ![s] = Observed(p, s)], actors |-> p.actors,
           roles |-> p.roles,
           ofDeath |-> [p.ofDeath EXCEPT ![s] = IF NewDeath(p, s) THEN map ELSE @],
           claimant |-> p.claimant]
  BY <1>1, <1>4, <1>8
<1> HIDE DEF q
<1>10. /\ DOMAIN q.ofDeath = Sources
       /\ \A x \in Sources \ {s} : q.ofDeath[x] = p.ofDeath[x]
       /\ q.ofDeath[s] = IF NewDeath(p, s) THEN map ELSE p.ofDeath[s]
  BY <1>1, <1>9
<1>11. /\ q = [book |-> q.book, seen |-> q.seen, actors |-> p.actors, roles |-> p.roles,
               ofDeath |-> q.ofDeath, claimant |-> p.claimant]
       /\ q.book = book /\ q.seen = [p.seen EXCEPT ![s] = Observed(p, s)]
  BY <1>9
<1> QED
  BY <1>3, <1>5, <1>7, <1>10, <1>11 DEF q, life, map

\* An observation keeps the records well, and a creature that was watched, too.
LEMMA ObservationKept ==
  ASSUME NEW p, WellKept(p), World, NEW s \in Sources
  PROVE  LET q == SourceObserved(p, s)
         IN /\ WellKept(q)
            /\ q.actors = p.actors /\ q.roles = p.roles /\ q.claimant = p.claimant
            /\ q.book.receipts = p.book.receipts /\ q.book.issued = p.book.issued
            /\ \A a \in Actors : q.book.claims[a] \in {p.book.claims[a], NoClaim}
            /\ prey[s] # Unloaded => /\ q.seen[s].guid = prey[s].guid
                                     /\ q.seen[s].alive = prey[s].alive
            /\ prey[s] # Unloaded /\ p.seen[s].guid = prey[s].guid /\ Watched(p, s)
                 => Watched(q, s)
<1> DEFINE q == SourceObserved(p, s)
           life == LifeNow(p, s)
<1>1. CASE prey[s] = Unloaded
  <2> DEFINE b == IF p.seen[s].life # 0 /\ (prey[s] = Unloaded \/ NewLife(p, s))
                  THEN CloseCarcass(p.book, s, p.seen[s].life) ELSE p.book
  <2>1. SoundIn(p.book)
    BY DEF WellKept, Typed
  <2>2. /\ SoundIn(b) /\ b.last = p.book.last /\ b.issued = p.book.issued
        /\ b.receipts = p.book.receipts
        /\ \A a \in Actors : b.claims[a] \in {p.book.claims[a], NoClaim}
    <3>1. CASE p.seen[s].life # 0 /\ (prey[s] = Unloaded \/ NewLife(p, s))
      BY <2>1, <3>1, ClosedBook
    <3>2. CASE ~ (p.seen[s].life # 0 /\ (prey[s] = Unloaded \/ NewLife(p, s)))
      BY <2>1, <3>2
    <3> QED
      BY <3>1, <3>2
  <2>3. q = [p EXCEPT !.book = b]
    BY <1>1 DEF SourceObserved
  <2> HIDE DEF b, q
  <2>4. WellKept(q)
    BY <2>2, <2>3, BookReplaced
  <2>5. /\ q.book = b /\ q.actors = p.actors /\ q.roles = p.roles /\ q.claimant = p.claimant
    BY <2>3 DEF WellKept, Typed
  <2> QED
    BY <1>1, <2>2, <2>4, <2>5 DEF q
<1>2. CASE prey[s] # Unloaded
  <2>1. /\ q = [book |-> q.book, seen |-> q.seen, actors |-> p.actors, roles |-> p.roles,
                ofDeath |-> q.ofDeath, claimant |-> p.claimant]
        /\ SoundIn(q.book) /\ q.book.issued = p.book.issued /\ q.book.receipts = p.book.receipts
        /\ \A a \in Actors : q.book.claims[a] \in {p.book.claims[a], NoClaim}
        /\ q.seen = [p.seen EXCEPT ![s] = [guid |-> prey[s].guid, life |-> life,
                                           alive |-> prey[s].alive]]
        /\ DOMAIN q.ofDeath = Sources
        /\ \A x \in Sources \ {s} : q.ofDeath[x] = p.ofDeath[x]
        /\ NewDeath(p, s) =>
             /\ q.book.last = [p.book.last EXCEPT ![s] = life]
             /\ q.ofDeath[s] = [l \in DOMAIN p.ofDeath[s] \union {life} |->
                                  IF l = life THEN deaths[s] ELSE p.ofDeath[s][l]]
        /\ ~ NewDeath(p, s) => q.book.last = p.book.last /\ q.ofDeath[s] = p.ofDeath[s]
        /\ life \in Nat /\ life >= p.seen[s].life
        /\ NewDeath(p, s) => life > p.book.last[s]
    BY SMTT(60), <1>2, ObservationMade
  <2>2. /\ p.seen \in [Sources -> Observation]
        /\ p.book.last \in [Sources -> Nat] /\ p.book.last[s] \in Nat
        /\ p.actors \in [Actors -> ActorRecord] /\ p.roles \in [Actors -> RoleRecord]
        /\ p.claimant \in [Actors -> Nat] /\ \A a \in Actors : p.actors[a].claim <= p.book.issued
        /\ LifeAhead(p, s) /\ DeathsApart(p, s)
    BY DEF WellKept, Typed, SoundIn, Books
  <2>3. prey[s].guid \in Nat /\ prey[s].alive \in BOOLEAN /\ deaths[s] \in Nat
    BY DEF World, Creature
  <2> HIDE DEF q
  <2>4. /\ q.actors = p.actors /\ q.roles = p.roles /\ q.claimant = p.claimant
        /\ q = [book |-> q.book, seen |-> q.seen, actors |-> q.actors, roles |-> q.roles,
                ofDeath |-> q.ofDeath, claimant |-> q.claimant]
    BY <2>1
  <2>5. /\ q.seen[s] = [guid |-> prey[s].guid, life |-> life, alive |-> prey[s].alive]
        /\ \A x \in Sources \ {s} : q.seen[x] = p.seen[x]
    BY <2>1, <2>2
  <2>6. q.seen \in [Sources -> Observation]
    BY <2>1, <2>2, <2>3 DEF Observation
  <2>7. Typed(q)
    BY <2>1, <2>2, <2>4, <2>6 DEF Typed
  <2>8. /\ \A x \in Sources \ {s} : q.book.last[x] = p.book.last[x]
        /\ NewDeath(p, s) => q.book.last[s] = life
        /\ ~ NewDeath(p, s) => q.book.last[s] = p.book.last[s]
    BY <2>1, <2>2
  <2>9. /\ NewLife(p, s) => life = p.seen[s].life + 1
        /\ ~ NewLife(p, s) => life = p.seen[s].life
    BY DEF LifeNow
  <2> HIDE DEF life
  <2>10. LifeAhead(q, s)
    <3>1. p.seen[s].life \in Nat
      BY <2>2 DEF Observation
    <3>2. CASE NewDeath(p, s)
      BY <2>1, <2>5, <2>8, <3>2 DEF NewDeath, LifeAhead
    <3>3. CASE ~ NewDeath(p, s) /\ NewLife(p, s)
      BY <2>2, <2>5, <2>8, <2>9, <3>1, <3>3 DEF LifeAhead
    <3>4. CASE ~ NewDeath(p, s) /\ ~ NewLife(p, s)
      <4>1. prey[s].alive => p.seen[s].alive
        BY <3>4 DEF NewLife
      <4> QED
        BY <2>2, <2>5, <2>8, <2>9, <3>4, <4>1 DEF LifeAhead
    <3> QED
      BY <3>2, <3>3, <3>4
  <2>11. DeathsApart(q, s)
    <3>1. ~ NewDeath(q, s)
      BY <2>5 DEF NewDeath, NewGuid
    <3>2. CASE ~ NewDeath(p, s)
      BY <2>1, <2>2, <3>1, <3>2 DEF DeathsApart
    <3>3. CASE NewDeath(p, s)
      <4>1. /\ \A l \in DOMAIN p.ofDeath[s] : p.ofDeath[s][l] \in 0..deaths[s]
            /\ \A l \in DOMAIN p.ofDeath[s] : p.ofDeath[s][l] # deaths[s]
            /\ \A l, m \in DOMAIN p.ofDeath[s] : l # m => p.ofDeath[s][l] # p.ofDeath[s][m]
        BY <1>2, <2>2, <3>3 DEF DeathsApart
      <4>2. /\ DOMAIN q.ofDeath[s] = DOMAIN p.ofDeath[s] \union {life}
            /\ q.ofDeath[s][life] = deaths[s]
            /\ \A l \in DOMAIN p.ofDeath[s] \ {life} : q.ofDeath[s][l] = p.ofDeath[s][l]
        BY <2>1, <3>3
      <4>3. \A l \in DOMAIN q.ofDeath[s] : q.ofDeath[s][l] \in 0..deaths[s]
        BY <2>3, <4>1, <4>2
      <4>4. \A l, m \in DOMAIN q.ofDeath[s] : l # m => q.ofDeath[s][l] # q.ofDeath[s][m]
        BY <4>1, <4>2
      <4> QED
        BY <3>1, <4>3, <4>4 DEF DeathsApart
    <3> QED
      BY <3>2, <3>3
  <2>12. ASSUME NEW x \in Sources \ {s} PROVE LifeAhead(q, x) /\ DeathsApart(q, x)
    <3>1. LifeAhead(p, x) /\ DeathsApart(p, x)
      BY DEF WellKept
    <3>2. q.seen[x] = p.seen[x] /\ q.book.last[x] = p.book.last[x] /\ q.ofDeath[x] = p.ofDeath[x]
      BY <2>1, <2>5, <2>8
    <3>3. NewDeath(q, x) = NewDeath(p, x)
      BY <3>2 DEF NewDeath, NewGuid
    <3> QED
      BY <3>1, <3>2, <3>3 DEF LifeAhead, DeathsApart
  <2>13. ASSUME p.seen[s].guid = prey[s].guid, Watched(p, s) PROVE Watched(q, s)
    <3>1. CASE NewDeath(p, s)
      <4>1. ~ prey[s].alive /\ q.book.last[s] = life /\ q.ofDeath[s][life] = deaths[s]
        BY <2>1, <2>8, <3>1 DEF NewDeath
      <4> QED
        BY <4>1 DEF Watched
    <3>2. CASE ~ NewDeath(p, s) /\ ~ prey[s].alive
      <4>1. ~ p.seen[s].alive /\ ~ NewLife(p, s)
        BY <2>13, <3>2 DEF NewDeath, NewLife, NewGuid
      <4>2. q.seen[s].life = p.seen[s].life /\ q.book.last[s] = p.book.last[s]
            /\ q.ofDeath[s] = p.ofDeath[s]
        BY <2>1, <2>5, <2>8, <2>9, <3>2, <4>1
      <4> QED
        BY <2>13, <4>1, <4>2 DEF Watched
    <3>3. CASE prey[s].alive
      BY <2>5, <3>3 DEF Watched
    <3> QED
      BY <3>1, <3>2, <3>3
  <2>14. ASSUME NEW a \in Actors PROVE Aimed(q, a) /\ Held(q, a)
    <3>1. Aimed(p, a) /\ Held(p, a)
      BY DEF WellKept
    <3>2. Held(q, a)
      BY <2>1, <2>4, <3>1 DEF Held
    <3> DEFINE target == p.roles[a].target
               x == target.source
    <3>3. ASSUME Present(target) PROVE q.seen[x].guid = target.guid /\ Watched(q, x)
      <4>1. x \in Sources /\ prey[x].guid = target.guid
            /\ p.seen[x].guid = target.guid /\ Watched(p, x)
        BY <3>1, <3>3 DEF Aimed, Present
      <4>2. CASE x = s
        BY <2>5, <2>13, <4>1, <4>2
      <4>3. CASE x # s
        <5>1. q.seen[x] = p.seen[x] /\ q.book.last[x] = p.book.last[x] /\ q.ofDeath[x] = p.ofDeath[x]
          BY <2>1, <2>5, <2>8, <4>1, <4>3
        <5> QED
          BY <4>1, <5>1 DEF Watched
      <4> QED
        BY <4>2, <4>3
    <3>4. Aimed(q, a)
      BY <2>4, <3>1, <3>3 DEF Aimed
    <3> QED
      BY <3>2, <3>4
  <2>15. WellKept(q)
    BY <2>7, <2>10, <2>11, <2>12, <2>14 DEF WellKept
  <2> QED
    BY <1>2, <2>1, <2>4, <2>5, <2>13, <2>15 DEF q
<1> QED
  BY <1>1, <1>2

---------------------------------------------------------------------------
(* The records of one hunter *)

\* From p to q nothing changed but the book and what is kept of actor a.
Only(p, q, a) ==
  /\ q = [book |-> q.book, seen |-> p.seen, actors |-> q.actors, roles |-> q.roles,
          ofDeath |-> p.ofDeath, claimant |-> q.claimant]
  /\ q.actors = [p.actors EXCEPT ![a] = q.actors[a]]
  /\ q.roles = [p.roles EXCEPT ![a] = q.roles[a]]
  /\ q.claimant = [p.claimant EXCEPT ![a] = q.claimant[a]]
  /\ SoundIn(q.book) /\ q.book.last = p.book.last /\ q.book.issued >= p.book.issued
  /\ \A b \in Actors \ {a} : q.book.claims[b] \in {p.book.claims[b], NoClaim}
  /\ \A b \in Actors \ {a} : q.book.receipts[b] = p.book.receipts[b]
  /\ q.actors[a] \in ActorRecord /\ q.roles[a] \in RoleRecord /\ q.claimant[a] \in Nat
  /\ q.actors[a].claim <= q.book.issued

\* What is left has its type.
LEMMA OnlyTyped ==
  ASSUME NEW p, Typed(p), NEW q, NEW a \in Actors, Only(p, q, a)
  PROVE  Typed(q)
<1>1. /\ p.actors \in [Actors -> ActorRecord] /\ p.roles \in [Actors -> RoleRecord]
      /\ p.claimant \in [Actors -> Nat] /\ p.seen \in [Sources -> Observation]
      /\ DOMAIN p.ofDeath = Sources /\ p.book.issued \in Nat
      /\ \A b \in Actors : p.actors[b].claim <= p.book.issued /\ p.actors[b].claim \in Nat
  BY DEF Typed, SoundIn, Books, ActorRecord
<1>2. /\ q.seen = p.seen /\ q.ofDeath = p.ofDeath
      /\ q = [book |-> q.book, seen |-> q.seen, actors |-> q.actors, roles |-> q.roles,
              ofDeath |-> q.ofDeath, claimant |-> q.claimant]
      /\ SoundIn(q.book) /\ q.book.issued \in Nat
  BY DEF Only, SoundIn, Books
<1>3. /\ q.actors \in [Actors -> ActorRecord] /\ q.roles \in [Actors -> RoleRecord]
      /\ q.claimant \in [Actors -> Nat]
  BY <1>1 DEF Only
<1>4. \A b \in Actors : q.actors[b].claim <= q.book.issued
  <2>1. q.actors[a].claim <= q.book.issued /\ q.book.issued >= p.book.issued
    BY DEF Only
  <2>2. ASSUME NEW b \in Actors \ {a} PROVE q.actors[b].claim <= q.book.issued
    <3>1. q.actors[b] = p.actors[b]
      BY <1>1 DEF Only
    <3> QED
      BY <1>1, <1>2, <2>1, <3>1
  <2> QED
    BY <2>1, <2>2
<1> QED
  BY <1>1, <1>2, <1>3, <1>4 DEF Typed

\* The records are well kept if those of a are.
LEMMA OneActor ==
  ASSUME NEW p, WellKept(p), NEW q, NEW a \in Actors, Only(p, q, a), Aimed(q, a), Held(q, a)
  PROVE  WellKept(q)
<1>1. Typed(p) /\ Typed(q)
  BY OnlyTyped DEF WellKept
<1>2. q.seen = p.seen /\ q.ofDeath = p.ofDeath /\ q.book.last = p.book.last
  BY DEF Only
<1> DEFINE K == Actors \ {a}
<1>3. K \in SUBSET Actors /\ \A b \in Actors \ K : Aimed(q, b) /\ Held(q, b)
  OBVIOUS
<1>4. \A b \in K : /\ q.book.claims[b] \in {p.book.claims[b], NoClaim}
                   /\ q.actors[b] = p.actors[b] /\ q.roles[b] = p.roles[b]
                   /\ q.claimant[b] = p.claimant[b]
  BY <1>1 DEF Only, Typed
<1> HIDE DEF K
<1> QED
  BY <1>1, <1>2, <1>3, <1>4, RecordsKept

\* A step of a hunter's pass followed by another is a step of it.
LEMMA OnlyTwice ==
  ASSUME NEW p, Typed(p), NEW q, NEW r, NEW a \in Actors, Only(p, q, a), Only(q, r, a)
  PROVE  Only(p, r, a)
<1>1. /\ p.actors \in [Actors -> ActorRecord] /\ p.roles \in [Actors -> RoleRecord]
      /\ p.claimant \in [Actors -> Nat] /\ p.book.issued \in Nat
  BY DEF Typed, SoundIn, Books
<1>2. q.book.issued \in Nat /\ r.book.issued \in Nat
  BY DEF Only, SoundIn, Books
<1>3. q.seen = p.seen /\ q.ofDeath = p.ofDeath
  BY DEF Only
<1>4. /\ r = [book |-> r.book, seen |-> p.seen, actors |-> r.actors, roles |-> r.roles,
              ofDeath |-> p.ofDeath, claimant |-> r.claimant]
      /\ r.actors[a] \in ActorRecord /\ r.roles[a] \in RoleRecord /\ r.claimant[a] \in Nat
      /\ r.actors[a].claim <= r.book.issued /\ SoundIn(r.book)
  BY <1>3 DEF Only
<1>5. /\ r.actors = [p.actors EXCEPT ![a] = r.actors[a]]
      /\ r.roles = [p.roles EXCEPT ![a] = r.roles[a]]
      /\ r.claimant = [p.claimant EXCEPT ![a] = r.claimant[a]]
  BY <1>1 DEF Only
<1>6. r.book.last = p.book.last /\ r.book.issued >= p.book.issued
  BY <1>1, <1>2 DEF Only
<1>7. \A b \in Actors \ {a} : /\ r.book.claims[b] \in {p.book.claims[b], NoClaim}
                              /\ r.book.receipts[b] = p.book.receipts[b]
  BY DEF Only
<1> QED
  BY <1>4, <1>5, <1>6, <1>7 DEF Only

\* Nothing done is such a step.
LEMMA OnlyNothing ==
  ASSUME NEW p, Typed(p), NEW a \in Actors
  PROVE  Only(p, p, a)
<1>1. /\ p.actors \in [Actors -> ActorRecord] /\ p.roles \in [Actors -> RoleRecord]
      /\ p.claimant \in [Actors -> Nat] /\ p.book.issued \in Nat
  BY DEF Typed, SoundIn, Books
<1> QED
  BY <1>1 DEF Typed, Only

\* The phase and target of a role may be set to anything of their kind.
LEMMA PhaseSet ==
  ASSUME NEW p, Typed(p), NEW a \in Actors, NEW phase \in {"idle", "hunting", "feeding"},
         NEW target \in [source : Nat, guid : Nat]
  PROVE  LET q == InPhase(p, a, phase, target)
         IN /\ Only(p, q, a)
            /\ q.book = p.book /\ q.actors = p.actors /\ q.claimant = p.claimant
            /\ q.roles[a] = [guid |-> p.roles[a].guid, phase |-> phase, target |-> target]
<1> DEFINE q == InPhase(p, a, phase, target)
<1>1. /\ p = [book |-> p.book, seen |-> p.seen, actors |-> p.actors, roles |-> p.roles,
              ofDeath |-> p.ofDeath, claimant |-> p.claimant]
      /\ p.actors \in [Actors -> ActorRecord] /\ p.roles \in [Actors -> RoleRecord]
      /\ p.claimant \in [Actors -> Nat] /\ p.book.issued \in Nat /\ SoundIn(p.book)
      /\ p.actors[a].claim <= p.book.issued
  BY DEF Typed, SoundIn, Books
<1> DEFINE role == [guid |-> p.roles[a].guid, phase |-> phase, target |-> target]
<1>2. role \in RoleRecord
  BY <1>1 DEF RoleRecord
<1>3. q = [p EXCEPT !.roles = [p.roles EXCEPT ![a] = role]]
  <2> DEFINE inPhase == [p.roles[a] EXCEPT !.phase = phase]
  <2>1. inPhase = [guid |-> p.roles[a].guid, phase |-> phase, target |-> p.roles[a].target]
    <3>1. \A r \in RoleRecord : [r EXCEPT !.phase = phase]
                                = [guid |-> r.guid, phase |-> phase, target |-> r.target]
      BY DEF RoleRecord
    <3> QED
      BY <1>1, <3>1
  <2>2. [inPhase EXCEPT !.target = target] = role
    <3>1. \A g, ph, t : [[guid |-> g, phase |-> ph, target |-> t] EXCEPT !.target = target]
                       = [guid |-> g, phase |-> ph, target |-> target]
      OBVIOUS
    <3> HIDE DEF inPhase
    <3> QED
      BY <2>1, <3>1
  <2>3. q = [p EXCEPT !.roles[a] = inPhase, !.roles[a].target = target]
    BY <1>1 DEF InPhase
  <2> HIDE DEF inPhase, role
  <2>4. [p.roles EXCEPT ![a] = inPhase, ![a].target = target] = [p.roles EXCEPT ![a] = role]
    BY <1>1, <2>2
  <2> QED
    BY <1>1, <2>3, <2>4
<1> HIDE DEF role
<1>4. q = [book |-> p.book, seen |-> p.seen, actors |-> p.actors,
           roles |-> [p.roles EXCEPT ![a] = role],
           ofDeath |-> p.ofDeath, claimant |-> p.claimant]
  BY <1>1, <1>3
<1> HIDE DEF q
<1>5. /\ q.book = p.book /\ q.seen = p.seen /\ q.actors = p.actors /\ q.ofDeath = p.ofDeath
      /\ q.claimant = p.claimant /\ q.roles = [p.roles EXCEPT ![a] = role] /\ q.roles[a] = role
      /\ q = [book |-> q.book, seen |-> p.seen, actors |-> q.actors, roles |-> q.roles,
              ofDeath |-> p.ofDeath, claimant |-> q.claimant]
  BY <1>1, <1>4
<1>6. /\ q.actors = [p.actors EXCEPT ![a] = q.actors[a]]
      /\ q.claimant = [p.claimant EXCEPT ![a] = q.claimant[a]]
  BY <1>1, <1>5
<1>7. Only(p, q, a)
  BY <1>1, <1>2, <1>5, <1>6 DEF Only
<1> QED
  BY <1>5, <1>7 DEF q, role

\* The book and the record of an actor may be set to anything of their kind.
LEMMA ActorSet ==
  ASSUME NEW p, Typed(p), NEW a \in Actors,
         NEW b, SoundIn(b), b.last = p.book.last, b.issued >= p.book.issued,
         \A c \in Actors \ {a} : /\ b.claims[c] \in {p.book.claims[c], NoClaim}
                                 /\ b.receipts[c] = p.book.receipts[c],
         NEW record \in ActorRecord, record.claim <= b.issued, NEW guid \in Nat,
         NEW q,
         q = [book |-> b, seen |-> p.seen, actors |-> [p.actors EXCEPT ![a] = record],
              roles |-> p.roles, ofDeath |-> p.ofDeath,
              claimant |-> [p.claimant EXCEPT ![a] = guid]]
  PROVE  /\ Only(p, q, a)
         /\ q.book = b /\ q.actors[a] = record /\ q.roles = p.roles /\ q.claimant[a] = guid
<1>1. /\ p = [book |-> p.book, seen |-> p.seen, actors |-> p.actors, roles |-> p.roles,
              ofDeath |-> p.ofDeath, claimant |-> p.claimant]
      /\ p.actors \in [Actors -> ActorRecord] /\ p.roles \in [Actors -> RoleRecord]
      /\ p.claimant \in [Actors -> Nat]
  BY DEF Typed
<1>3. /\ q = [book |-> q.book, seen |-> p.seen, actors |-> q.actors, roles |-> q.roles,
              ofDeath |-> p.ofDeath, claimant |-> q.claimant]
      /\ q.book = b /\ q.roles = p.roles
      /\ q.actors = [p.actors EXCEPT ![a] = record]
      /\ q.claimant = [p.claimant EXCEPT ![a] = guid]
  OBVIOUS
<1>4. q.actors[a] = record /\ q.claimant[a] = guid
  BY <1>1, <1>3
<1>5. /\ q.roles = [p.roles EXCEPT ![a] = q.roles[a]] /\ q.roles[a] \in RoleRecord
  BY <1>1, <1>3
<1>6. Only(p, q, a)
  BY <1>3, <1>4, <1>5 DEF Only
<1> QED
  BY <1>3, <1>4, <1>6

\* The same as a record.
LEMMA BookAndActor ==
  ASSUME NEW p, Typed(p), NEW a \in Actors, NEW b, NEW record
  PROVE  [p EXCEPT !.book = b, !.actors[a] = record]
           = [book |-> b, seen |-> p.seen, actors |-> [p.actors EXCEPT ![a] = record],
              roles |-> p.roles, ofDeath |-> p.ofDeath, claimant |-> p.claimant]
<1> DEFINE r == [book |-> b, seen |-> p.seen, actors |-> p.actors, roles |-> p.roles,
                 ofDeath |-> p.ofDeath, claimant |-> p.claimant]
<1>1. [p EXCEPT !.book = b] = r
  BY DEF Typed
<1>2. [p EXCEPT !.book = b, !.actors[a] = record] = [r EXCEPT !.actors[a] = record]
  <2> HIDE DEF r
  <2> QED
    BY <1>1
<1> QED
  BY <1>2

\* A claim that is remembered is gone once it is cancelled.
LEMMA Cancelled ==
  ASSUME NEW p, Typed(p), NEW a \in Actors,
         p.book.claims[a] # NoClaim => p.actors[a].claim = p.book.claims[a].serial
  PROVE  LET q == ClaimCancelled(p, a)
         IN /\ Only(p, q, a)
            /\ q.book.claims[a] = NoClaim /\ q.book.receipts = p.book.receipts
            /\ q.roles = p.roles
<1> DEFINE held == p.actors[a].claim # 0 /\ p.book.claims[a].serial = p.actors[a].claim
           b == IF held THEN Swept(p.book, {}, {a}) ELSE p.book
           record == [p.actors[a] EXCEPT !.claim = 0]
           q == ClaimCancelled(p, a)
<1>1. /\ p = [book |-> p.book, seen |-> p.seen, actors |-> p.actors, roles |-> p.roles,
              ofDeath |-> p.ofDeath, claimant |-> p.claimant]
      /\ p.actors \in [Actors -> ActorRecord] /\ p.claimant \in [Actors -> Nat]
      /\ SoundIn(p.book) /\ p.book.issued \in Nat
  BY DEF Typed, SoundIn, Books
<1>2. /\ SoundIn(b) /\ b.last = p.book.last /\ b.issued = p.book.issued
      /\ b.receipts = p.book.receipts
      /\ \A c \in Actors : b.claims[c] \in {p.book.claims[c], NoClaim}
      /\ held => b.claims[a] = NoClaim
  <2>1. {} \in SUBSET Sources /\ {a} \in SUBSET Actors /\ a \in {a}
    OBVIOUS
  <2>2. CASE held
    BY <1>1, <2>1, <2>2, SweptBook
  <2>3. CASE ~ held
    BY <1>1, <2>3
  <2> QED
    BY <2>2, <2>3
<1>3. b.claims[a] = NoClaim
  <2>1. CASE p.book.claims[a] = NoClaim
    BY <1>2, <2>1
  <2>2. CASE p.book.claims[a] # NoClaim
    <3>1. p.book.claims[a].serial \in 1..p.book.issued
      BY <1>1, <2>2 DEF SoundIn, ClaimsOpenIn
    <3>2. held
      BY <1>1, <2>2, <3>1
    <3> QED
      BY <1>2, <3>2
  <2> QED
    BY <2>1, <2>2
<1>4. q = [p EXCEPT !.book = b, !.actors[a] = record]
  BY DEF ClaimCancelled
<1>5. record \in ActorRecord /\ record.claim = 0
  BY <1>1 DEF ActorRecord
<1> HIDE DEF b, record, held
<1>6. q = [book |-> b, seen |-> p.seen, actors |-> [p.actors EXCEPT ![a] = record],
           roles |-> p.roles, ofDeath |-> p.ofDeath,
           claimant |-> [p.claimant EXCEPT ![a] = p.claimant[a]]]
  <2> DEFINE same == [p.claimant EXCEPT ![a] = p.claimant[a]]
  <2>1. p.claimant = same
    BY <1>1
  <2> HIDE DEF q, same
  <2>2. q = [book |-> b, seen |-> p.seen, actors |-> [p.actors EXCEPT ![a] = record],
             roles |-> p.roles, ofDeath |-> p.ofDeath, claimant |-> p.claimant]
    BY <1>4, BookAndActor
  <2>3. q = [book |-> b, seen |-> p.seen, actors |-> [p.actors EXCEPT ![a] = record],
             roles |-> p.roles, ofDeath |-> p.ofDeath, claimant |-> same]
    BY <2>1, <2>2
  <2> QED
    BY <2>3 DEF same
<1>7. p.claimant[a] \in Nat /\ record.claim <= b.issued /\ b.issued >= p.book.issued
  BY <1>1, <1>2, <1>5
<1> HIDE DEF q
<1>8. Only(p, q, a) /\ q.book = b /\ q.roles = p.roles
  <2>1. \A c \in Actors \ {a} : /\ b.claims[c] \in {p.book.claims[c], NoClaim}
                                /\ b.receipts[c] = p.book.receipts[c]
    BY <1>2
  <2>2. SoundIn(b) /\ b.last = p.book.last
    BY <1>2
  <2> QED
    BY <1>5, <1>6, <1>7, <2>1, <2>2, ActorSet
<1> QED
  BY <1>2, <1>3, <1>8 DEF q

\* A role that has stopped works on nothing, and its claim is gone.
LEMMA StoppedKept ==
  ASSUME NEW p, Typed(p), NEW a \in Actors,
         p.book.claims[a] # NoClaim =>
           p.actors[a].claim = p.book.claims[a].serial /\ p.roles[a].phase = "feeding"
  PROVE  LET q == Stopped(p, a)
         IN /\ Only(p, q, a) /\ Aimed(q, a) /\ Held(q, a)
            /\ q.book.claims[a] = NoClaim /\ q.book.receipts = p.book.receipts
            /\ q.roles[a].guid = p.roles[a].guid
            /\ p.roles[a].phase # "feeding" => q.actors = p.actors /\ q.book = p.book
<1> DEFINE c == IF p.roles[a].phase = "feeding" THEN ClaimCancelled(p, a) ELSE p
           q == Stopped(p, a)
<1>1. /\ Only(p, c, a) /\ c.book.claims[a] = NoClaim /\ c.book.receipts = p.book.receipts
      /\ c.roles = p.roles
      /\ p.roles[a].phase # "feeding" => c = p
  <2>1. CASE p.roles[a].phase = "feeding"
    BY <2>1, Cancelled
  <2>2. CASE p.roles[a].phase # "feeding"
    BY <2>2, OnlyNothing
  <2> QED
    BY <2>1, <2>2
<1>2. q = InPhase(c, a, "idle", NoTarget)
  BY DEF Stopped
<1> HIDE DEF c, q
<1>3. Typed(c)
  BY <1>1, OnlyTyped
<1>4. NoTarget \in [source : Nat, guid : Nat]
  BY DEF NoTarget
<1>5. /\ Only(c, q, a)
      /\ q.book = c.book /\ q.actors = c.actors /\ q.claimant = c.claimant
      /\ q.roles[a] = [guid |-> c.roles[a].guid, phase |-> "idle", target |-> NoTarget]
  BY <1>2, <1>3, <1>4, PhaseSet
<1>6. Only(p, q, a)
  BY <1>1, <1>5, OnlyTwice
<1>7. Aimed(q, a)
  <2>1. ~ Present(NoTarget)
    BY SupplyRuntimeConstants DEF Present, NoTarget
  <2> QED
    BY <1>5, <2>1 DEF Aimed
<1>8. Held(q, a)
  BY <1>1, <1>5 DEF Held
<1> QED
  BY <1>1, <1>5, <1>6, <1>7, <1>8 DEF q

\* An actor that is bound to another creature, or to none, has no claim.
LEMMA ActorObservedKept ==
  ASSUME NEW p, WellKept(p), World, NEW a \in Actors
  PROVE  LET q == ActorObserved(p, a)
         IN /\ Only(p, q, a) /\ WellKept(q) /\ q.roles = p.roles
            /\ q.claimant[a] = p.claimant[a]
            /\ q.book.receipts[a] \in {p.book.receipts[a], 0}
            /\ q.book.claims[a] \in {p.book.claims[a], NoClaim}
            /\ q.book.claims[a] # NoClaim => npc[a].alive /\ q = p
            /\ npc[a].alive => q.actors[a].guid = npc[a].guid
<1> DEFINE q == ActorObserved(p, a)
<1>1. Typed(p) /\ SoundIn(p.book) /\ p.book.issued \in Nat
  BY DEF WellKept, Typed, SoundIn, Books
<1>2. CASE ~ Rebinds(p, a)
  BY <1>1, <1>2, OnlyNothing DEF ActorObserved, Rebinds
<1>3. CASE Rebinds(p, a)
  <2> DEFINE b == [p.book EXCEPT !.receipts[a] = 0, !.claims[a] = NoClaim]
             record == [guid |-> IF npc[a].alive THEN npc[a].guid ELSE p.actors[a].guid,
                        live |-> npc[a].alive, claim |-> 0, corpse |-> Nothing]
  <2>1. /\ SoundIn(b) /\ b.last = p.book.last /\ b.issued = p.book.issued
        /\ b.receipts = [p.book.receipts EXCEPT ![a] = 0]
        /\ b.claims = [p.book.claims EXCEPT ![a] = NoClaim]
    <3>1. 0 \in {0, p.book.claims[a].serial}
      OBVIOUS
    <3> QED
      BY <1>1, <3>1, SettledBook
  <2>2. /\ b.claims[a] = NoClaim /\ b.receipts[a] = 0
        /\ \A c \in Actors \ {a} : /\ b.claims[c] \in {p.book.claims[c], NoClaim}
                                   /\ b.receipts[c] = p.book.receipts[c]
    <3>1. p.book.claims \in [Actors -> Claim] /\ p.book.receipts \in [Actors -> Nat]
      BY <1>1 DEF SoundIn, Books
    <3> HIDE DEF b
    <3> QED
      BY <2>1, <3>1
  <2>3. p.actors \in [Actors -> ActorRecord] /\ p.claimant \in [Actors -> Nat]
    BY <1>1 DEF Typed
  <2>4. record \in ActorRecord /\ record.claim = 0
    <3>1. npc[a] \in Creature
      BY DEF World
    <3>2. p.actors[a].guid \in Nat /\ Nothing \in [source : Nat, life : Nat]
      BY <2>3 DEF ActorRecord, Nothing
    <3> QED
      BY <3>1, <3>2 DEF ActorRecord, Creature
  <2>5. q = [p EXCEPT !.book = b, !.actors[a] = record]
    <3>1. q = [p EXCEPT !.book = Forgotten(@, a),
                        !.actors[a] = [guid |-> IF npc[a].alive THEN npc[a].guid ELSE @.guid,
                                       live |-> npc[a].alive, claim |-> 0, corpse |-> Nothing]]
      BY <1>3 DEF ActorObserved
    <3> QED
      BY <1>1, <3>1 DEF Forgotten, Typed
  <2> DEFINE same == [p.claimant EXCEPT ![a] = p.claimant[a]]
  <2>6. p.claimant = same
    BY <2>3
  <2>7. npc[a].alive => record.guid = npc[a].guid
    OBVIOUS
  <2> HIDE DEF b, record, q, same
  <2>8. q = [book |-> b, seen |-> p.seen, actors |-> [p.actors EXCEPT ![a] = record],
             roles |-> p.roles, ofDeath |-> p.ofDeath, claimant |-> p.claimant]
    BY <1>1, <2>5, BookAndActor
  <2>9. q = [book |-> b, seen |-> p.seen, actors |-> [p.actors EXCEPT ![a] = record],
             roles |-> p.roles, ofDeath |-> p.ofDeath, claimant |-> same]
    BY <2>6, <2>8
  <2>10. Only(p, q, a) /\ q.book = b /\ q.actors[a] = record /\ q.roles = p.roles
    <3>1. q = [book |-> b, seen |-> p.seen, actors |-> [p.actors EXCEPT ![a] = record],
               roles |-> p.roles, ofDeath |-> p.ofDeath,
               claimant |-> [p.claimant EXCEPT ![a] = p.claimant[a]]]
      BY <2>9 DEF same
    <3>2. SoundIn(b) /\ b.last = p.book.last
      BY <2>1
    <3>3. q.actors[a] = record
      BY <2>3, <2>9
    <3>4. p.claimant[a] \in Nat /\ record.claim <= b.issued /\ b.issued >= p.book.issued
      BY <1>1, <2>1, <2>3, <2>4
    <3>5. \A c \in Actors \ {a} : /\ b.claims[c] \in {p.book.claims[c], NoClaim}
                                  /\ b.receipts[c] = p.book.receipts[c]
      BY <2>2
    <3>6. Typed(p) /\ record \in ActorRecord
      BY <1>1, <2>4
    <3>7. Only(p, q, a) /\ q.book = b /\ q.roles = p.roles
      BY <3>1, <3>2, <3>4, <3>5, <3>6, ActorSet
    <3> QED
      BY <3>3, <3>7
  <2>11. Held(q, a)
    BY <2>2, <2>10 DEF Held
  <2>12. Aimed(q, a)
    <3>1. Aimed(p, a)
      BY DEF WellKept
    <3>2. q.seen = p.seen /\ q.ofDeath = p.ofDeath /\ q.book.last = p.book.last
      BY <2>10 DEF Only
    <3> QED
      BY <2>10, <3>1, <3>2 DEF Aimed, Watched
  <2>13. WellKept(q)
    BY <2>10, <2>11, <2>12, OneActor
  <2>14. q.claimant[a] = p.claimant[a]
    BY <2>8
  <2> QED
    BY <2>2, <2>7, <2>10, <2>13, <2>14 DEF q
<1> QED
  BY <1>2, <1>3

\* The role of a creature that is bound anew starts anew, and it held no claim.
LEMMA ReboundKept ==
  ASSUME NEW p, WellKept(p), World, NEW a \in Actors,
         p.book.claims[a] # NoClaim => npc[a].alive /\ p.actors[a].guid = npc[a].guid
  PROVE  LET q == Rebound(p, a)
         IN /\ Only(p, q, a) /\ WellKept(q) /\ q.book = p.book /\ q.actors = p.actors
            /\ q.claimant = p.claimant
            /\ npc[a].alive => q.roles[a].guid = npc[a].guid
<1> DEFINE q == Rebound(p, a)
<1>1. /\ p = [book |-> p.book, seen |-> p.seen, actors |-> p.actors, roles |-> p.roles,
              ofDeath |-> p.ofDeath, claimant |-> p.claimant]
      /\ p.actors \in [Actors -> ActorRecord] /\ p.roles \in [Actors -> RoleRecord]
      /\ p.claimant \in [Actors -> Nat] /\ SoundIn(p.book) /\ p.book.issued \in Nat
      /\ p.actors[a].claim <= p.book.issued /\ Held(p, a) /\ Typed(p)
  BY DEF WellKept, Typed, SoundIn, Books
<1>2. CASE npc[a].alive /\ p.roles[a].guid = npc[a].guid
  BY <1>1, <1>2, OnlyNothing DEF Rebound
<1>3. CASE ~ (npc[a].alive /\ p.roles[a].guid = npc[a].guid)
  <2> DEFINE role == [guid |-> IF npc[a].alive THEN npc[a].guid ELSE 0,
                      phase |-> "idle", target |-> NoTarget]
  <2>1. role \in RoleRecord /\ role.phase = "idle" /\ role.target = NoTarget
    <3>1. npc[a] \in Creature /\ NoTarget \in [source : Nat, guid : Nat]
      BY DEF World, NoTarget
    <3> QED
      BY <3>1 DEF RoleRecord, Creature
  <2>2. npc[a].alive => role.guid = npc[a].guid
    OBVIOUS
  <2>3. q = [p EXCEPT !.roles[a] = role]
    BY <1>3 DEF Rebound
  <2> HIDE DEF role, q
  <2>4. /\ q = [book |-> q.book, seen |-> p.seen, actors |-> q.actors, roles |-> q.roles,
                ofDeath |-> p.ofDeath, claimant |-> q.claimant]
        /\ q.book = p.book /\ q.actors = p.actors /\ q.claimant = p.claimant
        /\ q.roles = [p.roles EXCEPT ![a] = role] /\ q.roles[a] = role
    BY <1>1, <2>3
  <2>5. /\ q.actors = [p.actors EXCEPT ![a] = q.actors[a]]
        /\ q.claimant = [p.claimant EXCEPT ![a] = q.claimant[a]]
    BY <1>1, <2>4
  <2>6. Only(p, q, a)
    BY <1>1, <2>1, <2>4, <2>5 DEF Only
  <2>7. p.book.claims[a] = NoClaim
    BY <1>1, <1>3 DEF Held
  <2>8. Held(q, a)
    BY <2>4, <2>7 DEF Held
  <2>9. Aimed(q, a)
    <3>1. ~ Present(NoTarget)
      BY SupplyRuntimeConstants DEF Present, NoTarget
    <3> QED
      BY <2>1, <2>4, <3>1 DEF Aimed
  <2> QED
    BY <2>2, <2>4, <2>6, <2>8, <2>9, OneActor DEF q
<1> QED
  BY <1>2, <1>3

---------------------------------------------------------------------------
(* The hunting part of UpdateLivingRole *)

\* Before combat the prey is witnessed, so the hunter is after a creature that is
\* known to be alive.
LEMMA HuntKept ==
  ASSUME NEW p, WellKept(p), World, NEW a \in Actors, p.roles[a].phase = "idle",
         NEW q \in HuntOutcomes(p, a)
  PROVE  WellKept(q) /\ q.book.receipts = p.book.receipts
<1>1. PICK s \in Sources :
        /\ prey[s].alive
        /\ q \in {Witnessed(p, s),
                  InPhase(Witnessed(p, s), a, "hunting", [source |-> s, guid |-> prey[s].guid])}
  BY DEF HuntOutcomes
<1> DEFINE w == Witnessed(p, s)
           target == [source |-> s, guid |-> prey[s].guid]
<1>2. /\ prey[s] # Unloaded /\ prey[s].guid \in 1..spawned[s] /\ prey[s].guid \in Nat
      /\ s \in Nat /\ s # 0
  BY <1>1, SupplyRuntimeConstants DEF World, Creature, Unloaded, Spawns
<1>3. /\ WellKept(w) /\ w.roles = p.roles /\ w.book.receipts = p.book.receipts
      /\ w.seen[s].guid = prey[s].guid /\ w.seen[s].alive
      /\ \A b \in Actors : w.book.claims[b] \in {p.book.claims[b], NoClaim}
  BY <1>1, <1>2, ObservationKept DEF Witnessed
<1>4. CASE q = w
  BY <1>3, <1>4
<1>5. CASE q = InPhase(w, a, "hunting", target)
  <2> HIDE DEF w
  <2>1. target \in [source : Nat, guid : Nat] /\ Typed(w)
    BY <1>2, <1>3 DEF WellKept
  <2>2. /\ Only(w, q, a)
        /\ q.book = w.book /\ q.actors = w.actors
        /\ q.roles[a] = [guid |-> w.roles[a].guid, phase |-> "hunting", target |-> target]
    BY <1>5, <2>1, PhaseSet
  <2>3. Held(q, a)
    <3>1. Held(p, a)
      BY DEF WellKept
    <3>2. w.book.claims[a] = NoClaim
      BY <1>3, <3>1 DEF Held
    <3> QED
      BY <2>2, <3>2 DEF Held
  <2>4. Aimed(q, a)
    <3>1. q.seen = w.seen
      BY <2>2 DEF Only
    <3>2. Watched(q, s) /\ q.seen[s].guid = prey[s].guid
      BY <1>3, <3>1 DEF Watched
    <3>3. target # NoTarget
      BY <1>2 DEF NoTarget
    <3> QED
      BY <1>2, <2>2, <3>2, <3>3 DEF Aimed
  <2>5. WellKept(q)
    BY <1>3, <2>2, <2>3, <2>4, OneActor
  <2> QED
    BY <1>3, <2>2, <2>5
<1> QED
  BY <1>1, <1>4, <1>5

\* What a grant adds to the book.
LEMMA GrantedBook ==
  ASSUME NEW b, SoundIn(b), NEW a \in Actors, NEW s \in Sources, Grantable(b, a, s)
  PROVE  LET q == Granted(b, a, s)
         IN /\ SoundIn(q) /\ q.last = b.last /\ q.issued = b.issued + 1
            /\ q.receipts = b.receipts
            /\ q.claims[a] = [serial |-> b.issued + 1, source |-> s, life |-> b.last[s]]
            /\ \A c \in Actors \ {a} : q.claims[c] = b.claims[c]
<1> DEFINE new == [serial |-> b.issued + 1, source |-> s, life |-> b.last[s]]
           q == Granted(b, a, s)
<1>1. b \in Books /\ SoundIn(q)
  BY GrantedSound DEF SoundIn
<1>2. q = [b EXCEPT !.issued = b.issued + 1, !.claims[a] = new]
  BY <1>1 DEF Granted, Books
<1> HIDE DEF new, q
<1>3. /\ q.last = b.last /\ q.issued = b.issued + 1 /\ q.receipts = b.receipts
      /\ q.claims = [b.claims EXCEPT ![a] = new]
  BY <1>1, <1>2 DEF Books
<1>4. q.claims[a] = new /\ \A c \in Actors \ {a} : q.claims[c] = b.claims[c]
  BY <1>1, <1>3 DEF Books
<1> QED
  BY <1>1, <1>3, <1>4 DEF new, q

\* A claim that was asked for is stamped on the record and on the book alike.
LEMMA ClaimedKept ==
  ASSUME NEW p, Typed(p), World, NEW a \in Actors, NEW s \in Sources,
         p.book.claims[a] = NoClaim, Claimable(p, a, s)
  PROVE  LET q == Claimed(p, a, s)
         IN /\ Only(p, q, a) /\ q.roles = p.roles /\ q.book.receipts = p.book.receipts
            /\ q.book.claims[a] # NoClaim
            /\ q.book.claims[a].source = s /\ q.book.claims[a].life = p.seen[s].life
            /\ q.actors[a].claim = q.book.claims[a].serial
            /\ q.actors[a].corpse = [source |-> s, life |-> p.seen[s].life]
            /\ q.actors[a].guid = npc[a].guid /\ q.claimant[a] = npc[a].guid
<1> DEFINE b == Granted(p.book, a, s)
           record == [guid |-> p.actors[a].guid, live |-> p.actors[a].live,
                      claim |-> b.claims[a].serial,
                      corpse |-> [source |-> s, life |-> p.seen[s].life]]
           q == Claimed(p, a, s)
<1>1. /\ p = [book |-> p.book, seen |-> p.seen, actors |-> p.actors, roles |-> p.roles,
              ofDeath |-> p.ofDeath, claimant |-> p.claimant]
      /\ p.actors \in [Actors -> ActorRecord] /\ p.claimant \in [Actors -> Nat]
      /\ p.seen \in [Sources -> Observation] /\ SoundIn(p.book) /\ p.book.issued \in Nat
      /\ npc[a].guid \in Nat /\ s \in Nat
  BY SupplyRuntimeConstants DEF Typed, SoundIn, Books, World, Creature
<1>2. Grantable(p.book, a, s) /\ p.book.last[s] = p.seen[s].life /\ p.actors[a].guid = npc[a].guid
  BY DEF Claimable, Grantable
<1>3. /\ SoundIn(b) /\ b.last = p.book.last /\ b.issued = p.book.issued + 1
      /\ b.receipts = p.book.receipts
      /\ b.claims[a] = [serial |-> p.book.issued + 1, source |-> s, life |-> p.book.last[s]]
      /\ \A c \in Actors \ {a} : b.claims[c] = p.book.claims[c]
  BY <1>1, <1>2, GrantedBook
<1> HIDE DEF b
<1>4. /\ b.claims[a].serial = p.book.issued + 1 /\ b.claims[a].source = s
      /\ b.claims[a].life = p.seen[s].life /\ b.claims[a].serial \in Nat
      /\ b.claims[a].serial <= b.issued /\ b.issued >= p.book.issued /\ b.claims[a] # NoClaim
  BY <1>1, <1>2, <1>3 DEF NoClaim
<1>5. record \in ActorRecord /\ record.claim = b.claims[a].serial
  <2>1. p.actors[a] \in ActorRecord /\ p.seen[s].life \in Nat
    BY <1>1 DEF Observation
  <2> QED
    BY <1>1, <1>4, <2>1 DEF ActorRecord
<1>6. q = [book |-> b, seen |-> p.seen, actors |-> [p.actors EXCEPT ![a] = record],
           roles |-> p.roles, ofDeath |-> p.ofDeath,
           claimant |-> [p.claimant EXCEPT ![a] = npc[a].guid]]
  <2> DEFINE n == b.claims[a].serial
             corpse == [source |-> s, life |-> p.seen[s].life]
             r == [book |-> b, seen |-> p.seen, actors |-> p.actors, roles |-> p.roles,
                   ofDeath |-> p.ofDeath, claimant |-> p.claimant]
             t == [book |-> b, seen |-> p.seen, actors |-> [p.actors EXCEPT ![a] = record],
                   roles |-> p.roles, ofDeath |-> p.ofDeath, claimant |-> p.claimant]
             withClaim == [p.actors[a] EXCEPT !.claim = n]
  <2>1. q = [p EXCEPT !.book = b, !.actors[a].claim = n, !.actors[a].corpse = corpse,
                      !.claimant[a] = npc[a].guid]
    BY DEF Claimed, b
  <2>2. withClaim = [guid |-> p.actors[a].guid, live |-> p.actors[a].live, claim |-> n,
                     corpse |-> p.actors[a].corpse]
    <3>1. \A x \in ActorRecord : [x EXCEPT !.claim = n]
            = [guid |-> x.guid, live |-> x.live, claim |-> n, corpse |-> x.corpse]
      BY DEF ActorRecord
    <3> HIDE DEF n
    <3> QED
      BY <1>1, <3>1
  <2>3. [withClaim EXCEPT !.corpse = corpse] = record
    <3>1. \A g, l, c, x : [[guid |-> g, live |-> l, claim |-> c, corpse |-> x] EXCEPT !.corpse = corpse]
                            = [guid |-> g, live |-> l, claim |-> c, corpse |-> corpse]
      OBVIOUS
    <3> HIDE DEF withClaim, corpse
    <3> QED
      BY <2>2, <3>1 DEF corpse
  <2>4. [p EXCEPT !.book = b] = r
    BY <1>1
  <2> HIDE DEF withClaim, corpse, n, record
  <2> DEFINE acts == [p.actors EXCEPT ![a].claim = n]
             u == [book |-> b, seen |-> p.seen, actors |-> acts, roles |-> p.roles,
                   ofDeath |-> p.ofDeath, claimant |-> p.claimant]
  <2>5. [acts EXCEPT ![a].corpse = corpse] = [p.actors EXCEPT ![a] = record]
    <3>1. acts = [p.actors EXCEPT ![a] = withClaim]
      BY DEF withClaim
    <3>2. [[p.actors EXCEPT ![a] = withClaim] EXCEPT ![a].corpse = corpse]
            = [p.actors EXCEPT ![a] = [withClaim EXCEPT !.corpse = corpse]]
      BY <1>1
    <3> HIDE DEF acts
    <3> QED
      BY <2>3, <3>1, <3>2
  <2>6. q = [r EXCEPT !.actors[a].claim = n, !.actors[a].corpse = corpse,
                      !.claimant[a] = npc[a].guid]
    <3> HIDE DEF r, q
    <3> QED
      BY <2>1, <2>4
  <2>7. [r EXCEPT !.actors[a].claim = n] = u
    OBVIOUS
  <2>8. [u EXCEPT !.actors[a].corpse = corpse] = t
    <3> HIDE DEF acts
    <3> QED
      BY <2>5
  <2>9. [r EXCEPT !.actors[a].claim = n, !.actors[a].corpse = corpse] = t
    <3> HIDE DEF r, t, u
    <3> QED
      BY <2>7, <2>8
  <2>10. q = [t EXCEPT !.claimant[a] = npc[a].guid]
    <3> HIDE DEF r, t, q
    <3> QED
      BY <2>6, <2>9
  <2> HIDE DEF q
  <2> QED
    BY <2>10
<1> HIDE DEF record, q
<1>7. Only(p, q, a) /\ q.book = b /\ q.roles = p.roles
  <2>1. SoundIn(b) /\ b.last = p.book.last /\ b.issued >= p.book.issued
    BY <1>3, <1>4
  <2>2. \A c \in Actors \ {a} : /\ b.claims[c] \in {p.book.claims[c], NoClaim}
                                /\ b.receipts[c] = p.book.receipts[c]
    BY <1>3
  <2>3. record \in ActorRecord /\ record.claim <= b.issued /\ npc[a].guid \in Nat
    BY <1>1, <1>4, <1>5
  <2> QED
    BY <1>6, <2>1, <2>2, <2>3, ActorSet
<1>8. q.actors[a] = record /\ q.claimant[a] = npc[a].guid
  BY <1>1, <1>6
<1> QED
  BY <1>2, <1>3, <1>4, <1>7, <1>8 DEF q, record

\* A hunter stays aimed while what it is aimed at is left alone.
LEMMA AimedStill ==
  ASSUME NEW p, NEW q, NEW a \in Actors, Aimed(p, a), q.roles[a] = p.roles[a],
         q.seen = p.seen, q.ofDeath = p.ofDeath, q.book.last = p.book.last
  PROVE  Aimed(q, a)
BY DEF Aimed, Watched

\* The target is there and dead: the hunter may claim it, and eat.
LEMMA ClaimKept ==
  ASSUME NEW p0, WellKept(p0), World, NEW a \in Actors, p0.roles[a].phase = "hunting",
         p0.roles[a].guid = npc[a].guid, Present(p0.roles[a].target),
         NEW q \in ClaimOutcomes(p0, a, p0.roles[a].target.source)
  PROVE  WellKept(q) /\ q.book.receipts = p0.book.receipts
<1> DEFINE target == p0.roles[a].target
           s == target.source
           st == Stopped(p0, a)
           p == SourceObserved(st, s)
<1>1. /\ Typed(p0) /\ Aimed(p0, a) /\ Held(p0, a) /\ p0.roles[a] \in RoleRecord
  BY DEF WellKept, Typed
<1>2. /\ s \in Sources /\ prey[s].guid = target.guid /\ target # NoTarget
      /\ target.guid \in 1..spawned[s] /\ prey[s] # Unloaded
      /\ target \in [source : Nat, guid : Nat]
      /\ p0.seen[s].guid = target.guid /\ Watched(p0, s)
  <2>1. s \in Sources /\ prey[s].guid = target.guid
    BY DEF Present
  <2>2. target # NoTarget
    BY <2>1, SupplyRuntimeConstants DEF NoTarget
  <2>3. target.guid \in 1..spawned[s] /\ p0.seen[s].guid = target.guid /\ Watched(p0, s)
    BY <1>1, <2>2 DEF Aimed
  <2>4. prey[s] # Unloaded
    BY <2>1, <2>3 DEF Unloaded, World
  <2>5. target \in [source : Nat, guid : Nat]
    BY <1>1 DEF RoleRecord
  <2> QED
    BY <2>1, <2>2, <2>3, <2>4, <2>5
<1>3. p0.book.claims[a] = NoClaim
  BY <1>1 DEF Held
<1>4. /\ Only(p0, st, a) /\ Aimed(st, a) /\ Held(st, a)
      /\ st.book.claims[a] = NoClaim /\ st.book.receipts = p0.book.receipts
      /\ st.roles[a].guid = npc[a].guid
  BY <1>1, <1>3, StoppedKept
<1>5. WellKept(st)
  BY <1>4, OneActor
<1>6. st.seen[s].guid = prey[s].guid /\ Watched(st, s)
  <2>1. st.seen = p0.seen /\ st.ofDeath = p0.ofDeath /\ st.book.last = p0.book.last
    BY <1>4 DEF Only
  <2> QED
    BY <1>2, <2>1 DEF Watched
<1> HIDE DEF st
<1>7. /\ WellKept(p) /\ p.roles = st.roles /\ p.book.receipts = st.book.receipts
      /\ \A b \in Actors : p.book.claims[b] \in {st.book.claims[b], NoClaim}
      /\ p.seen[s].guid = prey[s].guid /\ Watched(p, s)
  BY <1>2, <1>5, <1>6, ObservationKept
<1>8. /\ q \in {p} \/ /\ Claimable(p, a, s)
                      /\ \/ q = InPhase(Claimed(p, a, s), a, "feeding", target)
                         \/ q = ClaimCancelled(Claimed(p, a, s), a)
  BY DEF ClaimOutcomes, st
<1> HIDE DEF p
<1>9. Typed(p) /\ Aimed(p, a) /\ p.book.claims[a] = NoClaim
  BY <1>4, <1>7 DEF WellKept
<1> DEFINE c == Claimed(p, a, s)
<1>10. ASSUME Claimable(p, a, s)
       PROVE  /\ Only(p, c, a) /\ c.roles = p.roles /\ c.book.receipts = p.book.receipts
              /\ c.book.claims[a] # NoClaim
              /\ c.book.claims[a].source = s /\ c.book.claims[a].life = p.seen[s].life
              /\ c.actors[a].claim = c.book.claims[a].serial
              /\ c.actors[a].corpse = [source |-> s, life |-> p.seen[s].life]
              /\ c.actors[a].guid = npc[a].guid /\ c.claimant[a] = npc[a].guid
              /\ Typed(c)
  <2>1. /\ Only(p, c, a) /\ c.roles = p.roles /\ c.book.receipts = p.book.receipts
        /\ c.book.claims[a] # NoClaim
        /\ c.book.claims[a].source = s /\ c.book.claims[a].life = p.seen[s].life
        /\ c.actors[a].claim = c.book.claims[a].serial
        /\ c.actors[a].corpse = [source |-> s, life |-> p.seen[s].life]
        /\ c.actors[a].guid = npc[a].guid /\ c.claimant[a] = npc[a].guid
    <3>1. s \in Sources /\ Typed(p) /\ p.book.claims[a] = NoClaim
      BY <1>2, <1>9
    <3> HIDE DEF s
    <3> QED
      BY <1>10, <3>1, ClaimedKept
  <2> HIDE DEF c
  <2>2. Typed(c)
    BY <1>9, <2>1, OnlyTyped
  <2> QED
    BY <2>1, <2>2
<1>11. CASE q = p
  BY <1>4, <1>7, <1>11
<1> HIDE DEF c
<1>12. CASE Claimable(p, a, s) /\ q = InPhase(c, a, "feeding", target)
  <2>1. /\ Only(c, q, a)
        /\ q.book = c.book /\ q.actors = c.actors /\ q.claimant = c.claimant
        /\ q.roles[a] = [guid |-> c.roles[a].guid, phase |-> "feeding", target |-> target]
    <3>1. target \in [source : Nat, guid : Nat] /\ Typed(c)
      BY <1>2, <1>10, <1>12
    <3> HIDE DEF target
    <3> QED
      BY <1>12, <3>1, PhaseSet
  <2>2. Only(p, q, a)
    BY <1>9, <1>10, <1>12, <2>1, OnlyTwice
  <2>3. Held(q, a)
    <3>1. q.roles[a].guid = npc[a].guid
      <4>1. c.roles = p.roles
        BY <1>10, <1>12
      <4>2. c.roles[a].guid = npc[a].guid
        BY <1>4, <1>7, <4>1
      <4>3. q.roles[a].guid = c.roles[a].guid
        BY <2>1
      <4> QED
        BY <4>2, <4>3
    <3>2. /\ q.roles[a].phase = "feeding" /\ q.roles[a].target.source = s
          /\ q.book.claims = c.book.claims /\ q.actors = c.actors /\ q.claimant = c.claimant
      BY <2>1
    <3> HIDE DEF s, target
    <3>3. /\ c.book.claims[a].source = s /\ c.book.claims[a].life = p.seen[s].life
          /\ c.actors[a].claim = c.book.claims[a].serial
          /\ c.actors[a].corpse = [source |-> s, life |-> p.seen[s].life]
          /\ c.actors[a].guid = npc[a].guid /\ c.claimant[a] = npc[a].guid
      BY <1>10, <1>12
    <3> QED
      BY <3>1, <3>2, <3>3 DEF Held
  <2>4. Aimed(q, a)
    <3>1. q.seen = p.seen /\ q.ofDeath = p.ofDeath /\ q.book.last = p.book.last
      BY <2>2 DEF Only
    <3>2. q.seen[s].guid = target.guid /\ Watched(q, s)
      BY <1>2, <1>7, <3>1 DEF Watched
    <3>3. q.roles[a].target = target /\ q.roles[a].phase = "feeding"
      BY <2>1
    <3> HIDE DEF target
    <3> QED
      BY <1>2, <3>2, <3>3 DEF Aimed
  <2>5. WellKept(q)
    BY <1>7, <2>2, <2>3, <2>4, OneActor
  <2> QED
    BY <1>4, <1>7, <1>10, <1>12, <2>1, <2>5
<1>13. CASE Claimable(p, a, s) /\ q = ClaimCancelled(c, a)
  <2>1. /\ Only(c, q, a) /\ q.book.claims[a] = NoClaim /\ q.book.receipts = c.book.receipts
        /\ q.roles = c.roles
    BY <1>10, <1>13, Cancelled
  <2>2. Only(p, q, a)
    BY <1>9, <1>10, <1>13, <2>1, OnlyTwice
  <2>3. Held(q, a)
    BY <2>1 DEF Held
  <2>4. Aimed(q, a)
    <3>1. /\ q.seen = p.seen /\ q.ofDeath = p.ofDeath /\ q.book.last = p.book.last
      BY <2>2 DEF Only
    <3>2. q.roles[a] = p.roles[a]
      <4>1. c.roles = p.roles
        BY <1>10, <1>13
      <4> QED
        BY <2>1, <4>1
    <3> QED
      BY <1>9, <3>1, <3>2, AimedStill
  <2>5. WellKept(q)
    BY <1>7, <2>2, <2>3, <2>4, OneActor
  <2> QED
    BY <1>4, <1>7, <1>10, <1>13, <2>1, <2>5
<1> QED
  BY <1>8, <1>11, <1>12, <1>13 DEF c

\* After the work is done the claim is gone, and a receipt is new only if the claim
\* was still good and the corpse the one it was made for.
LEMMA CommittedKept ==
  ASSUME NEW p, WellKept(p), NEW a \in Actors, NEW s \in Sources
  PROVE  LET q == Committed(p, a, s)
         IN /\ Only(p, q, a) /\ q.roles = p.roles /\ q.book.claims[a] = NoClaim
            /\ q.book.receipts[a] # p.book.receipts[a] =>
                 ValidMeal(p, a, s) /\ p.book.claims[a] # NoClaim
<1> DEFINE q == Committed(p, a, s)
           claim == p.actors[a].claim
<1>1. /\ p = [book |-> p.book, seen |-> p.seen, actors |-> p.actors, roles |-> p.roles,
              ofDeath |-> p.ofDeath, claimant |-> p.claimant]
      /\ p.actors \in [Actors -> ActorRecord] /\ p.claimant \in [Actors -> Nat]
      /\ SoundIn(p.book) /\ p.book.issued \in Nat /\ Typed(p) /\ Held(p, a)
  BY DEF WellKept, Typed, SoundIn, Books
<1>2. p.book.claims[a] # NoClaim =>
        p.actors[a].claim = p.book.claims[a].serial /\ p.book.claims[a].serial \in 1..p.book.issued
  BY <1>1 DEF Held, SoundIn, ClaimsOpenIn
<1>3. CASE claim = 0
  <2>1. q = p
    BY <1>3 DEF Committed
  <2>2. p.book.claims[a] = NoClaim
    BY <1>1, <1>2, <1>3
  <2> QED
    BY <1>1, <2>1, <2>2, OnlyNothing
<1>4. CASE claim # 0 /\ ~ ValidMeal(p, a, s)
  <2>1. q = ClaimCancelled(p, a)
    BY <1>4 DEF Committed
  <2> QED
    BY <1>1, <1>2, <2>1, Cancelled
<1>5. CASE claim # 0 /\ ValidMeal(p, a, s)
  <2> DEFINE honours == p.book.claims[a].serial = claim
             paid == [p.book EXCEPT !.receipts[a] = p.book.claims[a].serial, !.claims[a] = NoClaim]
             b == IF honours THEN paid ELSE p.book
             record == [p.actors[a] EXCEPT !.claim = 0]
             same == [p.claimant EXCEPT ![a] = p.claimant[a]]
  <2>1. /\ SoundIn(b) /\ b.last = p.book.last /\ b.issued = p.book.issued
        /\ b.claims[a] = NoClaim
        /\ b.receipts[a] # p.book.receipts[a] => p.book.claims[a] # NoClaim
        /\ \A c \in Actors \ {a} : /\ b.claims[c] \in {p.book.claims[c], NoClaim}
                                   /\ b.receipts[c] = p.book.receipts[c]
    <3>1. CASE honours
      <4>1. p.book.claims[a] # NoClaim
        BY <1>5, <3>1 DEF NoClaim
      <4>2. p.book.claims[a].serial \in {0, p.book.claims[a].serial}
        OBVIOUS
      <4>3. /\ SoundIn(paid)
            /\ paid.last = p.book.last /\ paid.issued = p.book.issued
            /\ paid.receipts = [p.book.receipts EXCEPT ![a] = p.book.claims[a].serial]
            /\ paid.claims = [p.book.claims EXCEPT ![a] = NoClaim]
        BY <1>1, <4>2, SettledBook
      <4> HIDE DEF paid
      <4>4. /\ paid.claims[a] = NoClaim
            /\ \A c \in Actors \ {a} : /\ paid.claims[c] = p.book.claims[c]
                                       /\ paid.receipts[c] = p.book.receipts[c]
        BY <1>1, <4>3 DEF SoundIn, Books
      <4> QED
        BY <3>1, <4>1, <4>3, <4>4
    <3>2. CASE ~ honours
      BY <1>1, <1>2, <3>2
    <3> QED
      BY <3>1, <3>2
  <2>2. record \in ActorRecord /\ record.claim = 0
    BY <1>1 DEF ActorRecord
  <2>3. q = [p EXCEPT !.book = b, !.actors[a] = record]
    BY <1>5 DEF Committed, Honoured
  <2>4. p.claimant = same /\ p.claimant[a] \in Nat
    BY <1>1
  <2> HIDE DEF b, record, same, q
  <2>5. q = [book |-> b, seen |-> p.seen, actors |-> [p.actors EXCEPT ![a] = record],
             roles |-> p.roles, ofDeath |-> p.ofDeath, claimant |-> p.claimant]
    BY <1>1, <2>3, BookAndActor
  <2>6. q = [book |-> b, seen |-> p.seen, actors |-> [p.actors EXCEPT ![a] = record],
             roles |-> p.roles, ofDeath |-> p.ofDeath, claimant |-> same]
    BY <2>4, <2>5
  <2>7. Only(p, q, a) /\ q.book = b /\ q.roles = p.roles
    <3>1. q = [book |-> b, seen |-> p.seen, actors |-> [p.actors EXCEPT ![a] = record],
               roles |-> p.roles, ofDeath |-> p.ofDeath,
               claimant |-> [p.claimant EXCEPT ![a] = p.claimant[a]]]
      BY <2>6 DEF same
    <3>2. SoundIn(b) /\ b.last = p.book.last
      BY <2>1
    <3>3. p.claimant[a] \in Nat /\ record.claim <= b.issued /\ b.issued >= p.book.issued
      BY <1>1, <2>1, <2>2, <2>4
    <3>4. \A c \in Actors \ {a} : /\ b.claims[c] \in {p.book.claims[c], NoClaim}
                                  /\ b.receipts[c] = p.book.receipts[c]
      BY <2>1
    <3>5. Typed(p) /\ record \in ActorRecord
      BY <1>1, <2>2
    <3> QED
      BY <3>1, <3>2, <3>3, <3>4, <3>5, ActorSet
  <2> QED
    BY <1>5, <2>1, <2>7 DEF q
<1> QED
  BY <1>3, <1>4, <1>5

\* Whatever a pass of a hunter leads to, and when it leaves a receipt.
LEMMA RoleKept ==
  ASSUME NEW p, WellKept(p), World, NEW a \in Actors, p.roles[a].guid = npc[a].guid,
         NEW q \in RoleOutcomes(p, a)
  PROVE  /\ WellKept(q)
         /\ \A b \in Actors \ {a} : q.book.receipts[b] = p.book.receipts[b]
         /\ q.book.receipts[a] # p.book.receipts[a] =>
              LET target == p.roles[a].target
              IN /\ Present(target) /\ ~ prey[target.source].alive
                 /\ ValidMeal(p, a, target.source) /\ p.book.claims[a] # NoClaim
<1> DEFINE target == p.roles[a].target
           s == target.source
           corpse == Present(target) /\ ~ prey[s].alive
           phase == p.roles[a].phase
<1>1. phase \in {"idle", "hunting", "feeding"} /\ Typed(p) /\ Held(p, a)
  BY DEF WellKept, Typed, RoleRecord
<1>2. p.book.claims[a] # NoClaim =>
        p.actors[a].claim = p.book.claims[a].serial /\ phase = "feeding"
  BY <1>1 DEF Held
<1> DEFINE st == Stopped(p, a)
<1>3. /\ WellKept(st) /\ st.book.receipts = p.book.receipts
  <2>1. Only(p, st, a) /\ Aimed(st, a) /\ Held(st, a) /\ st.book.receipts = p.book.receipts
    BY <1>1, <1>2, StoppedKept
  <2> HIDE DEF st
  <2> QED
    BY <2>1, OneActor
<1>4. CASE phase = "idle"
  <2>1. q = p \/ q \in HuntOutcomes(p, a)
    BY <1>4 DEF RoleOutcomes
  <2> QED
    BY <1>4, <2>1, HuntKept
<1>5. CASE phase = "hunting"
  <2>1. q = p \/ q = st \/ (corpse /\ q \in ClaimOutcomes(p, a, s))
    BY <1>5 DEF RoleOutcomes
  <2>2. CASE q = p \/ q = st
    BY <1>3, <2>2
  <2>3. CASE corpse /\ q \in ClaimOutcomes(p, a, s)
    BY <1>5, <2>3, ClaimKept
  <2> QED
    BY <2>1, <2>2, <2>3
<1>6. CASE phase = "feeding"
  <2> DEFINE c == Committed(p, a, s)
  <2>1. q = st \/ (corpse /\ (q = p \/ q = Stopped(c, a)))
    BY <1>6 DEF RoleOutcomes
  <2>2. CASE q = p \/ q = st
    BY <1>3, <2>2
  <2>3. CASE corpse /\ q = Stopped(c, a)
    <3>1. s \in Sources
      BY <2>3 DEF Present
    <3>2. /\ Only(p, c, a) /\ c.roles = p.roles /\ c.book.claims[a] = NoClaim
          /\ c.book.receipts[a] # p.book.receipts[a] =>
               ValidMeal(p, a, s) /\ p.book.claims[a] # NoClaim
      BY <3>1, CommittedKept
    <3> HIDE DEF c
    <3>3. Typed(c)
      BY <1>1, <3>2, OnlyTyped
    <3>4. /\ Only(c, q, a) /\ Aimed(q, a) /\ Held(q, a) /\ q.book.receipts = c.book.receipts
      BY <2>3, <3>2, <3>3, StoppedKept
    <3>5. Only(p, q, a)
      BY <1>1, <3>2, <3>4, OnlyTwice
    <3>6. WellKept(q)
      BY <3>4, <3>5, OneActor
    <3>7. \A b \in Actors \ {a} : q.book.receipts[b] = p.book.receipts[b]
      BY <3>5 DEF Only
    <3> QED
      BY <2>3, <3>2, <3>4, <3>6, <3>7
  <2> QED
    BY <2>1, <2>2, <2>3
<1> QED
  BY <1>1, <1>4, <1>5, <1>6

---------------------------------------------------------------------------
(* Passes and the state *)

\* What ends in well kept records ends in a state that keeps them.
LEMMA EndsKept ==
  ASSUME NEW p, WellKept(p), World, Ends(p)
  PROVE  Inv'
<1> DEFINE made == [a \in Actors |-> IF p.book.claims[a] = NoClaim THEN 0 ELSE p.claimant[a]]
           r == [book |-> p.book, seen |-> p.seen, actors |-> p.actors, roles |-> p.roles,
                 ofDeath |-> p.ofDeath, claimant |-> made]
           K == {a \in Actors : p.book.claims[a] # NoClaim}
<1>1. Typed(p) /\ p.book \in Books /\ p.claimant \in [Actors -> Nat]
  BY DEF WellKept, Typed, SoundIn
<1>2. made \in [Actors -> Nat] /\ \A a \in K : made[a] = p.claimant[a]
  BY <1>1
<1>3. /\ r.book = p.book /\ r.seen = p.seen /\ r.actors = p.actors /\ r.roles = p.roles
      /\ r.ofDeath = p.ofDeath /\ r.claimant = made
      /\ r = [book |-> r.book, seen |-> r.seen, actors |-> r.actors, roles |-> r.roles,
              ofDeath |-> r.ofDeath, claimant |-> r.claimant]
  OBVIOUS
<1>4. Pass' = r
  <2>1. Book' = p.book
    <3>1. p.book = [last |-> p.book.last, open |-> p.book.open, claims |-> p.book.claims,
                    issued |-> p.book.issued, receipts |-> p.book.receipts]
      BY <1>1 DEF Books
    <3> QED
      BY <3>1 DEF Ends, Becomes, Book
  <2> QED
    BY <2>1 DEF Ends, Pass
<1>5. \A a \in Actors \ K : Aimed(r, a) /\ Held(r, a)
  <2> SUFFICES ASSUME NEW a \in Actors \ K PROVE Aimed(r, a) /\ Held(r, a)
    OBVIOUS
  <2>1. Aimed(p, a) /\ p.book.claims[a] = NoClaim
    BY DEF WellKept
  <2> HIDE DEF r
  <2>2. Held(r, a)
    BY <1>3, <2>1 DEF Held
  <2>3. Aimed(r, a)
    BY <1>3, <2>1, AimedStill
  <2> QED
    BY <2>2, <2>3
<1> HIDE DEF made, r
<1>6. Typed(r)
  BY <1>1, <1>2, <1>3 DEF Typed
<1>7. WellKept(r)
  <2>1. K \in SUBSET Actors
    OBVIOUS
  <2>2. \A a \in K : /\ r.book.claims[a] \in {p.book.claims[a], NoClaim}
                     /\ r.actors[a] = p.actors[a] /\ r.roles[a] = p.roles[a]
                     /\ r.claimant[a] = p.claimant[a]
    BY <1>2, <1>3
  <2> HIDE DEF K
  <2> QED
    BY <1>3, <1>5, <1>6, <2>1, <2>2, RecordsKept
<1>8. /\ prey' = prey /\ npc' = npc /\ spawned' = spawned /\ deaths' = deaths
  BY DEF Ends, creatures
<1>9. World'
  BY <1>8 DEF World
<1>10. Typed(Pass)'
  BY <1>4, <1>6 DEF Typed
<1>11. \A s \in Sources : LifeAhead(Pass, s)' /\ DeathsApart(Pass, s)'
  <2> SUFFICES ASSUME NEW s \in Sources PROVE LifeAhead(Pass, s)' /\ DeathsApart(Pass, s)'
    OBVIOUS
  <2>1. LifeAhead(r, s) /\ DeathsApart(r, s)
    BY <1>7 DEF WellKept
  <2>2. LifeAhead(Pass, s)'
    BY <1>4, <2>1 DEF LifeAhead
  <2>3. DeathsApart(Pass, s)'
    BY <1>4, <1>8, <2>1 DEF DeathsApart, NewDeath, NewGuid
  <2> QED
    BY <2>2, <2>3
<1>12. \A a \in Actors : Aimed(Pass, a)' /\ Held(Pass, a)'
  <2> SUFFICES ASSUME NEW a \in Actors PROVE Aimed(Pass, a)' /\ Held(Pass, a)'
    OBVIOUS
  <2>1. Aimed(r, a) /\ Held(r, a)
    BY <1>7 DEF WellKept
  <2>2. Held(Pass, a)'
    BY <1>4, <2>1 DEF Held
  <2>3. Aimed(Pass, a)'
    BY <1>4, <1>8, <2>1 DEF Aimed, Present, Watched
  <2> QED
    BY <2>2, <2>3
<1> QED
  BY <1>9, <1>10, <1>11, <1>12 DEF Inv, WellKept

\* The sweep at the head of a pass.
LEMMA ExpiredKept ==
  ASSUME Inv, NEW C \in SUBSET Opened, NEW A \in SUBSET Claiming
  PROVE  LET p == Expired(Pass, C, A)
         IN /\ WellKept(p) /\ p.book.receipts = receipts
            /\ p.seen = seen /\ p.ofDeath = ofDeath /\ p.claimant = claimant
            /\ \A a \in Actors : p.book.claims[a] \in {claims[a], NoClaim}
<1> DEFINE b == Swept(Book, C, A)
<1>1. WellKept(Pass) /\ SoundIn(Book) /\ C \in SUBSET Sources /\ A \in SUBSET Actors
  BY DEF Inv, WellKept, Typed, Pass, Opened, Claiming
<1>2. /\ SoundIn(b) /\ b.last = Book.last /\ b.issued = Book.issued /\ b.receipts = Book.receipts
      /\ \A a \in Actors : b.claims[a] \in {Book.claims[a], NoClaim}
  BY <1>1, SweptBook
<1>3. Expired(Pass, C, A) = [Pass EXCEPT !.book = b]
  BY DEF Expired, Pass
<1> HIDE DEF b
<1>4. Pass.book = Book /\ Book.receipts = receipts /\ Book.claims = claims
  BY DEF Pass, Book
<1>5. WellKept([Pass EXCEPT !.book = b])
  BY <1>1, <1>2, <1>4, BookReplaced
<1>6. LET p == [Pass EXCEPT !.book = b]
      IN p.book = b /\ p.seen = seen /\ p.ofDeath = ofDeath /\ p.claimant = claimant
  BY DEF Pass
<1> QED
  BY <1>2, <1>3, <1>4, <1>5, <1>6

\* A pass of a prey.
LEMMA PreyPassKept ==
  ASSUME Inv, NEW s \in Sources, PreyPass(s)
  PROVE  Inv' /\ receipts' = receipts
<1>1. PICK C \in SUBSET Opened, A \in SUBSET Claiming :
        Ends(SourceObserved(Expired(Pass, C, A), s))
  BY DEF PreyPass
<1> DEFINE p == Expired(Pass, C, A)
           q == SourceObserved(p, s)
<1>2. World /\ WellKept(p) /\ p.book.receipts = receipts
  BY ExpiredKept DEF Inv
<1> HIDE DEF p
<1>3. WellKept(q) /\ q.book.receipts = p.book.receipts
  BY <1>2, ObservationKept
<1>4. Ends(q)
  BY <1>1 DEF p
<1> HIDE DEF q
<1>5. receipts' = q.book.receipts
  BY <1>4 DEF Ends, Becomes
<1> QED
  BY <1>2, <1>3, <1>4, <1>5, EndsKept

\* The claim of an actor is on the death of the creature that lies there, and belongs
\* to the creature that made it.
Deserved(a) ==
  LET c == claims[a] IN
  /\ prey[c.source].guid # 0 /\ ~ prey[c.source].alive
  /\ ofDeath[c.source][c.life] = deaths[c.source]
  /\ npc[a].alive /\ npc[a].guid = claimant[a]

\* A pass of a hunter: a receipt is forgotten, or new and deserved.
LEMMA HunterPassKept ==
  ASSUME Inv, NEW a \in Actors, HunterPass(a)
  PROVE  Inv' /\ \A b \in Actors : receipts'[b] \notin {0, receipts[b]} => Deserved(b)
<1>1. PICK C \in SUBSET Opened, A \in SUBSET Claiming :
        LET p == Rebound(ActorObserved(Expired(Pass, C, A), a), a)
        IN IF npc[a].alive THEN \E q \in RoleOutcomes(p, a) : Ends(q) ELSE Ends(p)
  BY DEF HunterPass
<1> DEFINE e == Expired(Pass, C, A)
           o == ActorObserved(e, a)
           p == Rebound(o, a)
<1>2. /\ World /\ WellKept(e) /\ e.book.receipts = receipts
      /\ e.seen = seen /\ e.ofDeath = ofDeath /\ e.claimant = claimant
      /\ \A b \in Actors : e.book.claims[b] \in {claims[b], NoClaim}
  BY ExpiredKept DEF Inv
<1>3. IF npc[a].alive THEN \E q \in RoleOutcomes(p, a) : Ends(q) ELSE Ends(p)
  BY <1>1
<1> HIDE DEF e
<1>4. /\ Only(e, o, a) /\ WellKept(o) /\ o.claimant[a] = e.claimant[a]
      /\ o.book.receipts[a] \in {e.book.receipts[a], 0}
      /\ o.book.claims[a] \in {e.book.claims[a], NoClaim}
      /\ o.book.claims[a] # NoClaim => npc[a].alive /\ o = e
      /\ npc[a].alive => o.actors[a].guid = npc[a].guid
  BY <1>2, ActorObservedKept
<1> HIDE DEF o
<1>5. /\ Only(o, p, a) /\ WellKept(p) /\ p.book = o.book /\ p.actors = o.actors
      /\ p.claimant = o.claimant
      /\ npc[a].alive => p.roles[a].guid = npc[a].guid
  BY <1>2, <1>4, ReboundKept
<1> HIDE DEF p
<1>6. /\ p.seen = seen /\ p.ofDeath = ofDeath /\ p.claimant[a] = claimant[a]
      /\ p.book.claims[a] \in {claims[a], NoClaim} /\ p.book.receipts[a] \in {receipts[a], 0}
      /\ \A b \in Actors \ {a} : p.book.receipts[b] = receipts[b]
  BY <1>2, <1>4, <1>5 DEF Only
<1>7. CASE ~ npc[a].alive
  <2>1. Ends(p) /\ receipts' = p.book.receipts
    BY <1>3, <1>7 DEF Ends, Becomes
  <2>2. Inv'
    BY <1>2, <1>5, <2>1, EndsKept
  <2> QED
    BY <1>6, <2>1, <2>2
<1>8. CASE npc[a].alive
  <2>1. PICK q \in RoleOutcomes(p, a) : Ends(q)
    BY <1>3, <1>8
  <2>2. /\ WellKept(q)
        /\ \A b \in Actors \ {a} : q.book.receipts[b] = p.book.receipts[b]
        /\ q.book.receipts[a] # p.book.receipts[a] =>
             LET target == p.roles[a].target
             IN /\ Present(target) /\ ~ prey[target.source].alive
                /\ ValidMeal(p, a, target.source) /\ p.book.claims[a] # NoClaim
    BY <1>2, <1>5, <1>8, RoleKept
  <2>3. Inv' /\ receipts' = q.book.receipts
    BY <1>2, <2>1, <2>2, EndsKept DEF Ends, Becomes
  <2>4. ASSUME q.book.receipts[a] \notin {0, receipts[a]} PROVE Deserved(a)
    <3> DEFINE target == p.roles[a].target
               s == target.source
    <3>1. /\ Present(target) /\ ~ prey[s].alive /\ ValidMeal(p, a, s)
          /\ p.book.claims[a] # NoClaim
      BY <1>6, <2>2, <2>4
    <3>2. Aimed(p, a) /\ Held(p, a) /\ SoundIn(p.book)
      BY <1>5 DEF WellKept, Typed
    <3>3. claims[a] = p.book.claims[a]
      BY <1>6, <3>1
    <3>4. /\ p.actors[a].corpse = [source |-> claims[a].source, life |-> claims[a].life]
          /\ p.actors[a].guid = claimant[a]
      BY <1>6, <3>1, <3>2, <3>3 DEF Held
    <3>5. p.book.last[claims[a].source] = claims[a].life
      BY <3>1, <3>2, <3>3 DEF SoundIn, ClaimsOpenIn
    <3>6. /\ p.actors[a].guid = npc[a].guid /\ ~ seen[s].alive
          /\ p.actors[a].corpse = [source |-> s, life |-> seen[s].life]
      BY <1>6, <3>1 DEF ValidMeal
    <3>7. claims[a].source = s /\ claims[a].life = seen[s].life
      BY <3>4, <3>6
    <3>8. /\ s \in Sources /\ prey[s].guid = target.guid /\ target # NoTarget
          /\ target.guid # 0 /\ Watched(p, s)
      <4>1. s \in Sources /\ prey[s].guid = target.guid /\ target # NoTarget
        BY <3>1, SupplyRuntimeConstants DEF Present, NoTarget
      <4>2. target.guid \in 1..spawned[s] /\ Watched(p, s)
        BY <3>1, <3>2, <4>1 DEF Aimed
      <4> QED
        BY <4>1, <4>2
    <3>9. ofDeath[s][p.book.last[s]] = deaths[s] /\ p.book.last[s] = seen[s].life
      BY <1>6, <3>5, <3>6, <3>7, <3>8 DEF Watched
    <3> HIDE DEF s
    <3> QED
      BY <1>8, <3>1, <3>4, <3>6, <3>7, <3>8, <3>9 DEF Deserved
  <2> QED
    BY <1>6, <2>2, <2>3, <2>4
<1> QED
  BY <1>7, <1>8

\* What the world does on its own leaves the records alone.
LEMMA WorldKept ==
  ASSUME Inv, UNCHANGED <<vars, records>>, World',
         \A s \in Sources : DeathsApart(Pass, s)', \A a \in Actors : Aimed(Pass, a)'
  PROVE  Inv'
<1>1. Pass' = Pass
  BY DEF Pass, Book, vars, records
<1>2. Typed(Pass) /\ (\A s \in Sources : LifeAhead(Pass, s)) /\ \A a \in Actors : Held(Pass, a)
  BY DEF Inv, WellKept
<1>3. Typed(Pass)'
  BY <1>1, <1>2 DEF Typed
<1>4. ASSUME NEW s \in Sources PROVE LifeAhead(Pass, s)'
  BY <1>1, <1>2 DEF LifeAhead
<1>5. ASSUME NEW a \in Actors PROVE Held(Pass, a)'
  BY <1>1, <1>2 DEF Held
<1> QED
  BY <1>3, <1>4, <1>5 DEF Inv, WellKept

\* The prey of x is as it was.
LEMMA SourceStill ==
  ASSUME Inv, UNCHANGED <<vars, records>>, NEW x \in Sources, prey'[x] = prey[x],
         deaths'[x] = deaths[x]
  PROVE  /\ DeathsApart(Pass, x)'
         /\ \A a \in Actors : roles[a].target.source = x /\ Present(roles[a].target)' =>
              seen'[x].guid = roles'[a].target.guid /\ Watched(Pass, x)'
<1>1. Pass' = Pass /\ seen' = seen /\ roles' = roles
  BY DEF Pass, Book, vars, records
<1>2. DeathsApart(Pass, x) /\ \A a \in Actors : Aimed(Pass, a)
  BY DEF Inv, WellKept
<1>3. Pass.seen = seen /\ Pass.roles = roles
  BY DEF Pass
<1>4. DeathsApart(Pass, x)'
  BY <1>1, <1>2 DEF DeathsApart, NewDeath, NewGuid
<1>5. ASSUME NEW a \in Actors, roles[a].target.source = x, Present(roles[a].target)'
      PROVE  seen'[x].guid = roles'[a].target.guid /\ Watched(Pass, x)'
  <2>1. Present(roles[a].target)
    BY <1>1, <1>5 DEF Present
  <2>2. seen[x].guid = roles[a].target.guid /\ Watched(Pass, x)
    BY <1>2, <1>3, <1>5, <2>1 DEF Aimed
  <2>3. Watched(Pass, x)'
    BY <1>1, <2>2 DEF Watched
  <2> QED
    BY <1>1, <2>2, <2>3
<1> QED
  BY <1>4, <1>5

\* It is enough to look at the one source that changes.
LEMMA OneSource ==
  ASSUME Inv, UNCHANGED <<vars, records>>, World', NEW s \in Sources,
         \A x \in Sources : spawned[x] <= spawned'[x],
         \A x \in Sources \ {s} : prey'[x] = prey[x] /\ deaths'[x] = deaths[x],
         DeathsApart(Pass, s)',
         \A a \in Actors : roles[a].target.source = s /\ Present(roles[a].target)' =>
           seen'[s].guid = roles'[a].target.guid /\ Watched(Pass, s)'
  PROVE  Inv'
<1>1. Pass' = Pass /\ seen' = seen /\ roles' = roles /\ Pass.roles = roles /\ Pass.seen = seen
  BY DEF Pass, Book, vars, records
<1>2. ASSUME NEW x \in Sources \ {s}
      PROVE  /\ DeathsApart(Pass, x)'
             /\ \A a \in Actors : roles[a].target.source = x /\ Present(roles[a].target)' =>
                  seen'[x].guid = roles'[a].target.guid /\ Watched(Pass, x)'
  BY SourceStill
<1>3. \A x \in Sources : DeathsApart(Pass, x)'
  BY <1>2
<1>4. ASSUME NEW a \in Actors PROVE Aimed(Pass, a)'
  <2> DEFINE target == roles[a].target
             x == target.source
  <2>1. Aimed(Pass, a)
    BY DEF Inv, WellKept
  <2>2. /\ roles[a].phase = "idle" <=> target = NoTarget
        /\ target # NoTarget => x \in Sources /\ target.guid \in 1..spawned[x]
    BY <1>1, <2>1 DEF Aimed
  <2>3. target # NoTarget => target.guid \in 1..spawned'[x]
    <3>1. ASSUME target # NoTarget PROVE target.guid \in 1..spawned'[x]
      <4>1. x \in Sources /\ target.guid \in 1..spawned[x]
        BY <2>2, <3>1
      <4>2. spawned[x] <= spawned'[x] /\ spawned[x] \in Nat /\ spawned'[x] \in Nat
        BY <4>1 DEF Inv, World, Spawns
      <4> QED
        BY <4>1, <4>2
    <3> QED
      BY <3>1
  <2>4. ASSUME Present(target)' PROVE seen'[x].guid = target.guid /\ Watched(Pass, x)'
    <3>1. x \in Sources
      BY <1>1, <2>4 DEF Present
    <3> QED
      BY <1>1, <1>2, <2>4, <3>1
  <2> QED
    BY <1>1, <2>2, <2>3, <2>4 DEF Aimed
<1> QED
  BY <1>3, <1>4, WorldKept

\* A change of a hunter's creature alone.
LEMMA HunterChanged ==
  ASSUME Inv, UNCHANGED <<vars, records>>, UNCHANGED <<prey, deaths>>, World',
         \A x \in Sources : spawned[x] <= spawned'[x]
  PROVE  Inv'
<1>1. CASE Sources = {}
  <2>1. Pass' = Pass /\ roles' = roles /\ Pass.roles = roles
    BY DEF Pass, Book, vars, records
  <2>2. ASSUME NEW a \in Actors PROVE Aimed(Pass, a)'
    <3>1. Aimed(Pass, a)
      BY DEF Inv, WellKept
    <3> QED
      BY <1>1, <2>1, <3>1 DEF Aimed, Present
  <2> QED
    BY <1>1, <2>2, WorldKept
<1>2. CASE Sources # {}
  <2>1. PICK s \in Sources : TRUE
    BY <1>2
  <2>2. /\ DeathsApart(Pass, s)'
        /\ \A a \in Actors : roles[a].target.source = s /\ Present(roles[a].target)' =>
             seen'[s].guid = roles'[a].target.guid /\ Watched(Pass, s)'
    BY SourceStill
  <2> QED
    BY <2>2, OneSource
<1> QED
  BY <1>1, <1>2

\* A creature comes: it has a guid that no target can have.
LEMMA LoadKept ==
  ASSUME Inv, NEW s \in Spawns, Load(s)
  PROVE  Inv'
<1>1. World /\ UNCHANGED <<vars, records>> /\ deaths' = deaths
  BY DEF Inv, Load
<1>2. spawned' = [spawned EXCEPT ![s] = @ + 1] /\ spawned \in [Spawns -> Nat]
  BY DEF Load, Inv, World
<1>3. /\ spawned' \in [Spawns -> Nat] /\ spawned'[s] = spawned[s] + 1
      /\ \A x \in Spawns : spawned[x] <= spawned'[x]
      /\ \A x \in Sources : spawned[x] <= spawned'[x] /\ spawned[x] \in Nat /\ spawned'[x] \in Nat
  BY <1>2 DEF Spawns
<1>4. Pass' = Pass /\ seen' = seen /\ roles' = roles
  BY <1>1 DEF Pass, Book, vars, records
<1>5. CASE /\ s \in Sources /\ prey[s] = Unloaded
           /\ prey' = [prey EXCEPT ![s] = [guid |-> spawned[s] + 1, alive |-> TRUE]]
           /\ UNCHANGED npc
  <2>1. /\ prey'[s].guid = spawned[s] + 1 /\ prey'[s].alive
        /\ \A x \in Sources \ {s} : prey'[x] = prey[x]
    BY <1>1, <1>5 DEF World
  <2>2. World'
    <3>1. prey' \in [Sources -> Creature]
      BY <1>1, <1>3, <1>5 DEF World, Creature
    <3>2. \A x \in Sources : prey'[x].guid <= spawned'[x] /\ (prey'[x].alive => prey'[x].guid # 0)
      <4>1. ASSUME NEW x \in Sources \ {s}
            PROVE  prey'[x].guid <= spawned'[x] /\ (prey'[x].alive => prey'[x].guid # 0)
        <5>1. /\ prey[x].guid <= spawned[x] /\ (prey[x].alive => prey[x].guid # 0)
              /\ prey[x].guid \in Nat
          BY <1>1 DEF World, Creature
        <5> QED
          BY <1>3, <2>1, <5>1
      <4>2. prey'[s].guid <= spawned'[s] /\ prey'[s].guid # 0
        <5>1. spawned[s] \in Nat
          BY <1>2
        <5> QED
          BY <1>3, <2>1, <5>1
      <4> QED
        BY <4>1, <4>2
    <3> QED
      BY <1>1, <1>3, <1>5, <3>1, <3>2 DEF World
  <2>3. DeathsApart(Pass, s)'
    <3>1. DeathsApart(Pass, s)
      BY <1>5 DEF Inv, WellKept
    <3> QED
      BY <1>1, <1>4, <2>1, <3>1 DEF DeathsApart, NewDeath
  <2>4. ASSUME NEW a \in Actors, roles[a].target.source = s, Present(roles[a].target)'
        PROVE  FALSE
    <3>1. roles[a].target.guid = spawned[s] + 1 /\ s # 0
      BY <1>4, <1>5, <2>1, <2>4, SupplyRuntimeConstants DEF Present
    <3>2. roles[a].target # NoTarget
      BY <2>4, <3>1 DEF NoTarget
    <3>3. Aimed(Pass, a) /\ Pass.roles = roles
      BY DEF Inv, WellKept, Pass
    <3>4. roles[a].target.guid \in 1..spawned[s]
      BY <2>4, <3>2, <3>3 DEF Aimed
    <3> QED
      BY <1>3, <1>5, <3>1, <3>4
  <2> QED
    BY <1>1, <1>3, <1>5, <2>1, <2>2, <2>3, <2>4, OneSource
<1>6. CASE /\ s \in Actors /\ npc[s] = Unloaded
           /\ npc' = [npc EXCEPT ![s] = [guid |-> spawned[s] + 1, alive |-> TRUE]]
           /\ UNCHANGED prey
  <2>1. npc' \in [Actors -> Creature]
    BY <1>1, <1>3, <1>6 DEF World, Creature
  <2>2. \A x \in Sources : prey'[x].guid <= spawned'[x] /\ (prey'[x].alive => prey'[x].guid # 0)
    <3>1. ASSUME NEW x \in Sources PROVE prey[x].guid <= spawned'[x]
      <4>1. prey[x].guid <= spawned[x] /\ prey[x].guid \in Nat
        BY <1>1 DEF World, Creature
      <4> QED
        BY <1>3, <4>1
    <3> QED
      BY <1>1, <1>6, <3>1 DEF World
  <2>3. World'
    BY <1>1, <1>3, <1>6, <2>1, <2>2 DEF World
  <2> QED
    BY <1>1, <1>3, <1>6, <2>3, HunterChanged
<1> QED
  BY <1>5, <1>6 DEF Load

\* A creature that is gone is nobody's target.
LEMMA UnloadKept ==
  ASSUME Inv, NEW s \in Spawns, Unload(s)
  PROVE  Inv'
<1>1. World /\ UNCHANGED <<vars, records>> /\ deaths' = deaths /\ spawned' = spawned
  BY DEF Inv, Unload
<1>2. \A x \in Sources : spawned[x] <= spawned'[x] /\ spawned[x] \in Nat
  BY <1>1 DEF World, Spawns
<1>3. Unloaded \in Creature /\ Unloaded.guid = 0 /\ ~ Unloaded.alive
  BY DEF Unloaded, Creature
<1>4. Pass' = Pass /\ seen' = seen /\ roles' = roles
  BY <1>1 DEF Pass, Book, vars, records
<1>5. CASE s \in Sources /\ prey' = [prey EXCEPT ![s] = Unloaded] /\ UNCHANGED npc
  <2>1. prey'[s] = Unloaded /\ \A x \in Sources \ {s} : prey'[x] = prey[x]
    BY <1>1, <1>5 DEF World
  <2>2. World'
    <3>1. prey' \in [Sources -> Creature]
      BY <1>1, <1>3, <1>5 DEF World
    <3>2. \A x \in Sources : prey'[x].guid <= spawned'[x] /\ (prey'[x].alive => prey'[x].guid # 0)
      BY <1>1, <1>2, <1>3, <2>1 DEF World
    <3> QED
      BY <1>1, <1>5, <3>1, <3>2 DEF World
  <2>3. DeathsApart(Pass, s)'
    <3>1. DeathsApart(Pass, s)
      BY <1>5 DEF Inv, WellKept
    <3> QED
      BY <1>1, <1>4, <2>1, <3>1 DEF DeathsApart
  <2>4. ASSUME NEW a \in Actors, roles[a].target.source = s, Present(roles[a].target)'
        PROVE  FALSE
    <3>1. roles[a].target.guid = 0 /\ s # 0
      BY <1>3, <1>4, <1>5, <2>1, <2>4, SupplyRuntimeConstants DEF Present
    <3>2. roles[a].target # NoTarget
      BY <2>4, <3>1 DEF NoTarget
    <3>3. Aimed(Pass, a) /\ Pass.roles = roles
      BY DEF Inv, WellKept, Pass
    <3>4. roles[a].target.guid \in 1..spawned[s]
      BY <2>4, <3>2, <3>3 DEF Aimed
    <3> QED
      BY <3>1, <3>4
  <2> QED
    BY <1>1, <1>2, <1>5, <2>1, <2>2, <2>3, <2>4, OneSource
<1>6. CASE s \in Actors /\ npc' = [npc EXCEPT ![s] = Unloaded] /\ UNCHANGED prey
  <2>1. npc' \in [Actors -> Creature]
    BY <1>1, <1>3, <1>6 DEF World
  <2>2. World'
    BY <1>1, <1>6, <2>1 DEF World
  <2> QED
    BY <1>1, <1>2, <1>6, <2>2, HunterChanged
<1> QED
  BY <1>5, <1>6 DEF Unload

\* A death is one that no life was registered for, and a hunter that was after the
\* creature has seen it alive.
LEMMA PreyDiesKept ==
  ASSUME Inv, NEW s \in Sources, PreyDies(s)
  PROVE  Inv'
<1>1. /\ World /\ UNCHANGED <<vars, records>> /\ spawned' = spawned /\ npc' = npc
      /\ prey[s].alive /\ prey' = [prey EXCEPT ![s].alive = FALSE]
      /\ deaths' = [deaths EXCEPT ![s] = @ + 1]
  BY DEF Inv, PreyDies
<1>2. \A x \in Sources : spawned[x] <= spawned'[x] /\ spawned[x] \in Nat
  BY <1>1 DEF World, Spawns
<1>3. Pass' = Pass /\ seen' = seen /\ roles' = roles /\ Pass.seen = seen /\ Pass.roles = roles
  BY <1>1 DEF Pass, Book, vars, records
<1>4. /\ prey'[s].guid = prey[s].guid /\ ~ prey'[s].alive /\ prey' \in [Sources -> Creature]
      /\ \A x \in Sources \ {s} : prey'[x] = prey[x]
  BY <1>1 DEF World, Creature
<1>5. /\ deaths' \in [Sources -> Nat] /\ deaths'[s] = deaths[s] + 1 /\ deaths[s] \in Nat
      /\ \A x \in Sources \ {s} : deaths'[x] = deaths[x]
  BY <1>1 DEF World
<1>6. World'
  <2>1. \A x \in Sources : prey'[x].guid <= spawned'[x] /\ (prey'[x].alive => prey'[x].guid # 0)
    BY <1>1, <1>4 DEF World
  <2> QED
    BY <1>1, <1>4, <1>5, <2>1 DEF World
<1>7. DeathsApart(Pass, s)'
  <2>1. /\ \A l \in DOMAIN Pass.ofDeath[s] : Pass.ofDeath[s][l] \in 0..deaths[s]
        /\ \A l, m \in DOMAIN Pass.ofDeath[s] : l # m => Pass.ofDeath[s][l] # Pass.ofDeath[s][m]
    BY DEF Inv, WellKept, DeathsApart
  <2>2. \A l \in DOMAIN Pass.ofDeath[s] : /\ Pass.ofDeath[s][l] \in 0..(deaths[s] + 1)
                                          /\ Pass.ofDeath[s][l] # deaths[s] + 1
    BY <1>5, <2>1
  <2> QED
    BY <1>3, <1>5, <2>1, <2>2 DEF DeathsApart
<1>8. ASSUME NEW a \in Actors, roles[a].target.source = s, Present(roles[a].target)'
      PROVE  seen'[s].guid = roles'[a].target.guid /\ Watched(Pass, s)'
  <2>1. Present(roles[a].target)
    BY <1>3, <1>4, <1>8 DEF Present
  <2>2. Aimed(Pass, a)
    BY DEF Inv, WellKept
  <2>3. seen[s].guid = roles[a].target.guid /\ Watched(Pass, s)
    BY <1>3, <1>8, <2>1, <2>2 DEF Aimed
  <2>4. Pass.seen[s].alive
    BY <1>1, <2>3 DEF Watched
  <2> QED
    BY <1>3, <2>3, <2>4 DEF Watched
<1> QED
  BY <1>1, <1>2, <1>4, <1>5, <1>6, <1>7, <1>8, OneSource

\* The death of a hunter.
LEMMA HunterDiesKept ==
  ASSUME Inv, NEW a \in Actors, HunterDies(a)
  PROVE  Inv'
<1>1. /\ World /\ UNCHANGED <<vars, records>> /\ UNCHANGED <<prey, spawned, deaths>>
      /\ npc' = [npc EXCEPT ![a].alive = FALSE]
  BY DEF Inv, HunterDies
<1>2. npc' \in [Actors -> Creature]
  BY <1>1 DEF World, Creature
<1>3. World'
  BY <1>1, <1>2 DEF World
<1>4. \A x \in Sources : spawned[x] <= spawned'[x]
  BY <1>1 DEF World, Spawns
<1> QED
  BY <1>1, <1>3, <1>4, HunterChanged

\* A creature comes back to life after its death was seen and the hunters left it.
LEMMA RespawnKept ==
  ASSUME Inv, NEW s \in Spawns, Respawn(s)
  PROVE  Inv'
<1>1. /\ World /\ UNCHANGED <<vars, records>> /\ UNCHANGED <<spawned, deaths>>
  BY DEF Inv, Respawn
<1>2. \A x \in Sources : spawned[x] <= spawned'[x] /\ spawned[x] \in Nat
  BY <1>1 DEF World, Spawns
<1>3. Pass' = Pass /\ seen' = seen /\ roles' = roles /\ Pass.roles = roles
  BY <1>1 DEF Pass, Book, vars, records
<1>4. CASE /\ s \in Sources /\ prey[s].guid # 0
           /\ \A a \in Actors : roles[a].target # [source |-> s, guid |-> prey[s].guid]
           /\ prey' = [prey EXCEPT ![s].alive = TRUE] /\ UNCHANGED npc
  <2>1. /\ prey'[s].guid = prey[s].guid /\ prey'[s].alive /\ prey' \in [Sources -> Creature]
        /\ \A x \in Sources \ {s} : prey'[x] = prey[x]
    BY <1>1, <1>4 DEF World, Creature
  <2>2. World'
    <3>1. \A x \in Sources : prey'[x].guid <= spawned'[x] /\ (prey'[x].alive => prey'[x].guid # 0)
      BY <1>1, <1>4, <2>1 DEF World
    <3> QED
      BY <1>1, <1>4, <2>1, <3>1 DEF World
  <2>3. DeathsApart(Pass, s)'
    <3>1. DeathsApart(Pass, s)
      BY <1>4 DEF Inv, WellKept
    <3> QED
      BY <1>1, <1>3, <2>1, <3>1 DEF DeathsApart, NewDeath
  <2>4. ASSUME NEW a \in Actors, roles[a].target.source = s, Present(roles[a].target)'
        PROVE  FALSE
    <3>1. roles[a].target.guid = prey[s].guid
      BY <1>3, <2>1, <2>4 DEF Present
    <3>2. roles \in [Actors -> RoleRecord]
      BY <1>3 DEF Inv, WellKept, Typed
    <3>3. roles[a].target \in [source : Nat, guid : Nat]
      BY <3>2 DEF RoleRecord
    <3>4. roles[a].target = [source |-> s, guid |-> prey[s].guid]
      BY <2>4, <3>1, <3>3
    <3> QED
      BY <1>4, <3>4
  <2> QED
    BY <1>1, <1>2, <1>4, <2>1, <2>2, <2>3, <2>4, OneSource
<1>5. CASE s \in Actors /\ npc' = [npc EXCEPT ![s].alive = TRUE] /\ UNCHANGED prey
  <2>1. npc' \in [Actors -> Creature]
    BY <1>1, <1>5 DEF World, Creature
  <2>2. World'
    BY <1>1, <1>5, <2>1 DEF World
  <2> QED
    BY <1>1, <1>2, <1>5, <2>2, HunterChanged
<1> QED
  BY <1>4, <1>5 DEF Respawn

---------------------------------------------------------------------------
(* The specification *)

LEMMA RuntimeInitInv == RuntimeInit => Inv
<1> SUFFICES ASSUME RuntimeInit PROVE Inv
  OBVIOUS
<1>1. Unloaded \in Creature /\ Unloaded.guid = 0 /\ ~ Unloaded.alive
  BY DEF Unloaded, Creature
<1>2. World
  <2>1. /\ prey \in [Sources -> Creature] /\ npc \in [Actors -> Creature]
        /\ spawned \in [Spawns -> Nat] /\ deaths \in [Sources -> Nat]
    BY <1>1 DEF RuntimeInit
  <2>2. \A s \in Sources : prey[s] = Unloaded /\ spawned[s] = 0
    BY DEF RuntimeInit, Spawns
  <2> QED
    BY <1>1, <2>1, <2>2 DEF World
<1>3. SoundIn(Book)
  BY InitSound, OfState DEF RuntimeInit
<1>4. /\ Pass = [book |-> Pass.book, seen |-> Pass.seen, actors |-> Pass.actors,
                 roles |-> Pass.roles, ofDeath |-> Pass.ofDeath, claimant |-> Pass.claimant]
      /\ Pass.book = Book /\ Pass.seen = seen /\ Pass.actors = actors /\ Pass.roles = roles
      /\ Pass.ofDeath = ofDeath /\ Pass.claimant = claimant
  BY DEF Pass
<1>5. /\ Book.claims = claims /\ Book.last = last /\ Book.issued = issued
  BY DEF Book
<1>6. /\ seen \in [Sources -> Observation] /\ actors \in [Actors -> ActorRecord]
      /\ roles \in [Actors -> RoleRecord] /\ DOMAIN ofDeath = Sources
      /\ claimant \in [Actors -> Nat] /\ issued = 0
      /\ \A a \in Actors : actors[a].claim = 0
  BY DEF RuntimeInit, Init, Observation, ActorRecord, RoleRecord, Nothing, NoTarget
<1>7. Typed(Pass)
  BY <1>3, <1>4, <1>5, <1>6 DEF Typed
<1>8. ASSUME NEW s \in Sources PROVE LifeAhead(Pass, s) /\ DeathsApart(Pass, s)
  <2>1. last[s] = 0 /\ seen[s].life = 0 /\ seen[s].alive = FALSE
        /\ ofDeath[s] = <<>> /\ DOMAIN ofDeath[s] = {}
    BY DEF RuntimeInit, Init
  <2> QED
    BY <1>4, <1>5, <2>1 DEF LifeAhead, DeathsApart
<1>9. ASSUME NEW a \in Actors PROVE Aimed(Pass, a) /\ Held(Pass, a)
  <2>1. roles[a].phase = "idle" /\ roles[a].target = NoTarget /\ claims[a] = NoClaim
    BY DEF RuntimeInit, Init
  <2>2. ~ Present(NoTarget)
    BY SupplyRuntimeConstants DEF Present, NoTarget
  <2> QED
    BY <1>4, <1>5, <2>1, <2>2 DEF Aimed, Held
<1> QED
  BY <1>2, <1>7, <1>8, <1>9 DEF Inv, WellKept

\* Every step keeps the records well, and a receipt that is new is deserved.
LEMMA RuntimeStep ==
  Inv /\ [RuntimeNext]_allVars =>
    Inv' /\ \A a \in Actors : receipts'[a] \notin {0, receipts[a]} => Deserved(a)
<1> SUFFICES ASSUME Inv, [RuntimeNext]_allVars
             PROVE  Inv' /\ \A a \in Actors : receipts'[a] \notin {0, receipts[a]} => Deserved(a)
  OBVIOUS
<1>1. ASSUME NEW s \in Spawns, Load(s) \/ Unload(s) \/ Respawn(s)
      PROVE  Inv' /\ receipts' = receipts
  BY <1>1, LoadKept, UnloadKept, RespawnKept DEF Load, Unload, Respawn, vars
<1>2. ASSUME NEW s \in Sources, PreyDies(s) PROVE Inv' /\ receipts' = receipts
  BY <1>2, PreyDiesKept DEF PreyDies, vars
<1>3. ASSUME NEW s \in Sources, PreyPass(s) PROVE Inv' /\ receipts' = receipts
  BY <1>3, PreyPassKept
<1>4. ASSUME NEW a \in Actors, HunterDies(a) PROVE Inv' /\ receipts' = receipts
  BY <1>4, HunterDiesKept DEF HunterDies, vars
<1>5. ASSUME NEW a \in Actors, HunterPass(a)
      PROVE  Inv' /\ \A b \in Actors : receipts'[b] \notin {0, receipts[b]} => Deserved(b)
  BY <1>5, HunterPassKept
<1>6. CASE UNCHANGED allVars
  <2>1. UNCHANGED <<vars, records>> /\ UNCHANGED <<prey, deaths>> /\ UNCHANGED <<spawned, npc>>
    BY <1>6 DEF allVars, creatures
  <2>2. World' /\ \A x \in Sources : spawned[x] <= spawned'[x]
    BY <2>1 DEF Inv, World, Spawns
  <2>3. Inv'
    BY <2>1, <2>2, HunterChanged
  <2> QED
    BY <2>1, <2>3 DEF vars
<1> QED
  BY <1>1, <1>2, <1>3, <1>4, <1>5, <1>6 DEF RuntimeNext

\* The records stay well kept.
LEMMA RuntimeInv == RuntimeSpec => []Inv
<1>1. Inv /\ [RuntimeNext]_allVars => Inv'
  BY RuntimeStep
<1> QED
  BY RuntimeInitInv, <1>1, PTL DEF RuntimeSpec

\* ObserveLivingSupply and RegisterCarcass: however the passes miss, repeat or delay
\* what happens to a creature, no two lives of a source are registered for one death.
THEOREM RuntimeDeaths == RuntimeSpec => []OneCarcassPerDeath
<1>1. Inv => OneCarcassPerDeath
  BY DEF Inv, WellKept, DeathsApart, Pass, OneCarcassPerDeath
<1> QED
  BY RuntimeInv, <1>1, PTL

\* ClaimSupplyCarcass, CancelSupplyClaim and StopLivingRole: a claim is pending only for
\* the actor that remembers it and works on that carcass.
THEOREM RuntimeClaims == RuntimeSpec => []ClaimsHeld
<1>1. ASSUME Inv PROVE ClaimsHeld
  <2>1. /\ Typed(Pass) /\ \A a \in Actors : Aimed(Pass, a) /\ Held(Pass, a)
    BY <1>1 DEF Inv, WellKept
  <2>2. /\ SoundIn(Book) /\ seen \in [Sources -> Observation]
        /\ actors \in [Actors -> ActorRecord] /\ roles \in [Actors -> RoleRecord]
        /\ \A a \in Actors : actors[a].claim <= issued
    BY <2>1 DEF Typed, Pass, Book
  <2>3. issued \in Nat
    BY <2>2 DEF SoundIn, Books, Book
  <2>4. RuntimeTypeOK
    <3>1. prey \in [Sources -> Creature] /\ npc \in [Actors -> Creature]
      BY <1>1 DEF Inv, World
    <3>2. ASSUME NEW a \in Actors
          PROVE  /\ actors[a].claim \in 0..issued
                 /\ roles[a].phase \in {"idle", "hunting", "feeding"}
                 /\ roles[a].phase = "idle" <=> roles[a].target = NoTarget
      <4>1. actors[a].claim \in Nat /\ roles[a].phase \in {"idle", "hunting", "feeding"}
        BY <2>2 DEF ActorRecord, RoleRecord
      <4>2. roles[a].phase = "idle" <=> roles[a].target = NoTarget
        BY <2>1 DEF Aimed, Pass
      <4> QED
        BY <2>2, <2>3, <4>1, <4>2
    <3> QED
      BY <2>2, <3>1, <3>2 DEF RuntimeTypeOK, Creature, Observation
  <2>5. ClaimsOpen
    BY <2>2 DEF SoundIn, ClaimsOpenIn, ClaimsOpen, Book
  <2>6. ASSUME NEW a \in Actors, claims[a] # NoClaim
        PROVE  /\ actors[a].claim = claims[a].serial
               /\ actors[a].corpse = [source |-> claims[a].source, life |-> claims[a].life]
               /\ roles[a].phase = "feeding" /\ roles[a].target.source = claims[a].source
               /\ roles[a].guid = claimant[a]
    BY <2>1, <2>6 DEF Held, Pass, Book
  <2> QED
    BY <2>4, <2>5, <2>6 DEF ClaimsHeld
<1> QED
  BY RuntimeInv, <1>1, PTL

\* CommitSupplyCarcass: what is harvested comes from the corpse that lies there, from the
\* death that was claimed, and goes to the creature that claimed it.
THEOREM RuntimeHarvest == RuntimeSpec => HarvestOfClaimedDeath
<1>1. Inv /\ [RuntimeNext]_allVars =>
        [\A a \in Actors :
           receipts'[a] \notin {0, receipts[a]} =>
             LET c == claims[a] IN
             /\ prey[c.source].guid # 0 /\ ~ prey[c.source].alive
             /\ ofDeath[c.source][c.life] = deaths[c.source]
             /\ npc[a].alive /\ npc[a].guid = claimant[a]]_allVars
  BY RuntimeStep DEF Deserved
<1> QED
  BY RuntimeInv, <1>1, PTL DEF RuntimeSpec, HarvestOfClaimedDeath
=============================================================================
