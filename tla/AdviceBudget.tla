---------------------------- MODULE AdviceBudget ----------------------------
(***************************************************************************)
(* The queue in which the roles of the world wait for their turn to search *)
(* for recovery advice and ask the model: one turn every Spacing units of  *)
(* time, offered to one waiting actor at a time, stalled returns before    *)
(* searches for food in the ratio three to one.                            *)
(*                                                                         *)
(* The queue is not told who can use a turn: an actor that is offered one  *)
(* may rest, fight, move, or simply never come to ask for it.              *)
(*                                                                         *)
(* Time is kept as ages, none counted further than it matters.  The clock  *)
(* of the world does not go back, so those branches are left out.          *)
(***************************************************************************)
EXTENDS Integers, Sequences, SequencesExt, FiniteSets

CONSTANTS
    Returners,  \* roles whose return may stall (urgent)
    Foragers,   \* predators, which may search for food (normal)
    Spacing,    \* 2000 ms: from one turn to the next
    Patience,   \* 5000 ms: an offer is passed on
    Forget,     \* 30000 ms: an actor that is not updated any more
    Places      \* 2048: requests that wait

Actors == Returners \union Foragers

\* "nobody" is the empty std::optional.
ASSUME AdviceBudgetConstants ==
    /\ "nobody" \notin Actors
    /\ Spacing \in Nat \ {0} /\ Patience \in Nat \ {0} /\ Forget \in Nat \ {0}
    /\ Places \in Nat \ {0}

VARIABLES
    waiting,    \* _waiting: [id, urgent, dispatchable, unseen]
    offer,      \* _offeredId with its age and class, or NoOffer
    idle,       \* since _admittedAt
    swept,      \* since _sweptAt
    run,        \* _urgentRun
    passed,     \* urgent offers in a row while a normal request could be offered (history)
    deciding    \* the actor in the middle of its update, with its class, or Nobody

vars == <<waiting, offer, idle, swept, run, passed, deciding>>

\* The unit of time is the interval of the sweep, 1000 ms.
Sweep == 1

Nobody == [actor |-> "nobody", urgent |-> FALSE]

NoOffer == [to |-> "nobody", urgent |-> FALSE, age |-> 0]

\* The whole object, as its methods pass it on to each other.
Budget == [waiting |-> waiting, offer |-> offer, idle |-> idle, swept |-> swept,
           run |-> run, passed |-> passed]

Becomes(b) ==
    /\ waiting' = b.waiting /\ offer' = b.offer /\ idle' = b.idle
    /\ swept' = b.swept /\ run' = b.run /\ passed' = b.passed

Entry(b, a) == SelectInSeq(b.waiting, LAMBDA w : w.id = a)     \* 0: it does not wait

\* The entries of q in the places at, in their order.
Keep(q, at) ==
    LET Rank(i) == Cardinality({j \in at : j <= i})
    IN  [k \in 1..Cardinality(at) |-> q[CHOOSE i \in at : Rank(i) = k]]

Is(b, a) == b.offer # NoOffer /\ b.offer.to = a

Smallest(m, n) == IF m < n THEN m ELSE n

(***************************************************************************)
(* Private methods.                                                        *)
(***************************************************************************)
CompleteTurn(b, urgent) ==
    [b EXCEPT !.run = IF urgent THEN Smallest(3, @ + 1) ELSE 0,
              !.passed = IF urgent THEN @ ELSE 0]

\* A definition named ..._BadXyz is a plausible slip in the definition after it.
\* Slip: an offer that was not used does not count.
PassOffer_BadFree(b) == [b EXCEPT !.offer = NoOffer]

PassOffer(b) ==
    IF b.offer = NoOffer THEN b
    ELSE [CompleteTurn(b, b.offer.urgent) EXCEPT !.offer = NoOffer]

Expire(b) ==
    IF b.swept < Sweep THEN b
    ELSE [b EXCEPT !.swept = 0,
                   !.waiting = Keep(@, {i \in DOMAIN @ : @[i].unseen <= Forget})]

\* The place of the entry whose turn it is, or 0.
Turn(b) ==
    LET urgent == SelectInSeq(b.waiting, LAMBDA w : w.urgent /\ w.dispatchable)
        normal == SelectInSeq(b.waiting, LAMBDA w : ~ w.urgent /\ w.dispatchable)
    IN  IF urgent # 0 /\ (b.run < 3 \/ normal = 0) THEN urgent ELSE normal

MakeOffer(b) ==
    LET i == Turn(b) w == b.waiting[i]
        contested == \E j \in 1..Len(b.waiting) :
                         ~ b.waiting[j].urgent /\ b.waiting[j].dispatchable
    IN  IF i = 0 THEN b
        ELSE [b EXCEPT !.offer = [to |-> w.id, urgent |-> w.urgent, age |-> 0],
                       !.passed = IF w.urgent /\ contested THEN @ + 1 ELSE 0]

\* Slip: an actor that missed its turn keeps its place.
Missed_BadPlace(b, i) == PassOffer(b)

Missed(b, i) == PassOffer([b EXCEPT !.waiting = Append(RemoveAt(@, i), @[i])])

Offer(b0) ==
    LET b == Expire(b0) i == Entry(b, b.offer.to) IN
    IF b.idle < Spacing THEN [b EXCEPT !.offer = NoOffer]
    ELSE IF b.offer = NoOffer THEN MakeOffer(b)
    ELSE IF i = 0 THEN MakeOffer(PassOffer(b))
    ELSE IF ~ b.waiting[i].dispatchable THEN MakeOffer(PassOffer(b))
    ELSE IF b.offer.age < Patience THEN b
    ELSE MakeOffer(Missed(b, i))

(***************************************************************************)
(* Public methods.                                                         *)
(***************************************************************************)
Cancelled(b, a) ==
    LET rest == [b EXCEPT !.waiting = Keep(@, {i \in DOMAIN @ : @[i].id # a})]
    IN  IF Is(b, a) THEN PassOffer(rest) ELSE rest

Refreshed(b0, a, urgent, dispatchable) ==
    LET b == Expire(b0) i == Entry(b, a)
        seen == [id |-> a, urgent |-> urgent, dispatchable |-> dispatchable, unseen |-> 0]
    IN  Offer(IF i = 0 THEN b ELSE [b EXCEPT !.waiting[i] = seen])

\* The queue as Acquire leaves it before it looks whose turn it is.
Asked(b0, a, urgent) ==
    LET b == Refreshed(b0, a, urgent, TRUE)
        new == [id |-> a, urgent |-> urgent, dispatchable |-> TRUE, unseen |-> 0]
    IN  Offer(IF Entry(b, a) = 0 /\ Len(b.waiting) < Places
              THEN [b EXCEPT !.waiting = Append(@, new)] ELSE b)

\* The turn is completed once, by the class the actor has now.
Acquired(b, a, urgent) ==
    [Cancelled([CompleteTurn(b, urgent) EXCEPT !.offer = NoOffer], a) EXCEPT !.idle = 0]

Acquire(b0, a, urgent) ==
    LET b == Asked(b0, a, urgent) IN IF Is(b, a) THEN Acquired(b, a, urgent) ELSE b

(***************************************************************************)
(* Callers.                                                                *)
(***************************************************************************)
Classes(a) == {u \in BOOLEAN : IF u THEN a \in Returners ELSE a \in Foragers}

\* An update first renews the request of an actor that could use advice, or
\* withdraws it, and looks whether the actor is offered the turn.
UpdateLivingRole(a) ==
    /\ deciding = Nobody
    /\ \/ /\ Becomes(Offer(Cancelled(Expire(Budget), a)))
          /\ UNCHANGED deciding
       \/ \E urgent \in Classes(a), dispatchable \in BOOLEAN :
             /\ Becomes(Offer(Refreshed(Budget, a, urgent, dispatchable)))
             /\ deciding' = [actor |-> a, urgent |-> urgent]

\* The rest of the update comes to TryLivingAdvice, whose gates are those of
\* queueEligible, or it does something else.
Decide(a) ==
    /\ deciding # Nobody /\ deciding.actor = a
    /\ deciding' = Nobody
    /\ Becomes(Budget) \/ Becomes(Acquire(Budget, a, deciding.urgent))

\* The actor leaves the scope, is replaced, starts to flee or hunt, or has
\* found a refuge.
Cancel(a) ==
    /\ deciding # Nobody => deciding.actor = a
    /\ deciding' = Nobody
    /\ Becomes(Cancelled(Budget, a))

Tick ==
    /\ deciding = Nobody
    /\ waiting' = [i \in 1..Len(waiting) |->
                      [waiting[i] EXCEPT !.unseen = Smallest(@ + 1, Forget + 1)]]
    /\ offer' = IF offer = NoOffer THEN offer ELSE [offer EXCEPT !.age = Smallest(@ + 1, Patience)]
    /\ idle' = Smallest(idle + 1, Spacing)
    /\ swept' = Smallest(swept + 1, Sweep)
    /\ UNCHANGED <<run, passed, deciding>>

Init ==
    /\ waiting = <<>> /\ offer = NoOffer
    /\ idle = Spacing /\ swept = Sweep
    /\ run = 0 /\ passed = 0 /\ deciding = Nobody

Next ==
    \/ \E a \in Actors : UpdateLivingRole(a) \/ Decide(a) \/ Cancel(a)
    \/ Tick

Spec == Init /\ [][Next]_vars

\* Time passes; the map keeps updating actors, each update ends, and each sweeps
\* the queue if it was not swept for an interval.
FairSpec == Spec /\ SF_vars(Tick) /\ []<>(deciding = Nobody) /\ []<>(swept = 0)

-----------------------------------------------------------------------------
(***************************************************************************)
(* Properties.                                                             *)
(***************************************************************************)
\* The shape of the state; no actor waits twice, and the queue keeps its bound.
TypeOK ==
    /\ waiting \in Seq([id : Actors, urgent : BOOLEAN, dispatchable : BOOLEAN, unseen : 0..Forget + 1])
    /\ Cardinality({waiting[i].id : i \in 1..Len(waiting)}) = Len(waiting)
    /\ Len(waiting) <= Places
    /\ offer = NoOffer \/ offer \in [to : Actors, urgent : BOOLEAN, age : 0..Patience]
    /\ idle \in 0..Spacing /\ swept \in 0..Sweep /\ run \in 0..3 /\ passed \in Nat
    /\ deciding = Nobody \/ deciding \in [actor : Actors, urgent : BOOLEAN]

\* Three to one: while a search for food could be offered, at most three offers
\* in a row go to returns, whether these are used, missed, suspended or withdrawn.
ThreeToOne == TypeOK /\ passed <= 3

Waits(a, urgent) ==
    \E i \in 1..Len(waiting) : waiting[i].id = a /\ waiting[i].dispatchable /\ waiting[i].urgent = urgent

\* The offered actor turns to something else and keeps its place.
Suspended ==
    /\ offer # NoOffer
    /\ offer' # offer
    /\ \E i \in 1..Len(waiting') : waiting'[i].id = offer.to /\ ~ waiting'[i].dispatchable

\* The offered actor asks in the other class: it will complete a turn of a
\* class whose turn it was not.
Reclassed ==
    /\ offer # NoOffer
    /\ \E i \in 1..Len(waiting') : waiting'[i].id = offer.to /\ waiting'[i].urgent # offer.urgent

\* Whoever waits in one class and could use a turn is offered one, again and again, though
\* nobody before it ever acquires; unless actors that were offered one keep
\* suspending it, or changing their class, which costs them nothing.
Served ==
    \A a \in Actors, urgent \in BOOLEAN :
        <>[]Waits(a, urgent) => []<>(offer.to = a) \/ []<><<Suspended \/ Reclassed>>_vars

=============================================================================
