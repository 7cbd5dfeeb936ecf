------------------------- MODULE AdviceBudgetProofs -------------------------
(***************************************************************************)
(* Three returns to one search, for any actors, intervals and number of    *)
(* places.                                                                 *)
(*                                                                         *)
(* The methods of the budget hand the whole object on to each other, and   *)
(* one call of an actor runs several of them.  So the invariant is stated  *)
(* of the object (Sound) and there is a lemma for each method: it leaves a *)
(* sound object sound.  The actions of the module are then immediate.      *)
(***************************************************************************)
EXTENDS AdviceBudget, FiniteSetTheorems, TLAPS

Request == [id : Actors, urgent : BOOLEAN, dispatchable : BOOLEAN, unseen : 0..Forget + 1]

Offered == [to : Actors, urgent : BOOLEAN, age : 0..Patience]

\* No actor waits twice, and the queue keeps its bound.
Queue(q) ==
  /\ q \in Seq(Request) /\ Len(q) <= Places
  /\ \A i, j \in DOMAIN q : q[i].id = q[j].id => i = j

\* The ratio.  Returns that were offered in a row are in the run as soon as their
\* turn is over; an open offer is not in it yet.  Offers are open only while the
\* spacing is over, so that none is ever dropped without completing its turn.
Ratio(b) ==
  /\ b.offer = NoOffer => b.passed <= b.run
  /\ b.offer # NoOffer =>
       /\ b.idle = Spacing
       /\ b.passed <= IF b.offer.urgent THEN b.run + 1 ELSE 0

Sound(b) ==
  /\ b \in [waiting : Seq(Request), offer : Offered \cup {NoOffer}, idle : 0..Spacing,
            swept : 0..Sweep, run : 0..3, passed : 0..3]
  /\ Queue(b.waiting) /\ Ratio(b)

Inv ==
  /\ Sound(Budget)
  /\ deciding = Nobody \/ deciding \in [actor : Actors, urgent : BOOLEAN]

---------------------------------------------------------------------------
(* Constants, and what the operators of the queue return                   *)

LEMMA Bounds ==
  /\ "nobody" \notin Actors /\ Spacing \in Nat /\ Spacing > 0 /\ Patience \in Nat
  /\ Forget \in Nat /\ Places \in Nat /\ Sweep = 1
BY AdviceBudgetConstants DEF Sweep

\* A nonempty set of places has a first one.
LEMMA FirstPlace ==
  ASSUME NEW S \in SUBSET Nat, S # {}
  PROVE  Min(S) \in S
<1>1. PICK x \in S : \A y \in S : ~ (<<y, x>> \in OpToRel(<, Nat))
  BY NatLessThanWellFounded, WFMin
<1>2. ASSUME NEW y \in S PROVE x <= y
  <2>1. ~ (<<y, x>> \in {p \in Nat \X Nat : p[1] < p[2]})
    BY <1>1 DEF OpToRel
  <2>2. x \in Nat /\ y \in Nat
    OBVIOUS
  <2> QED BY <2>1, <2>2
<1> QED BY <1>2 DEF Min

\* The number of places of a set up to and including one of them.
Rank(K, i) == Cardinality({j \in K : j <= i})

\* A later place has a higher rank.
LEMMA RankGrows ==
  ASSUME NEW K \in SUBSET Nat, IsFiniteSet(K), NEW i \in K
  PROVE  /\ Rank(K, i) \in 1..Cardinality(K)
         /\ \A j \in K : i < j => Rank(K, i) < Rank(K, j)
<1> DEFINE Upto(n) == {j \in K : j <= n}
<1>0. \A j \in K : j \in Nat
  OBVIOUS
<1>1. \A n : IsFiniteSet(Upto(n)) /\ Cardinality(Upto(n)) \in Nat
  BY FS_Subset, FS_CardinalityType
<1>2. Cardinality(K) \in Nat /\ Cardinality(Upto(i)) <= Cardinality(K)
  BY FS_Subset, FS_CardinalityType
<1>3. i \in Upto(i)
  OBVIOUS
<1>4. Cardinality(Upto(i)) # 0
  BY <1>1, <1>3, FS_EmptySet
<1>5. ASSUME NEW j \in K, i < j PROVE Cardinality(Upto(i)) < Cardinality(Upto(j))
  <2>1. Upto(i) \subseteq Upto(j) /\ j \in Upto(j) /\ j \notin Upto(i)
    <3>1. \A k \in K : k <= i => k <= j
      BY <1>0, <1>5
    <3>2. j <= j /\ ~ (j <= i)
      BY <1>0, <1>5
    <3> QED BY <3>1, <3>2
  <2> HIDE DEF Upto
  <2>2. Cardinality(Upto(i)) <= Cardinality(Upto(j)) /\ Cardinality(Upto(i)) # Cardinality(Upto(j))
    BY <1>1, <2>1, FS_Subset
  <2> QED BY <1>1, <2>2
<1>6. \A n : Rank(K, n) = Cardinality(Upto(n))
  BY DEF Rank
<1> HIDE DEF Upto
<1> QED BY <1>1, <1>2, <1>4, <1>5, <1>6

\* Every rank is that of one place.
LEMMA RankTaken ==
  ASSUME NEW K \in SUBSET Nat, IsFiniteSet(K), NEW r \in 1..Cardinality(K)
  PROVE  \E i \in K : Rank(K, i) = r
<1> DEFINE n == Cardinality(K)
           R == [i \in K |-> Rank(K, i)]
<1>1. n \in Nat
  BY FS_CardinalityType
<1> HIDE DEF n
<1>2. IsFiniteSet(1..n) /\ Cardinality(1..n) = n
  BY <1>1, FS_Interval
<1>3. R \in [K -> 1..n]
  BY RankGrows DEF n
<1>4. \A i, j \in K : R[i] = R[j] => i = j
  <2>1. \A i, j \in K : i < j => R[i] < R[j]
    BY RankGrows
  <2>2. \A i \in K : R[i] \in Nat /\ i \in Nat
    BY <1>3, <1>1
  <2> QED BY <2>1, <2>2
<1>5. R \in Injection(K, 1..n)
  BY <1>3, <1>4 DEF Injection, IsInjective
<1>6. R \in Surjection(K, 1..n)
  BY <1>2, <1>5, FS_Injection DEF n
<1>7. \E i \in K : R[i] = r
  BY <1>6 DEF Surjection, n
<1> QED BY <1>7

\* Erasing entries leaves a queue.
LEMMA KeepQueue ==
  ASSUME NEW q, Queue(q), NEW K \in SUBSET DOMAIN q
  PROVE  Queue(Keep(q, K))
<1> DEFINE n == Cardinality(K)
           At(r) == CHOOSE i \in K : Rank(K, i) = r
           t == [r \in 1..n |-> q[At(r)]]
<1>1. /\ q \in Seq(Request) /\ Len(q) \in Nat /\ DOMAIN q = 1..Len(q)
      /\ \A i \in DOMAIN q : q[i] \in Request
  BY DEF Queue
<1>2. /\ IsFiniteSet(1..Len(q)) /\ Cardinality(1..Len(q)) = Len(q)
  <2>1. \A l \in Nat : IsFiniteSet(1..l) /\ Cardinality(1..l) = l
    BY FS_Interval
  <2> QED BY <1>1, <2>1
<1>3. K \in SUBSET Nat /\ IsFiniteSet(K) /\ n \in Nat /\ n <= Len(q)
  BY <1>1, <1>2, FS_Subset, FS_CardinalityType
<1>4. \A r \in 1..n : At(r) \in K /\ Rank(K, At(r)) = r
  BY <1>3, RankTaken
<1>5. Keep(q, K) = t
  BY DEF Keep, Rank
<1> HIDE DEF n, At
<1>6. t \in [1..n -> Request]
  BY <1>1, <1>4
<1>7. t \in Seq(Request) /\ Len(t) = n /\ DOMAIN t = 1..n
  BY <1>3, <1>6
<1>8. ASSUME NEW r \in 1..n, NEW s \in 1..n, t[r].id = t[s].id PROVE r = s
  <2>1. At(r) \in DOMAIN q /\ At(s) \in DOMAIN q /\ q[At(r)].id = q[At(s)].id
    BY <1>4, <1>8
  <2>2. At(r) = At(s)
    BY <2>1 DEF Queue
  <2> QED BY <1>4, <2>2
<1>9. n <= Places
  BY <1>1, <1>3, Bounds DEF Queue
<1> HIDE DEF t
<1>10. Queue(t)
  BY <1>7, <1>8, <1>9 DEF Queue
<1> QED BY <1>5, <1>10

\* An entry that is renewed keeps its place.
LEMMA RenewedQueue ==
  ASSUME NEW q, Queue(q), NEW i \in DOMAIN q, NEW w \in Request, w.id = q[i].id
  PROVE  Queue([q EXCEPT ![i] = w])
<1>1. q \in Seq(Request) /\ DOMAIN q = 1..Len(q)
  BY DEF Queue
<1>2. [q EXCEPT ![i] = w] \in Seq(Request) /\ Len([q EXCEPT ![i] = w]) = Len(q)
  BY <1>1
<1> QED BY <1>1, <1>2 DEF Queue

\* A new entry goes to the end.
LEMMA LongerQueue ==
  ASSUME NEW q, Queue(q), NEW w \in Request, Len(q) < Places,
         \A i \in DOMAIN q : q[i].id # w.id
  PROVE  Queue(Append(q, w))
<1>1. q \in Seq(Request) /\ DOMAIN q = 1..Len(q) /\ Len(q) \in Nat
  BY DEF Queue
<1>2. /\ Append(q, w) \in Seq(Request) /\ Len(Append(q, w)) = Len(q) + 1
      /\ \A i \in 1..(Len(q) + 1) : Append(q, w)[i] = IF i = Len(q) + 1 THEN w ELSE q[i]
  BY <1>1
<1>3. DOMAIN Append(q, w) = 1..(Len(q) + 1)
  BY <1>2
<1>4. Len(q) + 1 <= Places
  BY <1>1, Bounds
<1> QED BY <1>1, <1>2, <1>3, <1>4 DEF Queue

\* Where the entry at place m comes from, when the one at i has gone to the end.
Turned(n, i, m) == IF m < i THEN m ELSE IF m < n THEN m + 1 ELSE i

LEMMA EndsOnce ==
  ASSUME NEW n \in Nat, NEW i \in 1..n, NEW j \in 1..n, NEW k \in 1..n,
         Turned(n, i, j) = Turned(n, i, k)
  PROVE  j = k
<1>1. CASE j < i
  BY <1>1 DEF Turned
<1>2. CASE ~ (j < i) /\ j < n
  BY <1>2 DEF Turned
<1>3. CASE ~ (j < n)
  BY <1>3 DEF Turned
<1> QED BY <1>1, <1>2, <1>3

\* An entry that missed its turn goes to the end.
LEMMA TurnedQueue ==
  ASSUME NEW q, Queue(q), NEW i \in DOMAIN q
  PROVE  Queue(Append(RemoveAt(q, i), q[i]))
<1> DEFINE n == Len(q)
           before == SubSeq(q, 1, i - 1)
           after == SubSeq(q, i + 1, n)
           rest == before \o after
           t == Append(rest, q[i])
<1>1. q \in Seq(Request) /\ DOMAIN q = 1..n /\ n \in Nat /\ n > 0 /\ i \in 1..n /\ q[i] \in Request
  BY DEF Queue
<1>2. /\ before \in Seq(Request) /\ Len(before) = i - 1
      /\ \A j \in 1..(i - 1) : before[j] = q[j]
  BY <1>1
<1>3. /\ after \in Seq(Request) /\ Len(after) = n - i
      /\ \A j \in 1..(n - i) : after[j] = q[i + j]
  <2>1. i + 1 \in Int /\ n \in Int /\ n - (i + 1) + 1 = n - i
    BY <1>1
  <2>2. \A k \in (i + 1)..n : k \in 1..n /\ q[k] \in Request
    BY <1>1
  <2>3. after \in Seq(Request)
    BY <1>1, <2>1, <2>2
  <2>4. Len(after) = n - i
    BY <1>1, <2>1
  <2>5. ASSUME NEW j \in 1..(n - i) PROVE after[j] = q[i + j]
    BY <1>1, <2>1
  <2> QED BY <2>3, <2>4, <2>5
<1>4. RemoveAt(q, i) = rest
  BY DEF RemoveAt
<1> HIDE DEF n, before, after
<1>5. /\ rest \in Seq(Request) /\ Len(rest) = n - 1
      /\ \A j \in 1..(n - 1) : rest[j] = IF j < i THEN q[j] ELSE q[j + 1]
  <2>1. rest \in Seq(Request) /\ Len(rest) = (i - 1) + (n - i)
    BY <1>2, <1>3
  <2>2. ASSUME NEW j \in 1..(n - 1)
        PROVE  rest[j] = IF j < i THEN q[j] ELSE q[j + 1]
    <3>1. CASE j < i
      BY <1>1, <1>2, <1>3, <3>1
    <3>2. CASE ~ (j < i)
      <4>1. rest[j] = after[j - (i - 1)] /\ j - (i - 1) \in 1..(n - i)
        BY <1>1, <1>2, <1>3, <3>2
      <4>2. i + (j - (i - 1)) = j + 1
        BY <1>1
      <4> QED BY <1>3, <3>2, <4>1, <4>2
    <3> QED BY <3>1, <3>2
  <2> QED BY <1>1, <2>1, <2>2
<1> HIDE DEF rest
<1> DEFINE From(m) == Turned(n, i, m)
<1>9. /\ t \in Seq(Request) /\ Len(t) = n
      /\ \A j \in 1..n : From(j) \in 1..n /\ t[j] = q[From(j)]
  BY <1>1, <1>5 DEF Turned
<1>10. \A j, k \in 1..n : From(j) = From(k) => j = k
  BY <1>1, EndsOnce
<1> HIDE DEF t, From
<1>6. DOMAIN t = 1..n
  BY <1>9
<1>7. ASSUME NEW j \in 1..n, NEW k \in 1..n, t[j].id = t[k].id PROVE j = k
  <2>1. /\ From(j) \in DOMAIN q /\ From(k) \in DOMAIN q
        /\ q[From(j)].id = q[From(k)].id
    BY <1>1, <1>7, <1>9
  <2>2. From(j) = From(k)
    BY <2>1 DEF Queue
  <2> QED BY <1>10, <2>2
<1>8. n <= Places
  BY DEF Queue, n
<1> QED BY <1>4, <1>6, <1>7, <1>8, <1>9 DEF Queue, t

\* What a search in the queue returns: a place with what was looked for, or 0.
LEMMA EntryFound ==
  ASSUME NEW b, Queue(b.waiting), NEW a
  PROVE  /\ Entry(b, a) # 0 => Entry(b, a) \in DOMAIN b.waiting /\ b.waiting[Entry(b, a)].id = a
         /\ Entry(b, a) = 0 => \A i \in DOMAIN b.waiting : b.waiting[i].id # a
<1> DEFINE I == {i \in 1..Len(b.waiting) : b.waiting[i].id = a}
<1>1. Entry(b, a) = IF I # {} THEN Min(I) ELSE 0
  BY DEF Entry, SelectInSeq
<1>2. DOMAIN b.waiting = 1..Len(b.waiting) /\ I \in SUBSET Nat /\ 0 \notin I
  BY DEF Queue
<1>3. I # {} => Min(I) \in I
  BY <1>2, FirstPlace
<1> QED BY <1>1, <1>2, <1>3

\* Whose turn it is: a return while the run is short or no search can be offered.
LEMMA TurnFound ==
  ASSUME NEW b, Queue(b.waiting)
  PROVE  Turn(b) # 0 =>
           /\ Turn(b) \in DOMAIN b.waiting
           /\ b.waiting[Turn(b)].urgent =>
                \/ b.run < 3
                \/ \A j \in 1..Len(b.waiting) : b.waiting[j].urgent \/ ~ b.waiting[j].dispatchable
<1> DEFINE U == {i \in 1..Len(b.waiting) : b.waiting[i].urgent /\ b.waiting[i].dispatchable}
           N == {i \in 1..Len(b.waiting) : ~ b.waiting[i].urgent /\ b.waiting[i].dispatchable}
           urgent == IF U # {} THEN Min(U) ELSE 0
           normal == IF N # {} THEN Min(N) ELSE 0
<1>1. Turn(b) = IF urgent # 0 /\ (b.run < 3 \/ normal = 0) THEN urgent ELSE normal
  BY DEF Turn, SelectInSeq
<1>2. /\ DOMAIN b.waiting = 1..Len(b.waiting)
      /\ U \in SUBSET Nat /\ 0 \notin U /\ N \in SUBSET Nat /\ 0 \notin N
  BY DEF Queue
<1>3. (U # {} => Min(U) \in U) /\ (N # {} => Min(N) \in N)
  BY <1>2, FirstPlace
<1>4. CASE urgent # 0 /\ (b.run < 3 \/ normal = 0)
  <2>1. Turn(b) = urgent /\ urgent \in U
    BY <1>1, <1>3, <1>4
  <2>2. b.run < 3 \/ N = {}
    BY <1>2, <1>3, <1>4
  <2> QED BY <1>2, <2>1, <2>2
<1>5. CASE ~ (urgent # 0 /\ (b.run < 3 \/ normal = 0))
  <2>1. Turn(b) = normal /\ (normal # 0 => normal \in N)
    BY <1>1, <1>3, <1>5
  <2> QED BY <1>2, <2>1
<1> QED BY <1>4, <1>5

---------------------------------------------------------------------------
(* The private methods                                                     *)

\* Another queue and a sweep change nothing of the ratio.
LEMMA OtherQueue ==
  ASSUME NEW b, Sound(b), NEW q, Queue(q), NEW s \in 0..Sweep
  PROVE  Sound([b EXCEPT !.waiting = q]) /\ Sound([b EXCEPT !.swept = s, !.waiting = q])
<1>1. q \in Seq(Request)
  BY DEF Queue
<1> QED BY <1>1 DEF Sound, Ratio

LEMMA ExpireSound ==
  ASSUME NEW b, Sound(b)
  PROVE  Sound(Expire(b))
<1> DEFINE K == {i \in DOMAIN b.waiting : b.waiting[i].unseen <= Forget}
<1>1. CASE b.swept < Sweep
  BY <1>1 DEF Expire
<1>2. CASE ~ (b.swept < Sweep)
  <2>1. Queue(Keep(b.waiting, K))
    BY KeepQueue DEF Sound
  <2>2. Expire(b) = [b EXCEPT !.swept = 0, !.waiting = Keep(b.waiting, K)]
    BY <1>2 DEF Expire, Sound
  <2> HIDE DEF K
  <2>3. 0 \in 0..Sweep
    BY Bounds
  <2>4. \A q : Queue(q) => Sound([b EXCEPT !.swept = 0, !.waiting = q])
    BY <2>3, OtherQueue
  <2> QED BY <2>1, <2>2, <2>4
<1> QED BY <1>1, <1>2

\* A turn is completed and nobody is offered one: the run covers what has passed,
\* whichever class completes it.
LEMMA TurnCompleted ==
  ASSUME NEW b, Sound(b), b.offer # NoOffer, NEW urgent \in BOOLEAN
  PROVE  LET c == [CompleteTurn(b, urgent) EXCEPT !.offer = NoOffer]
         IN  /\ Sound(c) /\ c.offer = NoOffer /\ c.waiting = b.waiting /\ c.idle = b.idle
<1> DEFINE r == IF urgent THEN Smallest(3, b.run + 1) ELSE 0
           p == IF urgent THEN b.passed ELSE 0
           c == [CompleteTurn(b, urgent) EXCEPT !.offer = NoOffer]
<1>1. /\ b.run \in 0..3 /\ b.passed \in 0..3
      /\ b.passed <= IF b.offer.urgent THEN b.run + 1 ELSE 0
  BY DEF Sound, Ratio
<1>2. r \in 0..3 /\ p \in 0..3 /\ p <= r
  BY <1>1 DEF Smallest
<1>3. c = [b EXCEPT !.run = r, !.passed = p, !.offer = NoOffer]
  BY DEF CompleteTurn, Sound
<1> HIDE DEF r, p
<1> QED BY <1>2, <1>3 DEF Sound, Ratio

LEMMA PassOfferSound ==
  ASSUME NEW b, Sound(b)
  PROVE  /\ Sound(PassOffer(b)) /\ PassOffer(b).offer = NoOffer
         /\ PassOffer(b).waiting = b.waiting /\ PassOffer(b).idle = b.idle
<1>1. CASE b.offer = NoOffer
  BY <1>1 DEF PassOffer
<1>2. CASE b.offer # NoOffer
  <2>1. b.offer.urgent \in BOOLEAN
    BY <1>2 DEF Sound, Offered
  <2>2. PassOffer(b) = [CompleteTurn(b, b.offer.urgent) EXCEPT !.offer = NoOffer]
    BY <1>2 DEF PassOffer
  <2> QED BY <1>2, <2>1, <2>2, TurnCompleted
<1> QED BY <1>1, <1>2

\* A return is offered before a waiting search only while the run is short.
LEMMA MakeOfferSound ==
  ASSUME NEW b, Sound(b), b.offer = NoOffer, b.idle = Spacing
  PROVE  Sound(MakeOffer(b))
<1>1. CASE Turn(b) = 0
  BY <1>1 DEF MakeOffer
<1>2. CASE Turn(b) # 0
  <2> DEFINE w == b.waiting[Turn(b)]
             contested == \E j \in 1..Len(b.waiting) :
                            ~ b.waiting[j].urgent /\ b.waiting[j].dispatchable
             o == [to |-> w.id, urgent |-> w.urgent, age |-> 0]
             p == IF w.urgent /\ contested THEN b.passed + 1 ELSE 0
  <2>1. Turn(b) \in DOMAIN b.waiting /\ (w.urgent => b.run < 3 \/ ~ contested)
    BY <1>2, TurnFound DEF Sound
  <2>2. w \in Request
    BY <2>1 DEF Sound
  <2>3. o \in Offered /\ o.urgent = w.urgent /\ o.to \in Actors
    BY <2>2, Bounds DEF Request, Offered
  <2>4. o # NoOffer
    BY <2>3, Bounds DEF NoOffer
  <2>5. b.run \in 0..3 /\ b.passed \in 0..3 /\ b.passed <= b.run
    BY DEF Sound, Ratio
  <2>6. w.urgent \in BOOLEAN
    BY <2>2 DEF Request
  <2>7. p \in 0..3 /\ p <= IF o.urgent THEN b.run + 1 ELSE 0
    BY <2>1, <2>3, <2>5, <2>6
  <2>8. MakeOffer(b) = [b EXCEPT !.offer = o, !.passed = p]
    BY <1>2 DEF MakeOffer, Sound
  <2> HIDE DEF w, contested, o, p
  <2> QED BY <2>3, <2>4, <2>7, <2>8 DEF Sound, Ratio
<1> QED BY <1>1, <1>2

LEMMA MissedSound ==
  ASSUME NEW b, Sound(b), NEW i \in DOMAIN b.waiting
  PROVE  /\ Sound(Missed(b, i)) /\ Missed(b, i).offer = NoOffer /\ Missed(b, i).idle = b.idle
<1> DEFINE q == Append(RemoveAt(b.waiting, i), b.waiting[i])
           c == [b EXCEPT !.waiting = q]
<1>1. Queue(q)
  BY TurnedQueue DEF Sound
<1>2. Missed(b, i) = PassOffer(c)
  BY DEF Missed, Sound
<1> HIDE DEF q
<1>3. c.idle = b.idle /\ Sound(c)
  <2>1. 0 \in 0..Sweep
    BY Bounds
  <2> QED BY <1>1, <2>1, OtherQueue DEF Sound
<1> HIDE DEF c
<1> QED BY <1>2, <1>3, PassOfferSound

\* The whole look at the offer.
LEMMA OfferSound ==
  ASSUME NEW b0, Sound(b0)
  PROVE  Sound(Offer(b0))
<1> DEFINE b == Expire(b0)
           i == Entry(b, b.offer.to)
<1>1. Sound(b)
  BY ExpireSound
<1>2. i # 0 => i \in DOMAIN b.waiting
  BY <1>1, EntryFound DEF Sound
<1>3. Offer(b0) =
        IF b.idle < Spacing THEN [b EXCEPT !.offer = NoOffer]
        ELSE IF b.offer = NoOffer THEN MakeOffer(b)
        ELSE IF i = 0 THEN MakeOffer(PassOffer(b))
        ELSE IF ~ b.waiting[i].dispatchable THEN MakeOffer(PassOffer(b))
        ELSE IF b.offer.age < Patience THEN b
        ELSE MakeOffer(Missed(b, i))
  BY DEF Offer
<1> HIDE DEF b, i
<1>4. b.idle \in 0..Spacing /\ Spacing \in Nat
  BY <1>1, Bounds DEF Sound
<1>5. CASE b.idle < Spacing
  <2>1. b.offer = NoOffer
    BY <1>1, <1>4, <1>5 DEF Sound, Ratio
  <2>2. [b EXCEPT !.offer = NoOffer] = b
    BY <1>1, <2>1 DEF Sound
  <2> QED BY <1>1, <1>3, <1>5, <2>2
<1>6. CASE ~ (b.idle < Spacing)
  <2>1. b.idle = Spacing
    BY <1>4, <1>6
  <2>2. Sound(MakeOffer(PassOffer(b)))
    BY <1>1, <2>1, PassOfferSound, MakeOfferSound
  <2>3. b.offer = NoOffer => Sound(MakeOffer(b))
    BY <1>1, <2>1, MakeOfferSound
  <2>4. i # 0 => Sound(MakeOffer(Missed(b, i)))
    BY <1>1, <1>2, <2>1, MissedSound, MakeOfferSound
  <2> QED BY <1>1, <1>3, <1>6, <2>2, <2>3, <2>4
<1> QED BY <1>5, <1>6

---------------------------------------------------------------------------
(* The public methods                                                      *)

LEMMA CancelledSound ==
  ASSUME NEW b, Sound(b), NEW a
  PROVE  Sound(Cancelled(b, a)) /\ (b.offer = NoOffer => Cancelled(b, a).offer = NoOffer)
<1> DEFINE K == {i \in DOMAIN b.waiting : b.waiting[i].id # a}
           rest == [b EXCEPT !.waiting = Keep(b.waiting, K)]
<1>1. Queue(Keep(b.waiting, K))
  BY KeepQueue DEF Sound
<1>2. Cancelled(b, a) = IF Is(b, a) THEN PassOffer(rest) ELSE rest
  BY DEF Cancelled, Sound
<1> HIDE DEF K
<1>3. Sound(rest) /\ rest.offer = b.offer
  <2>1. 0 \in 0..Sweep
    BY Bounds
  <2> QED BY <1>1, <2>1, OtherQueue DEF Sound
<1> HIDE DEF rest
<1>4. Sound(PassOffer(rest)) /\ PassOffer(rest).offer = NoOffer
  BY <1>3, PassOfferSound
<1> QED BY <1>2, <1>3, <1>4

LEMMA RefreshedSound ==
  ASSUME NEW b0, Sound(b0), NEW a \in Actors, NEW urgent \in BOOLEAN, NEW dispatchable \in BOOLEAN
  PROVE  Sound(Refreshed(b0, a, urgent, dispatchable))
<1> DEFINE b == Expire(b0)
           i == Entry(b, a)
           seen == [id |-> a, urgent |-> urgent, dispatchable |-> dispatchable, unseen |-> 0]
           q == [b.waiting EXCEPT ![i] = seen]
<1>1. Sound(b)
  BY ExpireSound
<1>2. seen \in Request /\ seen.id = a
  BY Bounds DEF Request
<1>3. i # 0 => i \in DOMAIN b.waiting /\ b.waiting[i].id = a
  BY <1>1, EntryFound DEF Sound
<1>4. Refreshed(b0, a, urgent, dispatchable) = Offer(IF i = 0 THEN b ELSE [b EXCEPT !.waiting = q])
  <2>1. [b EXCEPT !.waiting[i] = seen] = [b EXCEPT !.waiting = q]
    BY <1>1 DEF Sound
  <2> QED BY <2>1 DEF Refreshed
<1> HIDE DEF b, i, seen
<1>5. i # 0 => Queue(q)
  BY <1>1, <1>2, <1>3, RenewedQueue DEF Sound
<1> HIDE DEF q
<1>6. i # 0 => Sound([b EXCEPT !.waiting = q])
  <2>1. 0 \in 0..Sweep
    BY Bounds
  <2> QED BY <1>1, <1>5, <2>1, OtherQueue
<1> QED BY <1>1, <1>4, <1>6, OfferSound

LEMMA AskedSound ==
  ASSUME NEW b0, Sound(b0), NEW a \in Actors, NEW urgent \in BOOLEAN
  PROVE  Sound(Asked(b0, a, urgent))
<1> DEFINE b == Refreshed(b0, a, urgent, TRUE)
           new == [id |-> a, urgent |-> urgent, dispatchable |-> TRUE, unseen |-> 0]
           q == Append(b.waiting, new)
           more == Entry(b, a) = 0 /\ Len(b.waiting) < Places
<1>1. Sound(b)
  BY RefreshedSound
<1>2. new \in Request /\ new.id = a
  BY Bounds DEF Request
<1>3. Asked(b0, a, urgent) = Offer(IF more THEN [b EXCEPT !.waiting = q] ELSE b)
  BY <1>1 DEF Asked, Sound
<1> HIDE DEF b, new
<1>4. more => Queue(q)
  BY <1>1, <1>2, EntryFound, LongerQueue DEF Sound
<1> HIDE DEF q, more
<1>5. more => Sound([b EXCEPT !.waiting = q])
  <2>1. 0 \in 0..Sweep
    BY Bounds
  <2> QED BY <1>1, <1>4, <2>1, OtherQueue
<1> QED BY <1>1, <1>3, <1>5, OfferSound

LEMMA AcquireSound ==
  ASSUME NEW b0, Sound(b0), NEW a \in Actors, NEW urgent \in BOOLEAN
  PROVE  Sound(Acquire(b0, a, urgent))
<1> DEFINE b == Asked(b0, a, urgent)
           c == [CompleteTurn(b, urgent) EXCEPT !.offer = NoOffer]
           d == Cancelled(c, a)
<1>1. Sound(b)
  BY AskedSound
<1>2. Acquire(b0, a, urgent) = IF Is(b, a) THEN [d EXCEPT !.idle = 0] ELSE b
  BY DEF Acquire, Acquired
<1> HIDE DEF b
<1>3. CASE ~ Is(b, a)
  BY <1>1, <1>2, <1>3
<1>4. CASE Is(b, a)
  <2>1. b.offer # NoOffer
    BY <1>4 DEF Is
  <2>2. Sound(c) /\ c.offer = NoOffer
    BY <1>1, <2>1, TurnCompleted
  <2> HIDE DEF c
  <2>3. Sound(d) /\ d.offer = NoOffer
    BY <2>2, CancelledSound
  <2> HIDE DEF d
  <2>4. 0 \in 0..Spacing
    BY Bounds
  <2>5. Sound([d EXCEPT !.idle = 0])
    BY <2>3, <2>4 DEF Sound, Ratio
  <2> QED BY <1>2, <1>4, <2>5
<1> QED BY <1>3, <1>4

---------------------------------------------------------------------------
(* The callers, and the theorem                                            *)

\* An action leaves the budget that the last method handed on.
LEMMA BecomesSound ==
  ASSUME NEW b, Sound(b), Becomes(b)
  PROVE  Sound(Budget)'
<1>1. Budget' = b
  BY DEF Becomes, Budget, Sound
<1> QED BY <1>1

LEMMA TickSound ==
  ASSUME Sound(Budget), Tick
  PROVE  Sound(Budget)'
<1> DEFINE older == [i \in 1..Len(waiting) |->
                       [waiting[i] EXCEPT !.unseen = Smallest(@ + 1, Forget + 1)]]
           aged == [offer EXCEPT !.age = Smallest(@ + 1, Patience)]
<1>1. /\ waiting' = older /\ offer' = IF offer = NoOffer THEN offer ELSE aged
      /\ idle' = Smallest(idle + 1, Spacing) /\ swept' = Smallest(swept + 1, Sweep)
      /\ run' = run /\ passed' = passed
  BY DEF Tick
<1>2. /\ Queue(waiting) /\ offer \in Offered \cup {NoOffer} /\ idle \in 0..Spacing
      /\ swept \in 0..Sweep /\ run \in 0..3 /\ passed \in 0..3
      /\ offer = NoOffer => passed <= run
      /\ offer # NoOffer => /\ idle = Spacing
                            /\ passed <= IF offer.urgent THEN run + 1 ELSE 0
  BY DEF Sound, Ratio, Budget
<1>3. Queue(older)
  <2>1. /\ waiting \in Seq(Request) /\ DOMAIN waiting = 1..Len(waiting) /\ Len(waiting) \in Nat
        /\ Len(waiting) <= Places
    BY <1>2 DEF Queue
  <2>2. ASSUME NEW i \in 1..Len(waiting) PROVE older[i] \in Request /\ older[i].id = waiting[i].id
    <3>1. waiting[i] \in Request
      BY <2>1
    <3>2. \A n \in 0..Forget + 1 : Smallest(n + 1, Forget + 1) \in 0..Forget + 1
      BY Bounds DEF Smallest
    <3> QED BY <3>1, <3>2 DEF Request
  <2>3. DOMAIN older = 1..Len(waiting)
    OBVIOUS
  <2> HIDE DEF older
  <2>4. older \in Seq(Request) /\ Len(older) = Len(waiting)
    <3>1. older \in [1..Len(waiting) -> Request]
      BY <2>2 DEF older
    <3> QED BY <2>1, <3>1
  <2> QED BY <1>2, <2>1, <2>2, <2>3, <2>4 DEF Queue
<1>4. /\ idle' \in 0..Spacing /\ swept' \in 0..Sweep
      /\ idle = Spacing => idle' = Spacing
  BY <1>1, <1>2, Bounds DEF Smallest
<1>5. offer # NoOffer => /\ aged \in Offered /\ aged.urgent = offer.urgent
                         /\ aged # NoOffer
  <2>1. \A n \in 0..Patience : Smallest(n + 1, Patience) \in 0..Patience
    BY Bounds DEF Smallest
  <2>2. SUFFICES ASSUME offer # NoOffer
                 PROVE  aged \in Offered /\ aged.urgent = offer.urgent /\ aged # NoOffer
    OBVIOUS
  <2>3. aged \in Offered /\ aged.urgent = offer.urgent /\ aged.to = offer.to /\ offer.to \in Actors
    BY <1>2, <2>1, <2>2 DEF Offered
  <2> QED BY <2>3, Bounds DEF NoOffer
<1> HIDE DEF older, aged
<1>6. waiting' \in Seq(Request) /\ Queue(waiting')
  BY <1>1, <1>3 DEF Queue
<1>7. /\ offer' \in Offered \cup {NoOffer} /\ (offer' = NoOffer <=> offer = NoOffer)
      /\ offer # NoOffer => offer'.urgent = offer.urgent
  BY <1>1, <1>2, <1>5
<1>8. /\ Budget' \in [waiting : Seq(Request), offer : Offered \cup {NoOffer}, idle : 0..Spacing,
                      swept : 0..Sweep, run : 0..3, passed : 0..3]
      /\ Budget'.waiting = waiting' /\ Budget'.offer = offer' /\ Budget'.idle = idle'
      /\ Budget'.run = run /\ Budget'.passed = passed
  BY <1>1, <1>2, <1>4, <1>6, <1>7 DEF Budget
<1>9. Ratio(Budget')
  BY <1>2, <1>4, <1>7, <1>8 DEF Ratio
<1> QED BY <1>6, <1>8, <1>9 DEF Sound

LEMMA InitInv == Init => Inv
<1> SUFFICES ASSUME Init PROVE Inv
  OBVIOUS
<1>1. /\ Budget.waiting = <<>> /\ Budget.offer = NoOffer /\ Budget.run = 0 /\ Budget.passed = 0
      /\ Budget = [waiting |-> <<>>, offer |-> NoOffer, idle |-> Spacing, swept |-> Sweep,
                   run |-> 0, passed |-> 0]
  BY DEF Init, Budget
<1>2. Queue(<<>>)
  BY Bounds DEF Queue
<1>3. Sound(Budget)
  BY <1>1, <1>2, Bounds DEF Sound, Ratio
<1> QED BY <1>3 DEF Init, Inv

LEMMA NextInv == Inv /\ [Next]_vars => Inv'
<1> SUFFICES ASSUME Inv, [Next]_vars PROVE Inv'
  OBVIOUS
<1>0. Sound(Budget)
  BY DEF Inv
<1>1. CASE UNCHANGED vars
  BY <1>1 DEF vars, Inv, Budget
<1>2. CASE Tick
  <2>1. deciding' = deciding
    BY <1>2 DEF Tick
  <2> QED BY <1>0, <1>2, <2>1, TickSound DEF Inv
<1>3. ASSUME NEW a \in Actors, UpdateLivingRole(a) PROVE Inv'
  <2>1. CASE Becomes(Offer(Cancelled(Expire(Budget), a))) /\ deciding' = deciding
    <3>1. Sound(Offer(Cancelled(Expire(Budget), a)))
      BY <1>0, ExpireSound, CancelledSound, OfferSound
    <3> QED BY <2>1, <3>1, BecomesSound DEF Inv
  <2>2. ASSUME NEW urgent \in BOOLEAN, NEW dispatchable \in BOOLEAN,
               Becomes(Offer(Refreshed(Budget, a, urgent, dispatchable))),
               deciding' = [actor |-> a, urgent |-> urgent]
        PROVE  Inv'
    <3>1. Sound(Offer(Refreshed(Budget, a, urgent, dispatchable)))
      BY <1>0, RefreshedSound, OfferSound
    <3>2. deciding' \in [actor : Actors, urgent : BOOLEAN]
      BY <2>2
    <3> QED BY <2>2, <3>1, <3>2, BecomesSound DEF Inv
  <2> QED BY <1>3, <2>1, <2>2 DEF UpdateLivingRole, Classes
<1>4. ASSUME NEW a \in Actors, Decide(a) PROVE Inv'
  <2>1. deciding.urgent \in BOOLEAN /\ deciding' = Nobody
    BY <1>4 DEF Inv, Decide
  <2>2. CASE Becomes(Budget)
    BY <1>0, <2>1, <2>2, BecomesSound DEF Inv
  <2>3. CASE Becomes(Acquire(Budget, a, deciding.urgent))
    <3>1. Sound(Acquire(Budget, a, deciding.urgent))
      BY <1>0, <2>1, AcquireSound
    <3> QED BY <2>1, <2>3, <3>1, BecomesSound DEF Inv
  <2> QED BY <1>4, <2>2, <2>3 DEF Decide
<1>5. ASSUME NEW a \in Actors, Cancel(a) PROVE Inv'
  <2>1. Becomes(Cancelled(Budget, a)) /\ deciding' = Nobody
    BY <1>5 DEF Cancel
  <2>2. Sound(Cancelled(Budget, a))
    BY <1>0, CancelledSound
  <2> QED BY <2>1, <2>2, BecomesSound DEF Inv
<1> QED BY <1>1, <1>2, <1>3, <1>4, <1>5 DEF Next

\* The queue keeps its bound, no actor waits twice, and the ratio is kept.
LEMMA AdviceInv == Spec => []Inv
BY InitInv, NextInv, PTL DEF Spec

\* While a search for food could be offered, at most three offers in a row go to
\* returns, whether these are used, missed, suspended or withdrawn.
THEOREM AdviceRatio == Spec => []ThreeToOne
<1>1. ASSUME Inv PROVE ThreeToOne
  <2> DEFINE ids == {waiting[i].id : i \in 1..Len(waiting)}
  <2>1. /\ Queue(waiting) /\ offer \in Offered \cup {NoOffer} /\ idle \in 0..Spacing
        /\ swept \in 0..Sweep /\ run \in 0..3 /\ passed \in 0..3
    BY <1>1 DEF Inv, Sound, Budget
  <2>2. /\ waiting \in Seq(Request) /\ Len(waiting) \in Nat /\ Len(waiting) <= Places
        /\ DOMAIN waiting = 1..Len(waiting)
    BY <2>1 DEF Queue
  <2>3. Cardinality(ids) = Len(waiting)
    <3> DEFINE f == [i \in 1..Len(waiting) |-> waiting[i].id]
    <3>1. f \in Bijection(1..Len(waiting), ids)
      BY <2>1, <2>2 DEF Queue, Bijection, Injection, Surjection, IsInjective
    <3>2. \A n \in Nat : IsFiniteSet(1..n) /\ Cardinality(1..n) = n
      BY FS_Interval
    <3>3. ExistsBijection(1..Len(waiting), ids)
      BY <3>1 DEF ExistsBijection
    <3> HIDE DEF f, ids
    <3>4. IsFiniteSet(1..Len(waiting)) /\ Cardinality(1..Len(waiting)) = Len(waiting)
      BY <2>2, <3>2
    <3>5. Cardinality(1..Len(waiting)) = Cardinality(ids)
      BY <3>3, <3>4, FS_Bijection
    <3> QED BY <3>4, <3>5
  <2>4. waiting \in Seq([id : Actors, urgent : BOOLEAN, dispatchable : BOOLEAN, unseen : 0..Forget + 1])
    BY <2>2 DEF Request
  <2>5. Cardinality({waiting[i].id : i \in 1..Len(waiting)}) = Len(waiting)
    BY <2>3
  <2>6. offer = NoOffer \/ offer \in [to : Actors, urgent : BOOLEAN, age : 0..Patience]
    BY <2>1 DEF Offered
  <2>7. passed \in Nat /\ passed <= 3
    BY <2>1
  <2> QED BY <1>1, <2>1, <2>2, <2>4, <2>5, <2>6, <2>7, Zenon DEF ThreeToOne, TypeOK, Inv
<1> QED BY <1>1, AdviceInv, PTL
=============================================================================
