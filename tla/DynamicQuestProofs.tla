------------------------- MODULE DynamicQuestProofs -------------------------
(***************************************************************************)
(* The dynamic quests for every number of players, quests, kills and times. *)
(*                                                                         *)
(* The order of the proof: what Min, Max and Without return (their          *)
(* definitions only name a value by CHOOSE, so that there is one has to be  *)
(* proved), the inductive invariant Sound, one lemma per action, and the    *)
(* properties of DynamicQuest that follow.                                 *)
(***************************************************************************)
EXTENDS DynamicQuest, FiniteSetTheorems, TLAPS

---------------------------------------------------------------------------
(* Least and greatest elements, sequences without some of their elements   *)

LEMMA LeastElement ==
  ASSUME NEW S \in SUBSET Nat, S # {}
  PROVE  Min(S) \in S /\ \A x \in S : Min(S) <= x
<1>1. PICK x \in S : \A y \in S : ~ (<<y, x>> \in OpToRel(<, Nat))
  BY NatLessThanWellFounded, WFMin
<1>2. OpToRel(<, Nat) = {ss \in Nat \X Nat : ss[1] < ss[2]}
  BY DEF OpToRel
<1>3. ASSUME NEW y \in S PROVE x <= y
  <2>1. ~ (<<y, x>> \in {ss \in Nat \X Nat : ss[1] < ss[2]})
    BY <1>1, <1>2
  <2>2. x \in Nat /\ y \in Nat
    OBVIOUS
  <2> QED BY <2>1, <2>2
<1> QED BY <1>3 DEF Min

LEMMA GreatestElement ==
  ASSUME NEW B \in Nat, NEW S \in SUBSET (0..B), S # {}
  PROVE  Max(S) \in S /\ \A x \in S : Max(S) >= x
<1> DEFINE T == {n \in 0..B : B - n \in S}
<1>1. T \in SUBSET Nat /\ T # {}
  <2>1. PICK x \in S : TRUE
    OBVIOUS
  <2>2. B - x \in T
    BY <2>1
  <2>3. T \subseteq Nat
    OBVIOUS
  <2> QED BY <2>2, <2>3
<1>2. Min(T) \in T /\ \A y \in T : Min(T) <= y
  BY <1>1, LeastElement
<1>3. B - Min(T) \in S
  BY <1>2
<1>4. \A x \in S : B - x \in T /\ B - Min(T) >= x
  BY <1>2
<1> QED BY <1>3, <1>4 DEF Max

\* The rank of an element in a finite set of positive numbers: the ranks are
\* 1..n, each taken once, in the order of the elements.
RankIn(K, n) == Cardinality({m \in K : m <= n})

LEMMA RankOrder ==
  ASSUME NEW K \in SUBSET (Nat \ {0}), IsFiniteSet(K)
  PROVE  /\ \A n \in K : RankIn(K, n) \in 1..Cardinality(K)
         /\ \A m, n \in K : m < n <=> RankIn(K, m) < RankIn(K, n)
         /\ \A m, n \in K : m = n <=> RankIn(K, m) = RankIn(K, n)
<1>0. Cardinality(K) \in Nat /\ \A k \in K : k \in Nat
  BY FS_CardinalityType
<1>1. ASSUME NEW n \in K PROVE RankIn(K, n) \in 1..Cardinality(K)
  <2> DEFINE T == {m \in K : m <= n}
  <2>1. IsFiniteSet(T) /\ Cardinality(T) \in Nat /\ Cardinality(T) <= Cardinality(K)
    BY FS_Subset, FS_CardinalityType
  <2>2. n \in T
    OBVIOUS
  <2>3. Cardinality(T) # 0
    BY <2>1, <2>2, FS_EmptySet
  <2> QED BY <1>0, <2>1, <2>3 DEF RankIn
<1>2. ASSUME NEW m \in K, NEW n \in K, m < n PROVE RankIn(K, m) < RankIn(K, n)
  <2> DEFINE S == {k \in K : k <= m}
             T == {k \in K : k <= n}
  <2>1. IsFiniteSet(S) /\ IsFiniteSet(T)
    BY FS_Subset
  <2>2. S \in SUBSET T /\ n \in T /\ n \notin S
    <3>1. \A k \in K : k <= m => k <= n
      BY <1>0, <1>2
    <3>2. n <= n /\ ~ (n <= m)
      BY <1>0, <1>2
    <3> QED BY <3>1, <3>2
  <2>3. Cardinality(S) <= Cardinality(T) /\ Cardinality(S) # Cardinality(T)
    BY <2>1, <2>2, FS_Subset
  <2>4. Cardinality(S) \in Nat /\ Cardinality(T) \in Nat
    BY <2>1, FS_CardinalityType
  <2> HIDE DEF S, T
  <2>5. Cardinality(S) < Cardinality(T)
    BY <2>3, <2>4
  <2> QED BY <2>5 DEF RankIn, S, T
<1>3. \A m, n \in K : m < n \/ m = n \/ n < m
  OBVIOUS
<1>4. \A n \in K : RankIn(K, n) \in Nat
  BY <1>0, <1>1
<1> QED BY <1>1, <1>2, <1>3, <1>4

LEMMA RankTaken ==
  ASSUME NEW K \in SUBSET (Nat \ {0}), IsFiniteSet(K), NEW r \in 1..Cardinality(K)
  PROVE  \E n \in K : RankIn(K, n) = r
<1> DEFINE N == Cardinality(K)
           R == [n \in K |-> RankIn(K, n)]
<1>1. N \in Nat
  BY FS_CardinalityType
<1>2. IsFiniteSet(1..N) /\ Cardinality(1..N) = N
  <2>1. IsFiniteSet(1..N) /\ Cardinality(1..N) = IF 1 > N THEN 0 ELSE N - 1 + 1
    BY <1>1, FS_Interval
  <2> HIDE DEF N
  <2> QED BY <2>1, <1>1
<1>3. R \in [K -> 1..N]
  BY RankOrder
<1>4. \A m, n \in K : R[m] = R[n] => m = n
  BY RankOrder
<1>5. R \in Injection(K, 1..N)
  BY <1>3, <1>4 DEF Injection, IsInjective
<1>6. R \in Surjection(K, 1..N)
  BY <1>5, <1>2, FS_Injection
<1>7. \E n \in K : R[n] = r
  BY <1>6 DEF Surjection
<1> QED BY <1>7

\* Without lists what it keeps, and keeps the order.
LEMMA WithoutElements ==
  ASSUME NEW S \in SUBSET Nat, NEW s \in Seq(S), NEW ids,
         \A m, n \in DOMAIN s : m < n => s[m] < s[n]
  PROVE  /\ Without(s, ids) \in Seq(S)
         /\ {Without(s, ids)[n] : n \in DOMAIN Without(s, ids)}
              = {s[n] : n \in DOMAIN s} \ ids
         /\ \A m, n \in DOMAIN Without(s, ids) :
              m < n => Without(s, ids)[m] < Without(s, ids)[n]
<1> DEFINE K == {n \in DOMAIN s : s[n] \notin ids}
           N == Cardinality(K)
           At(r) == CHOOSE n \in K : RankIn(K, n) = r
           t == [r \in 1..N |-> s[At(r)]]
<1>1. DOMAIN s = 1..Len(s) /\ Len(s) \in Nat /\ \A n \in DOMAIN s : s[n] \in S
  OBVIOUS
<1>2. K \in SUBSET (Nat \ {0}) /\ IsFiniteSet(K)
  <2>1. IsFiniteSet(1..Len(s))
    BY <1>1, FS_Interval
  <2>2. K \in SUBSET (1..Len(s))
    BY <1>1
  <2> QED BY <2>1, <2>2, FS_Subset
<1>3. N \in Nat
  BY <1>2, FS_CardinalityType
<1>4. Without(s, ids) = t
  BY DEF Without, RankIn
<1>K. \A n \in K : n \in DOMAIN s /\ s[n] \notin ids
  OBVIOUS
<1>L. \A n \in DOMAIN s : s[n] \notin ids => n \in K
  OBVIOUS
<1> HIDE DEF K
<1>5. \A r \in 1..N : At(r) \in K /\ RankIn(K, At(r)) = r
  BY <1>2, RankTaken
<1>6. \A n \in K : RankIn(K, n) \in 1..N /\ At(RankIn(K, n)) = n
  <2>1. SUFFICES ASSUME NEW n \in K PROVE RankIn(K, n) \in 1..N /\ At(RankIn(K, n)) = n
    OBVIOUS
  <2>2. RankIn(K, n) \in 1..N
    BY <1>2, RankOrder
  <2>3. At(RankIn(K, n)) \in K /\ RankIn(K, At(RankIn(K, n))) = RankIn(K, n)
    BY <1>5, <2>2
  <2> QED BY <1>2, <2>2, <2>3, RankOrder
<1>7. \A q, r \in 1..N : q < r => At(q) < At(r)
  <2>1. SUFFICES ASSUME NEW q \in 1..N, NEW r \in 1..N, q < r PROVE At(q) < At(r)
    OBVIOUS
  <2>2. At(q) \in K /\ RankIn(K, At(q)) = q /\ At(r) \in K /\ RankIn(K, At(r)) = r
    BY <1>5
  <2>3. \A m, n \in K : m < n <=> RankIn(K, m) < RankIn(K, n)
    BY <1>2, RankOrder
  <2> HIDE DEF At
  <2> QED BY <2>1, <2>2, <2>3
<1> HIDE DEF N, At
<1>8. DOMAIN t = 1..N /\ \A r \in 1..N : t[r] = s[At(r)]
  OBVIOUS
<1>9. \A r \in 1..N : t[r] \in S
  BY <1>1, <1>5, <1>K
<1>10. t \in Seq(S)
  <2>1. t \in [1..N -> S]
    BY <1>9
  <2> HIDE DEF t
  <2> QED BY <2>1, <1>3
<1>11. {t[r] : r \in DOMAIN t} = {s[n] : n \in DOMAIN s} \ ids
  <2> HIDE DEF t
  <2>1. ASSUME NEW r \in 1..N PROVE t[r] \in {s[n] : n \in DOMAIN s} \ ids
    BY <1>5, <1>8, <1>K
  <2>2. ASSUME NEW n \in DOMAIN s, s[n] \notin ids PROVE \E r \in 1..N : t[r] = s[n]
    BY <1>6, <1>8, <1>L, <2>2
  <2>3. ASSUME NEW x \in {s[n] : n \in DOMAIN s} \ ids PROVE x \in {t[r] : r \in DOMAIN t}
    <3>1. PICK n \in DOMAIN s : x = s[n]
      OBVIOUS
    <3>2. PICK r \in 1..N : t[r] = s[n]
      BY <3>1, <2>2
    <3> QED BY <3>1, <3>2, <1>8
  <2>4. ASSUME NEW x \in {t[r] : r \in DOMAIN t} PROVE x \in {s[n] : n \in DOMAIN s} \ ids
    <3>1. PICK r \in 1..N : x = t[r]
      BY <1>8
    <3> QED BY <3>1, <2>1
  <2> QED BY <2>3, <2>4
<1>12. \A m, n \in DOMAIN t : m < n => t[m] < t[n]
  <2> HIDE DEF t
  <2> QED BY <1>5, <1>7, <1>8, <1>K
<1> QED BY <1>4, <1>10, <1>11, <1>12

---------------------------------------------------------------------------
(* How many of the events under way are a credit for a quest               *)

Due(q, events) == Cardinality({n \in DOMAIN events : Matches(q, events[n])})

LEMMA AtLeastMin ==
  ASSUME NEW a \in Nat, NEW b \in Nat, NEW x \in Nat
  PROVE  x >= Min({a, b}) <=> x >= a \/ x >= b
<1>1. {a, b} \in SUBSET Nat /\ {a, b} # {}
  OBVIOUS
<1>2. Min({a, b}) \in {a, b} /\ \A y \in {a, b} : Min({a, b}) <= y
  BY <1>1, LeastElement
<1> QED BY <1>2

LEMMA DueIsCount ==
  ASSUME NEW S, NEW events \in Seq(S), NEW q
  PROVE  /\ IsFiniteSet({n \in DOMAIN events : Matches(q, events[n])})
         /\ Due(q, events) \in Nat
<1> DEFINE M == {n \in DOMAIN events : Matches(q, events[n])}
<1>1. DOMAIN events = 1..Len(events) /\ Len(events) \in Nat
  OBVIOUS
<1>2. IsFiniteSet(1..Len(events)) /\ M \in SUBSET (1..Len(events))
  BY <1>1, FS_Interval
<1>3. IsFiniteSet(M)
  BY <1>2, FS_Subset
<1> QED BY <1>3, FS_CardinalityType DEF Due

LEMMA NoneDue == ASSUME NEW q PROVE Due(q, <<>>) = 0
<1>1. {n \in DOMAIN <<>> : Matches(q, <<>>[n])} = {}
  OBVIOUS
<1> QED BY <1>1, FS_EmptySet DEF Due

LEMMA DueAppended ==
  ASSUME NEW S, NEW events \in Seq(S), NEW e \in S, NEW q
  PROVE  Due(q, Append(events, e)) = Due(q, events) + (IF Matches(q, e) THEN 1 ELSE 0)
<1> DEFINE t == Append(events, e)
           N == Len(events)
           M == {n \in DOMAIN events : Matches(q, events[n])}
           T == {n \in DOMAIN t : Matches(q, t[n])}
<1>1. /\ N \in Nat /\ DOMAIN events = 1..N /\ DOMAIN t = 1..(N+1)
      /\ t[N+1] = e /\ \A n \in 1..N : t[n] = events[n]
  OBVIOUS
<1>2. IsFiniteSet(M)
  BY DueIsCount
<1>0. N + 1 \notin M
  BY <1>1
<1>3. T = IF Matches(q, e) THEN M \cup {N+1} ELSE M
  <2>1. \A n : n \in 1..(N+1) <=> n \in 1..N \/ n = N + 1
    BY <1>1
  <2> HIDE DEF t, N
  <2>2. \A n : n \in T <=> (n \in 1..(N+1) /\ Matches(q, t[n]))
    BY <1>1
  <2>3. \A n : n \in M <=> (n \in 1..N /\ Matches(q, events[n]))
    BY <1>1
  <2>4. N + 1 \notin 1..N
    BY <1>1
  <2> HIDE DEF T, M
  <2>5. \A n \in 1..N : Matches(q, t[n]) <=> Matches(q, events[n])
    BY <1>1
  <2>6. Matches(q, t[N+1]) <=> Matches(q, e)
    BY <1>1
  <2>7. \A n : n \in T <=> (n \in M \/ (n = N+1 /\ Matches(q, e)))
    BY <2>1, <2>2, <2>3, <2>4, <2>5, <2>6
  <2> QED BY <2>7
<1> HIDE DEF M, T, N
<1>4. Cardinality(M \cup {N+1}) = Cardinality(M) + 1 /\ Cardinality(M) \in Nat
  BY <1>0, <1>2, FS_AddElement, FS_CardinalityType
<1>5. Cardinality(T) = Cardinality(M) + (IF Matches(q, e) THEN 1 ELSE 0)
  BY <1>3, <1>4
<1> QED BY <1>5 DEF Due, M, T

LEMMA DueProcessed ==
  ASSUME NEW S, NEW events \in Seq(S), events # <<>>, NEW q
  PROVE  Due(q, events) = Due(q, Tail(events)) + (IF Matches(q, Head(events)) THEN 1 ELSE 0)
<1> DEFINE t == Tail(events)
           N == Len(events)
           M == {n \in DOMAIN events : Matches(q, events[n])}
           T == {n \in DOMAIN t : Matches(q, t[n])}
           f == [n \in T |-> n + 1]
<1>1. /\ N \in Nat \ {0} /\ DOMAIN events = 1..N /\ DOMAIN t = 1..(N-1)
      /\ t \in Seq(S) /\ Head(events) = events[1] /\ \A n \in 1..(N-1) : t[n] = events[n+1]
  OBVIOUS
<1>2. IsFiniteSet(M) /\ IsFiniteSet(T)
  BY <1>1, DueIsCount
<1>3. \A n : n \in T <=> (n \in 1..(N-1) /\ Matches(q, events[n+1]))
  BY <1>1
<1>4. \A n : n \in M <=> (n \in 1..N /\ Matches(q, events[n]))
  BY <1>1
<1>5. 1 \in M <=> Matches(q, Head(events))
  BY <1>1, <1>4
<1> HIDE DEF M, T, N, t
<1>6. \A n \in T : n \in Nat /\ n # 0
  BY <1>1, <1>3
<1>7. f \in [T -> M \ {1}]
  BY <1>1, <1>3, <1>4
<1>8. \A m, n \in T : f[m] = f[n] => m = n
  BY <1>6
<1>9. \A k \in M \ {1} : \E n \in T : f[n] = k
  <2>1. SUFFICES ASSUME NEW k \in M \ {1} PROVE k - 1 \in T /\ f[k-1] = k
    OBVIOUS
  <2>2. k - 1 \in 1..(N-1) /\ (k - 1) + 1 = k
    BY <1>1, <1>4
  <2> QED BY <1>3, <1>4, <2>2
<1>10. f \in Bijection(T, M \ {1})
  BY <1>7, <1>8, <1>9 DEF Bijection, Injection, Surjection, IsInjective
<1>11. ExistsBijection(T, M \ {1})
  BY <1>10 DEF ExistsBijection
<1>12. Cardinality(M \ {1}) = Cardinality(T)
  BY <1>2, <1>11, FS_Bijection
<1>13. Cardinality(M \ {1}) = (IF 1 \in M THEN Cardinality(M) - 1 ELSE Cardinality(M)) /\ Cardinality(M) \in Nat
  BY <1>2, FS_RemoveElement, FS_CardinalityType
<1>14. Cardinality(M) = Cardinality(T) + (IF Matches(q, Head(events)) THEN 1 ELSE 0)
  BY <1>5, <1>12, <1>13
<1> QED BY <1>14 DEF Due, M, T, t

\* Who is owed does not depend on what has been credited.
LEMMA SameDue ==
  ASSUME NEW q, NEW r, q.state = r.state, q.holder = r.holder, q.target = r.target, NEW events
  PROVE  Due(q, events) = Due(r, events)
<1>1. \A e : Matches(q, e) <=> Matches(r, e)
  BY DEF Matches
<1>2. {n \in DOMAIN events : Matches(q, events[n])} = {n \in DOMAIN events : Matches(r, events[n])}
  BY <1>1
<1> QED BY <1>2 DEF Due

---------------------------------------------------------------------------
(* The inductive invariant                                                 *)

Handed(i) == nextId = 0 \/ i < nextId

\* Ids are handed out in order; one that has not been has no past.
IdsFresh ==
  /\ \A i \in Registered : Handed(i)
  /\ \A i \in Ids : ~ Handed(i) => history[i].paid = 0 /\ history[i].earned = 0

\* What a registered quest promises is what its history says, and nobody has a
\* credit for a quest that is still on offer.
QuestsAgree ==
  \A i \in Registered :
    /\ history[i].promised = quests[i].reward
    /\ quests[i].state = "Offered" =>
         quests[i].progress = 0 /\ quests[i].consumed = {} /\ history[i].earned = 0

\* Every event of the two queues is a published kill; the credited events came
\* before the drained ones, these before the pending ones, and every new one
\* comes after them.
EventsInOrder ==
  /\ \A n \in DOMAIN drained : drained[n] \in published /\ drained[n].id < nextEvent
  /\ \A n \in DOMAIN pending : pending[n] \in published /\ pending[n].id < nextEvent
  /\ \A m, n \in DOMAIN drained : m < n => drained[m].id < drained[n].id
  /\ \A m, n \in DOMAIN pending : m < n => pending[m].id < pending[n].id
  /\ \A m \in DOMAIN drained, n \in DOMAIN pending : drained[m].id < pending[n].id
  /\ \A i \in Registered : \A e \in quests[i].consumed :
       /\ e < nextEvent
       /\ \A n \in DOMAIN drained : e < drained[n].id
       /\ \A n \in DOMAIN pending : e < pending[n].id
  /\ \A i \in Registered : IsFiniteSet(quests[i].consumed)

\* The world thread and the clock.
Observed ==
  /\ now <= latest /\ seenDropped <= dropped
  /\ ~ updating => drained = <<>>

\* KillCreditKept with the minimum spelled out.
NoCreditLost ==
  \A i \in Registered :
    quests[i].state = "Active" /\ latest < quests[i].expires /\ dropped = seenDropped =>
      \/ quests[i].progress + Due(quests[i], drained) + Due(quests[i], pending) >= quests[i].required
      \/ quests[i].progress + Due(quests[i], drained) + Due(quests[i], pending) >= history[i].earned

RecordTypes ==
  /\ Registered \subseteq Ids /\ \A i \in Registered : quests[i] \in Quest
  /\ byGiver \in [Givers -> Seq(Ids)]
  /\ nextId \in Ids \cup {0}
  /\ history \in [Ids -> [outcomes : Seq(Outcomes), promised : Nat, paid : Int, earned : Nat]]

WorldTypes ==
  /\ now \in Times /\ latest \in Times
  /\ givers \in [Givers -> [guid : Nat, available : BOOLEAN]]
  /\ {cursor, highWater} \subseteq Ids \cup {0}

EventTypes ==
  /\ {pending, drained} \subseteq Seq(KillEvent)
  /\ {nextEvent, dropped, seenDropped} \subseteq Nat
  /\ {updating, testArmed} \subseteq BOOLEAN
  /\ published \subseteq KillEvent

\* The index lists the quests of each giver, oldest first.
IndexOf(g) ==
  /\ {byGiver[g][n] : n \in DOMAIN byGiver[g]} = {i \in Registered : quests[i].giver = g}
  /\ \A m, n \in DOMAIN byGiver[g] : m < n => byGiver[g][m] < byGiver[g][n]

\* What the registry and the history say of the quests ...
Recorded ==
  /\ RecordTypes
  /\ Cardinality(Registered) <= MaxLive
  /\ \A g \in Givers : IndexOf(g)
  /\ OutcomeOnce
  /\ RewardExact
  /\ IdsFresh

\* ... and what the kills have to do with them.
Credited == QuestsAgree /\ CreditExact /\ EventsInOrder /\ Observed /\ NoCreditLost

Sound == WorldTypes /\ EventTypes /\ Recorded /\ Credited

LEMMA TypesSplit == TypeOK <=> RecordTypes /\ WorldTypes /\ EventTypes
BY DEF TypeOK, RecordTypes, WorldTypes, EventTypes

\* The types of the registry, one by one.
LEMMA Types ==
  ASSUME RecordTypes
  PROVE  /\ MaxId \in Nat \ {0} /\ Ids \subseteq Nat /\ 0 \notin Ids
         /\ Registered \subseteq Ids /\ IsFiniteSet(Registered) /\ Cardinality(Registered) \in Nat
         /\ \A i \in Registered : quests[i] \in Quest
         /\ \A g \in Givers : byGiver[g] \in Seq(Ids)
         /\ nextId \in Nat
         /\ \A i \in Ids : history[i] \in [outcomes : Seq(Outcomes), promised : Nat, paid : Int, earned : Nat]
<1>1. MaxId \in Nat \ {0} /\ Ids \subseteq Nat /\ 0 \notin Ids
  BY QuestAssumption DEF Ids
<1>2. Registered \subseteq Ids
  BY DEF RecordTypes
<1>3. IsFiniteSet(Ids)
  BY <1>1, FS_Interval DEF Ids
<1>4. IsFiniteSet(Registered) /\ Cardinality(Registered) \in Nat
  BY <1>2, <1>3, FS_Subset, FS_CardinalityType
<1> QED BY <1>1, <1>2, <1>4 DEF RecordTypes

\* The two forms of the credit that is owed are the same.
LEMMA CreditForms ==
  ASSUME RecordTypes, EventTypes
  PROVE  KillCreditKept <=> NoCreditLost
<1>1. ASSUME NEW i \in Registered
      PROVE  quests[i].progress + Due(quests[i], drained) + Due(quests[i], pending)
                >= Min({quests[i].required, history[i].earned})
             <=> \/ quests[i].progress + Due(quests[i], drained) + Due(quests[i], pending) >= quests[i].required
                 \/ quests[i].progress + Due(quests[i], drained) + Due(quests[i], pending) >= history[i].earned
  <2> DEFINE a == quests[i].required
             b == history[i].earned
             x == quests[i].progress + Due(quests[i], drained) + Due(quests[i], pending)
  <2>1. a \in Nat /\ b \in Nat /\ quests[i].progress \in Nat
    <3>1. quests[i] \in Quest /\ i \in Ids
      BY Types
    <3>2. history[i] \in [outcomes : Seq(Outcomes), promised : Nat, paid : Int, earned : Nat]
      BY <3>1, Types
    <3> QED BY <3>1, <3>2 DEF Quest
  <2>2. Due(quests[i], drained) \in Nat /\ Due(quests[i], pending) \in Nat
    BY DueIsCount DEF EventTypes
  <2>3. x \in Nat
    BY <2>1, <2>2
  <2> HIDE DEF a, b, x
  <2>4. x >= Min({a, b}) <=> x >= a \/ x >= b
    BY <2>1, <2>3, AtLeastMin
  <2> QED BY <2>4 DEF a, b, x
<1>2. KillCreditKept <=>
        \A i \in Registered :
          quests[i].state = "Active" /\ latest < quests[i].expires /\ dropped = seenDropped =>
            quests[i].progress + Due(quests[i], drained) + Due(quests[i], pending)
              >= Min({quests[i].required, history[i].earned})
  BY DEF KillCreditKept, Due
<1> QED BY <1>1, <1>2 DEF NoCreditLost

\* What the invariant was for.
LEMMA SoundMeans ==
  Sound => /\ TypeOK /\ IndexExact /\ OutcomeOnce /\ RewardExact /\ CreditExact /\ KillCreditKept
<1> SUFFICES ASSUME Sound PROVE TypeOK /\ IndexExact /\ OutcomeOnce /\ RewardExact /\ CreditExact /\ KillCreditKept
  OBVIOUS
<1>1. TypeOK
  BY TypesSplit DEF Sound, Recorded
<1>2. IndexExact
  BY <1>1 DEF Sound, Recorded, IndexExact, IndexOf
<1>3. KillCreditKept
  BY CreditForms DEF Sound, Recorded, Credited
<1> QED BY <1>1, <1>2, <1>3 DEF Sound, Recorded, Credited

LEMMA InitSound == Init => Sound
<1> SUFFICES ASSUME Init PROVE Sound
  OBVIOUS
<1>0. MaxId \in Nat \ {0} /\ MaxLive \in Nat /\ StartMs \in Times /\ Times \subseteq Nat /\ TestKillCreditLoss \in BOOLEAN
  BY QuestAssumption
<1>1. Registered = {} /\ nextId = 1 /\ drained = <<>> /\ pending = <<>>
  BY DEF Init, Registered
<1>2. RecordTypes
  <2>1. 1 \in Ids
    BY <1>0 DEF Ids
  <2>2. byGiver \in [Givers -> Seq(Ids)]
    BY DEF Init
  <2>3. history \in [Ids -> [outcomes : Seq(Outcomes), promised : Nat, paid : Int, earned : Nat]]
    BY DEF Init
  <2> QED BY <1>1, <2>1, <2>2, <2>3 DEF RecordTypes
<1>3. WorldTypes
  BY <1>0 DEF WorldTypes, Init
<1>4. EventTypes
  <2>1. pending = <<>> /\ drained = <<>> /\ <<>> \in Seq(KillEvent)
    BY <1>1
  <2>2. nextEvent = 1 /\ dropped = 0 /\ seenDropped = 0
    BY DEF Init
  <2>3. updating \in BOOLEAN /\ testArmed \in BOOLEAN /\ published = {}
    BY <1>0 DEF Init
  <2> QED BY <2>1, <2>2, <2>3 DEF EventTypes
<1>5. Cardinality(Registered) <= MaxLive
  <2>1. Cardinality(Registered) = 0
    BY <1>1, FS_EmptySet
  <2> QED BY <2>1, <1>0
<1>6. \A g \in Givers : IndexOf(g)
  BY <1>1 DEF IndexOf, Init
<1>7. \A i \in Ids : history[i].outcomes = <<>> /\ history[i].paid = 0 /\ history[i].earned = 0
  BY DEF Init
<1>8. \A i \in Ids : i \in Nat /\ ~ (i < 1)
  BY <1>0 DEF Ids
<1>9. OutcomeOnce /\ RewardExact /\ IdsFresh
  <2>1. OutcomeOnce
    BY <1>1, <1>7, <1>8 DEF OutcomeOnce
  <2>2. RewardExact
    BY <1>1, <1>7 DEF RewardExact
  <2>3. IdsFresh
    BY <1>1, <1>7 DEF IdsFresh
  <2> QED BY <2>1, <2>2, <2>3
<1>10. Credited
  <2>1. Observed
    BY <1>0, <1>1 DEF Observed, Init
  <2> QED BY <1>1, <2>1 DEF Credited, QuestsAgree, CreditExact, EventsInOrder, NoCreditLost
<1> QED BY <1>2, <1>3, <1>4, <1>5, <1>6, <1>9, <1>10 DEF Sound, Recorded

---------------------------------------------------------------------------
(* Steps that leave one half of the invariant alone                        *)

\* The registry and its history are as before.
LEMMA RecordedStays ==
  ASSUME Recorded, UNCHANGED registryVars
  PROVE  Recorded'
<1>1. quests' = quests /\ byGiver' = byGiver /\ nextId' = nextId /\ history' = history
  BY DEF registryVars
<1>2. Registered' = Registered
  BY <1>1 DEF Registered
<1>3. RecordTypes'
  BY <1>1, <1>2 DEF Recorded, RecordTypes
<1>4. \A g \in Givers : IndexOf(g)'
  BY <1>1, <1>2 DEF Recorded, IndexOf
<1>5. OutcomeOnce' /\ RewardExact' /\ IdsFresh'
  BY <1>1, <1>2 DEF Recorded, OutcomeOnce, RewardExact, IdsFresh, Handed
<1> QED BY <1>1, <1>2, <1>3, <1>4, <1>5 DEF Recorded

\* The queues are as before, and so are the quests that stay.
LEMMA CreditedStays ==
  ASSUME RecordTypes, Credited, WorldTypes, WorldTypes',
         Registered' \subseteq Registered,
         \A i \in Registered' : /\ quests'[i] = quests[i]
                                /\ history'[i].promised = history[i].promised
                                /\ history'[i].earned = history[i].earned,
         UNCHANGED <<pending, nextEvent, published, drained, dropped, seenDropped, updating>>,
         now' <= latest', latest <= latest'
  PROVE  Credited'
<1>1. QuestsAgree'
  BY DEF Credited, QuestsAgree
<1>2. CreditExact'
  BY DEF Credited, CreditExact
<1>3. EventsInOrder'
  BY DEF Credited, EventsInOrder
<1>4. Observed'
  BY DEF Credited, Observed
<1>5. NoCreditLost'
  <2>1. SUFFICES ASSUME NEW i \in Registered', quests[i].state = "Active",
                        latest' < quests[i].expires, dropped = seenDropped
                 PROVE  latest < quests[i].expires
    BY DEF Credited, NoCreditLost
  <2>2. quests[i].expires \in Nat
    BY <2>1, Types DEF Quest
  <2>3. latest \in Nat /\ latest' \in Nat
    BY QuestAssumption DEF WorldTypes
  <2> QED BY <2>1, <2>2, <2>3
<1> QED BY <1>1, <1>2, <1>3, <1>4, <1>5 DEF Credited

---------------------------------------------------------------------------
(* The world around the quests                                             *)

LEMMA ClockStep ==
  ASSUME Sound, NEW t \in Times, Clock(t)
  PROVE  Sound'
<1>1. /\ now' = t /\ latest' = Max({latest, t}) /\ givers' = givers /\ updating' = updating
      /\ UNCHANGED <<quests, byGiver, nextId, history, cursor, highWater, pending, nextEvent, dropped,
                     published, seenDropped, drained, testArmed>>
  BY DEF Clock, registryVars, scanVars, busVars, updateVars
<1>2. latest \in Times /\ Times \subseteq Nat
  BY QuestAssumption DEF Sound, WorldTypes
<1>3. latest' \in Times /\ latest <= latest' /\ t <= latest'
  <2> DEFINE B == latest + t
  <2>1. B \in Nat /\ {latest, t} \in SUBSET (0..B) /\ {latest, t} # {}
    BY <1>2
  <2> HIDE DEF B
  <2>2. Max({latest, t}) \in {latest, t} /\ \A x \in {latest, t} : Max({latest, t}) >= x
    BY <2>1, GreatestElement
  <2> QED BY <1>1, <1>2, <2>2
<1>4. WorldTypes' /\ EventTypes'
  BY <1>1, <1>3 DEF Sound, WorldTypes, EventTypes
<1>5. Recorded'
  BY <1>1, RecordedStays DEF Sound, registryVars
<1>6. Credited'
  <2>1. Registered' = Registered
    BY <1>1 DEF Registered
  <2> QED BY <1>1, <1>3, <1>4, <2>1, CreditedStays DEF Sound, Recorded
<1> QED BY <1>4, <1>5, <1>6 DEF Sound

LEMMA GiverStep ==
  ASSUME Sound, NEW g \in Givers,
         GiverLeaves(g) \/ \E guid \in 1..MaxGuid : GiverReturns(g, guid)
  PROVE  Sound'
<1>1. /\ now' = now /\ latest' = latest /\ updating' = updating
      /\ UNCHANGED <<quests, byGiver, nextId, history, cursor, highWater, pending, nextEvent, dropped,
                     published, seenDropped, drained, testArmed>>
  BY DEF GiverLeaves, GiverReturns, registryVars, scanVars, busVars, updateVars
<1>2. givers' \in [Givers -> [guid : Nat, available : BOOLEAN]]
  <2>1. givers \in [Givers -> [guid : Nat, available : BOOLEAN]]
    BY DEF Sound, WorldTypes
  <2>2. CASE GiverLeaves(g)
    BY <2>1, <2>2 DEF GiverLeaves
  <2>3. CASE \E guid \in 1..MaxGuid : GiverReturns(g, guid)
    <3>1. PICK guid \in 1..MaxGuid : GiverReturns(g, guid)
      BY <2>3
    <3>2. guid \in Nat
      BY QuestAssumption
    <3> QED BY <2>1, <3>1, <3>2 DEF GiverReturns
  <2> QED BY <2>2, <2>3
<1>4. WorldTypes' /\ EventTypes'
  BY <1>1, <1>2 DEF Sound, WorldTypes, EventTypes
<1>5. Recorded'
  BY <1>1, RecordedStays DEF Sound, registryVars
<1>6. Credited'
  <2>1. Registered' = Registered
    BY <1>1 DEF Registered
  <2>2. now <= latest /\ latest <= latest'
    BY <1>1, QuestAssumption DEF Sound, Credited, Observed, WorldTypes
  <2> QED BY <1>1, <1>4, <2>1, <2>2, CreditedStays DEF Sound, Recorded
<1> QED BY <1>4, <1>5, <1>6 DEF Sound

---------------------------------------------------------------------------
(* The registry                                                            *)

\* A new offer has the id after every id of the registry.
LEMMA OfferStep ==
  ASSUME Sound, NEW g \in Givers, NEW target \in Targets, NEW required \in RequiredCounts,
         NEW reward \in Rewards, NEW expiry \in Expiries,
         CreateDynamicQuestOffer(g, target, required, reward, expiry)
  PROVE  Sound'
<1> DEFINE id == nextId
           offer == [state |-> "Offered", giver |-> g, guid |-> givers[g].guid,
                     target |-> target, required |-> required, progress |-> 0,
                     reward |-> reward, expires |-> SaturatingAdd(now, expiry),
                     holder |-> Nobody, consumed |-> {}]
<1>1. /\ ~ RegistryFull /\ id # 0 /\ nextId' = NextAfter(id)
      /\ UNCHANGED <<cursor, highWater, pending, nextEvent, dropped, published, seenDropped, drained,
                     updating, testArmed, now, latest, givers>>
  BY DEF CreateDynamicQuestOffer, scanVars, busVars, updateVars, worldVars
<1>2. /\ id \in Ids /\ MaxId \in Nat /\ Ids = 1..MaxId
      /\ Registered \subseteq Ids /\ Ids \subseteq Nat
  BY <1>1, Types DEF Sound, Recorded, RecordTypes, Ids
<1>3. \A i \in Registered : i < id
  BY <1>1, <1>2 DEF Sound, Recorded, IdsFresh, Handed
<1>4. id \notin Registered
  BY <1>2, <1>3
<1>5. /\ quests' = [i \in Registered \cup {id} |-> IF i # id THEN quests[i] ELSE offer]
      /\ byGiver' = [byGiver EXCEPT ![g] = Append(@, id)]
      /\ history' = [history EXCEPT ![id].promised = reward]
  BY <1>4 DEF CreateDynamicQuestOffer
<1>6. offer \in Quest
  <2>1. /\ now \in Nat /\ MaxMs \in Nat /\ required \in Nat /\ reward \in Nat /\ expiry \in Nat
        /\ now <= MaxMs /\ givers[g].guid \in Nat
    BY QuestAssumption DEF Sound, WorldTypes
  <2>2. SaturatingAdd(now, expiry) \in Nat
    BY <2>1 DEF SaturatingAdd
  <2> QED BY <2>1, <2>2 DEF Quest
<1>O. /\ offer.state = "Offered" /\ offer.giver = g /\ offer.reward = reward /\ offer.progress = 0
      /\ offer.consumed = {} /\ offer.required = required
  OBVIOUS
<1>R. required \in Nat /\ reward \in Nat
  BY QuestAssumption
<1> HIDE DEF offer
<1>7. /\ Registered' = Registered \cup {id} /\ quests'[id] = offer
      /\ \A i \in Registered : quests'[i] = quests[i]
  BY <1>4, <1>5 DEF Registered
<1>8. /\ history' \in [Ids -> [outcomes : Seq(Outcomes), promised : Nat, paid : Int, earned : Nat]]
      /\ history'[id].promised = reward
      /\ \A i \in Ids : /\ history'[i].outcomes = history[i].outcomes /\ history'[i].paid = history[i].paid
                        /\ history'[i].earned = history[i].earned
                        /\ i # id => history'[i] = history[i]
  BY <1>2, <1>5, <1>R DEF Sound, Recorded, RecordTypes
<1>9. \A i \in Ids : Handed(i)' <=> Handed(i) \/ i = id
  <2>1. CASE id = MaxId
    BY <1>1, <1>2, <2>1 DEF Handed, NextAfter
  <2>2. CASE id # MaxId
    BY <1>1, <1>2, <2>2 DEF Handed, NextAfter
  <2> QED BY <2>1, <2>2
<1>10. ~ Handed(id) /\ NextAfter(id) \in Ids \cup {0}
  BY <1>1, <1>2 DEF Handed, NextAfter
<1>11. RecordTypes'
  <2>1. byGiver' \in [Givers -> Seq(Ids)]
    BY <1>2, <1>5 DEF Sound, Recorded, RecordTypes
  <2> QED BY <1>1, <1>2, <1>6, <1>7, <1>8, <1>10, <2>1 DEF Sound, Recorded, RecordTypes
<1>12. (Cardinality(Registered) <= MaxLive)'
  <2>1. IsFiniteSet(Registered) /\ Cardinality(Registered) \in Nat /\ MaxLive \in Nat
    BY Types, QuestAssumption DEF Sound, Recorded
  <2>2. Cardinality(Registered') = Cardinality(Registered) + 1
    BY <1>4, <1>7, <2>1, FS_AddElement
  <2> QED BY <1>1, <2>1, <2>2 DEF RegistryFull
<1>13. \A h \in Givers : IndexOf(h)'
  <2>1. SUFFICES ASSUME NEW h \in Givers PROVE IndexOf(h)'
    OBVIOUS
  <2>2. IndexOf(h) /\ byGiver[h] \in Seq(Ids) /\ byGiver \in [Givers -> Seq(Ids)]
    BY DEF Sound, Recorded, RecordTypes
  <2>3. CASE h # g
    <3>1. byGiver'[h] = byGiver[h]
      BY <1>5, <2>2, <2>3
    <3>2. {i \in Registered' : quests'[i].giver = h} = {i \in Registered : quests[i].giver = h}
      BY <1>4, <1>7, <1>O, <2>3
    <3> QED BY <2>2, <3>1, <3>2 DEF IndexOf
  <2>4. CASE h = g
    <3> DEFINE s == byGiver[h]
               t == Append(s, id)
               N == Len(s)
    <3>1. byGiver'[h] = t
      BY <1>5, <2>2, <2>4
    <3>2. /\ DOMAIN t = 1..(N+1) /\ N \in Nat /\ DOMAIN s = 1..N
          /\ t[N+1] = id /\ \A n \in 1..N : t[n] = s[n]
      BY <1>2, <2>2
    <3>3. {i \in Registered' : quests'[i].giver = h} = {i \in Registered : quests[i].giver = h} \cup {id}
      BY <1>4, <1>7, <1>O, <2>4
    <3>4. {s[n] : n \in 1..N} = {i \in Registered : quests[i].giver = h}
      BY <2>2, <3>2 DEF IndexOf
    <3>5. \A n \in 1..N : s[n] \in Registered
      BY <3>4
    <3>6. \A m, n \in 1..N : m < n => s[m] < s[n]
      BY <2>2, <3>2 DEF IndexOf
    <3> HIDE DEF s, t, N
    <3>7. \A n : n \in 1..(N+1) <=> n \in 1..N \/ n = N + 1
      BY <3>2
    <3>8. {t[n] : n \in 1..(N+1)} = {s[n] : n \in 1..N} \cup {id}
      BY <3>2, <3>7
    <3>9. \A m, n \in 1..(N+1) : m < n => t[m] < t[n]
      <4>1. SUFFICES ASSUME NEW m \in 1..(N+1), NEW n \in 1..(N+1), m < n PROVE t[m] < t[n]
        OBVIOUS
      <4>2. m \in 1..N
        BY <3>2, <4>1
      <4>3. CASE n \in 1..N
        BY <3>2, <3>6, <4>1, <4>2, <4>3
      <4>4. CASE n = N + 1
        BY <1>3, <3>2, <3>5, <4>2, <4>4
      <4> QED BY <3>7, <4>3, <4>4
    <3> QED BY <3>1, <3>2, <3>3, <3>4, <3>8, <3>9 DEF IndexOf
  <2> QED BY <2>3, <2>4
<1>14. OutcomeOnce'
  BY <1>4, <1>7, <1>8, <1>9, <1>10 DEF Sound, Recorded, OutcomeOnce, Handed
<1>15. RewardExact'
  <2>1. history[id].paid = 0
    BY <1>2, <1>10 DEF Sound, Recorded, IdsFresh
  <2>2. history[id].outcomes = <<>>
    <3>1. Len(history[id].outcomes) = 0
      BY <1>2, <1>4, <1>10 DEF Sound, Recorded, OutcomeOnce, Handed
    <3>2. history[id].outcomes \in Seq(Outcomes)
      BY <1>2, Types DEF Sound, Recorded
    <3> QED BY <3>1, <3>2
  <2>3. <<>> # <<"Completed">> /\ <<>> # <<"Expired">>
    OBVIOUS
  <2>4. SUFFICES ASSUME NEW i \in Ids
                 PROVE  /\ i \in Registered' => history'[i].paid = 0
                        /\ history'[i].outcomes = <<"Completed">> => history'[i].paid = history'[i].promised
                        /\ history'[i].outcomes = <<"Expired">> => history'[i].paid = 0
    BY DEF RewardExact
  <2>5. CASE i = id
    BY <1>2, <1>8, <2>1, <2>2, <2>3, <2>5
  <2>6. CASE i # id
    BY <1>7, <1>8, <2>6 DEF Sound, Recorded, RewardExact
  <2> QED BY <2>5, <2>6
<1>16. IdsFresh'
  BY <1>2, <1>7, <1>8, <1>9 DEF Sound, Recorded, IdsFresh
<1>17. Credited'
  <2>1. QuestsAgree'
    <3>1. history[id].earned = 0
      BY <1>2, <1>10 DEF Sound, Recorded, IdsFresh
    <3>2. SUFFICES ASSUME NEW i \in Registered'
                   PROVE  /\ history'[i].promised = quests'[i].reward
                          /\ quests'[i].state = "Offered" =>
                               quests'[i].progress = 0 /\ quests'[i].consumed = {} /\ history'[i].earned = 0
      BY DEF QuestsAgree
    <3>3. CASE i = id
      BY <1>2, <1>7, <1>8, <1>O, <3>1, <3>3
    <3>4. CASE i # id
      BY ZenonT(60), <1>2, <1>7, <1>8, <3>4 DEF Sound, Credited, QuestsAgree
    <3> QED BY <3>3, <3>4
  <2>2. CreditExact'
    <3>1. Cardinality({}) = 0
      BY FS_EmptySet
    <3>2. offer.progress = Cardinality(offer.consumed) /\ offer.progress <= offer.required
      BY <1>O, <1>R, <3>1
    <3>3. \A e \in offer.consumed : [id |-> e, killer |-> offer.holder, target |-> offer.target] \in published'
      BY <1>O
    <3>4. SUFFICES ASSUME NEW i \in Registered'
                   PROVE  /\ quests'[i].progress = Cardinality(quests'[i].consumed)
                          /\ quests'[i].progress <= quests'[i].required
                          /\ \A e \in quests'[i].consumed :
                               [id |-> e, killer |-> quests'[i].holder, target |-> quests'[i].target] \in published'
      BY DEF CreditExact
    <3>5. CASE i = id
      BY <1>7, <3>2, <3>3, <3>5
    <3>6. CASE i # id
      BY <1>1, <1>7, <3>6 DEF Sound, Credited, CreditExact
    <3> QED BY <3>5, <3>6
  <2>3. EventsInOrder'
    <3>1. IsFiniteSet({})
      BY FS_EmptySet
    <3> QED BY <1>1, <1>7, <1>O, <3>1 DEF Sound, Credited, EventsInOrder
  <2>4. Observed'
    BY <1>1 DEF Sound, Credited, Observed
  <2>5. NoCreditLost'
    BY ZenonT(60), <1>1, <1>2, <1>7, <1>8, <1>O DEF Sound, Credited, NoCreditLost
  <2> QED BY <2>1, <2>2, <2>3, <2>4, <2>5 DEF Credited
<1>18. WorldTypes' /\ EventTypes'
  BY <1>1 DEF Sound, WorldTypes, EventTypes
<1> QED BY <1>11, <1>12, <1>13, <1>14, <1>15, <1>16, <1>17, <1>18 DEF Sound, Recorded

\* FirstOf finds one of the giver's quests among ids, if there is one.
LEMMA FirstFound ==
  ASSUME Recorded, NEW g \in Givers, NEW ids
  PROVE  /\ FirstOf(g, ids) # 0 =>
              FirstOf(g, ids) \in ids /\ FirstOf(g, ids) \in Registered /\ quests[FirstOf(g, ids)].giver = g
         /\ \A i \in Registered : i \in ids /\ quests[i].giver = g => FirstOf(g, ids) # 0
<1> DEFINE s == byGiver[g]
           at == {n \in DOMAIN s : s[n] \in ids}
<1>1. s \in Seq(Ids) /\ 0 \notin Ids
  BY Types DEF Recorded
<1>2. DOMAIN s = 1..Len(s) /\ Len(s) \in Nat
  BY <1>1
<1>3. {s[n] : n \in DOMAIN s} = {i \in Registered : quests[i].giver = g}
  BY DEF Recorded, IndexOf
<1>4. FirstOf(g, ids) = IF at = {} THEN 0 ELSE s[Min(at)]
  BY DEF FirstOf
<1>5. at # {} => Min(at) \in at
  <2>1. at \in SUBSET Nat
    BY <1>2
  <2> HIDE DEF at
  <2> QED BY <2>1, LeastElement
<1>6. at # {} => s[Min(at)] \in ids /\ s[Min(at)] \in Registered /\ quests[s[Min(at)]].giver = g
  <2>1. \A n \in at : n \in DOMAIN s /\ s[n] \in ids
    OBVIOUS
  <2> HIDE DEF at, s
  <2> QED BY <1>3, <1>5, <2>1
<1>7. Registered \subseteq Ids
  BY Types DEF Recorded
<1>8. ASSUME NEW i \in Registered, i \in ids, quests[i].giver = g PROVE at # {}
  <2>1. PICK n \in DOMAIN s : s[n] = i
    BY <1>3, <1>8
  <2>2. n \in at
    BY <1>8, <2>1
  <2> QED BY <2>2
<1> HIDE DEF s, at
<1> QED BY <1>1, <1>4, <1>6, <1>7, <1>8

\* What a giver shows is one of its quests, of its present incarnation, and
\* not expired.
LEMMA ShownQuest ==
  ASSUME Recorded, NEW g \in Givers, NEW p
  PROVE  LET content == GossipContent(g, p)
             q == quests[content.id]
         IN /\ content.kind # "NoQuest" =>
                 /\ content.id \in Registered /\ q.giver = g
                 /\ q.guid = givers[g].guid /\ ~ IsExpired(q)
            /\ content.kind = "Offered" => q.state = "Offered"
            /\ content.kind \in {"Active", "ReadyToTurnIn"} => q.state = "Active" /\ q.holder = p
            /\ content.kind = "ReadyToTurnIn" => IsObjectiveComplete(q)
<1> DEFINE a == FindActiveByGiverAndPlayer(g, p)
           o == FindOfferedByGiver(g)
           offered == {i \in Registered : quests[i].state = "Offered" /\ quests[i].guid = givers[g].guid}
<1>1. a # 0 => /\ a \in Registered /\ quests[a].giver = g
               /\ quests[a].state = "Active" /\ quests[a].guid = givers[g].guid /\ quests[a].holder = p
  <2>1. \A i : i \in HeldBy(g, p) \/ i \in LiveHeldBy(g, p) =>
           quests[i].state = "Active" /\ quests[i].guid = givers[g].guid /\ quests[i].holder = p
    BY DEF HeldBy, LiveHeldBy
  <2>2. FirstOf(g, LiveHeldBy(g, p)) # 0 =>
          /\ FirstOf(g, LiveHeldBy(g, p)) \in LiveHeldBy(g, p)
          /\ FirstOf(g, LiveHeldBy(g, p)) \in Registered /\ quests[FirstOf(g, LiveHeldBy(g, p))].giver = g
    BY FirstFound
  <2>3. FirstOf(g, HeldBy(g, p)) # 0 =>
          /\ FirstOf(g, HeldBy(g, p)) \in HeldBy(g, p)
          /\ FirstOf(g, HeldBy(g, p)) \in Registered /\ quests[FirstOf(g, HeldBy(g, p))].giver = g
    BY FirstFound
  <2> QED BY <2>1, <2>2, <2>3 DEF FindActiveByGiverAndPlayer
<1>2. o # 0 => /\ o \in Registered /\ quests[o].giver = g
               /\ quests[o].state = "Offered" /\ quests[o].guid = givers[g].guid
  <2>1. FirstOf(g, offered) # 0 =>
          /\ FirstOf(g, offered) \in offered
          /\ FirstOf(g, offered) \in Registered /\ quests[FirstOf(g, offered)].giver = g
    BY FirstFound
  <2>2. o = FirstOf(g, offered)
    BY DEF FindOfferedByGiver
  <2> QED BY <2>1, <2>2
<1> DEFINE content == GossipContent(g, p)
<1>3. content = IF a # 0 /\ ~ IsExpired(quests[a])
                THEN [kind |-> IF IsObjectiveComplete(quests[a]) THEN "ReadyToTurnIn" ELSE "Active", id |-> a]
                ELSE IF o # 0 /\ ~ IsExpired(quests[o]) THEN [kind |-> "Offered", id |-> o]
                ELSE [kind |-> "NoQuest", id |-> 0]
  BY DEF GossipContent
<1> HIDE DEF a, o, content
<1>4. CASE a # 0 /\ ~ IsExpired(quests[a])
  <2>1. content.id = a /\ content.kind = IF IsObjectiveComplete(quests[a]) THEN "ReadyToTurnIn" ELSE "Active"
    BY <1>3, <1>4
  <2> QED BY <1>1, <1>4, <2>1 DEF content
<1>5. CASE ~ (a # 0 /\ ~ IsExpired(quests[a])) /\ o # 0 /\ ~ IsExpired(quests[o])
  <2>1. content.id = o /\ content.kind = "Offered"
    BY <1>3, <1>5
  <2> QED BY <1>2, <1>5, <2>1 DEF content
<1>6. CASE ~ (a # 0 /\ ~ IsExpired(quests[a])) /\ ~ (o # 0 /\ ~ IsExpired(quests[o]))
  <2>1. content.kind = "NoQuest"
    BY <1>3, <1>6
  <2> QED BY <2>1 DEF content
<1> QED BY <1>4, <1>5, <1>6

\* A player takes an offer: nothing is owed yet.
LEMMA AcceptStep ==
  ASSUME Sound, NEW g \in Givers, NEW p \in Players, AcceptDynamicQuestForPlayer(g, p)
  PROVE  Sound'
<1> DEFINE id == GossipContent(g, p).id
<1>1. id \in Registered /\ quests[id].state = "Offered"
  BY ShownQuest DEF AcceptDynamicQuestForPlayer, Sound
<1>0. quests' = [quests EXCEPT ![id].state = "Active", ![id].holder = p]
  BY DEF AcceptDynamicQuestForPlayer
<1>2. /\ UNCHANGED <<byGiver, nextId, history, cursor, highWater, pending, nextEvent, dropped, published,
                     seenDropped, drained, updating, testArmed, now, latest, givers>>
  BY DEF AcceptDynamicQuestForPlayer, scanVars, busVars, updateVars, worldVars
<1> HIDE DEF id
<1>3. /\ Registered' = Registered
      /\ \A i \in Registered : i # id => quests'[i] = quests[i]
      /\ quests'[id] = [quests[id] EXCEPT !.state = "Active", !.holder = p]
  BY <1>0, <1>1 DEF Registered
<1>4. quests[id] \in Quest
  BY <1>1, Types DEF Sound, Recorded
<1>5. /\ quests'[id] \in Quest
      /\ quests'[id].giver = quests[id].giver /\ quests'[id].reward = quests[id].reward
      /\ quests'[id].progress = quests[id].progress /\ quests'[id].required = quests[id].required
      /\ quests'[id].consumed = quests[id].consumed /\ quests'[id].state = "Active"
  BY <1>3, <1>4 DEF Quest
<1>6. /\ history[id].earned = 0 /\ quests[id].consumed = {} /\ quests[id].progress = 0
      /\ history[id].promised = quests[id].reward
  BY <1>1 DEF Sound, Credited, QuestsAgree
<1>7. Recorded'
  <2>1. RecordTypes'
    BY <1>2, <1>3, <1>5 DEF Sound, Recorded, RecordTypes
  <2>2. ASSUME NEW h \in Givers PROVE IndexOf(h)'
    <3>1. {i \in Registered' : quests'[i].giver = h} = {i \in Registered : quests[i].giver = h}
      BY <1>3, <1>5
    <3> QED BY <1>2, <3>1 DEF Sound, Recorded, IndexOf
  <2>3. OutcomeOnce' /\ RewardExact' /\ IdsFresh'
    BY <1>2, <1>3 DEF Sound, Recorded, OutcomeOnce, RewardExact, IdsFresh, Handed
  <2> QED BY <1>3, <2>1, <2>2, <2>3 DEF Sound, Recorded
<1>8. Credited'
  <2>1. QuestsAgree'
    BY ZenonT(60), <1>2, <1>3, <1>5, <1>6 DEF Sound, Credited, QuestsAgree
  <2>2. CreditExact'
    <3>1. SUFFICES ASSUME NEW i \in Registered'
                   PROVE  /\ quests'[i].progress = Cardinality(quests'[i].consumed)
                          /\ quests'[i].progress <= quests'[i].required
                          /\ \A e \in quests'[i].consumed :
                               [id |-> e, killer |-> quests'[i].holder, target |-> quests'[i].target] \in published'
      BY DEF CreditExact
    <3>2. CASE i = id
      BY <1>1, <1>5, <1>6, <3>2 DEF Sound, Credited, CreditExact
    <3>3. CASE i # id
      BY <1>2, <1>3, <3>3 DEF Sound, Credited, CreditExact
    <3> QED BY <3>2, <3>3
  <2>3. EventsInOrder'
    BY <1>1, <1>2, <1>3, <1>5, <1>6 DEF Sound, Credited, EventsInOrder
  <2>4. Observed'
    BY <1>2 DEF Sound, Credited, Observed
  <2>5. NoCreditLost'
    <3>1. SUFFICES ASSUME NEW i \in Registered', quests'[i].state = "Active",
                          latest' < quests'[i].expires, dropped' = seenDropped'
                   PROVE  \/ quests'[i].progress + Due(quests'[i], drained') + Due(quests'[i], pending')
                               >= quests'[i].required
                          \/ quests'[i].progress + Due(quests'[i], drained') + Due(quests'[i], pending')
                               >= history'[i].earned
      BY DEF NoCreditLost
    <3>2. CASE i = id
      <4>1. Due(quests'[i], drained') \in Nat /\ Due(quests'[i], pending') \in Nat
        BY <1>2, DueIsCount DEF Sound, EventTypes
      <4>2. quests'[i].progress = 0 /\ history'[i].earned = 0
        BY <1>2, <1>5, <1>6, <3>2
      <4> QED BY <4>1, <4>2
    <3>3. CASE i # id
      BY <1>2, <1>3, <3>1, <3>3 DEF Sound, Credited, NoCreditLost
    <3> QED BY <3>2, <3>3
  <2> QED BY <2>1, <2>2, <2>3, <2>4, <2>5 DEF Credited
<1>9. WorldTypes' /\ EventTypes'
  BY <1>2 DEF Sound, WorldTypes, EventTypes
<1> QED BY <1>7, <1>8, <1>9 DEF Sound

---------------------------------------------------------------------------
(* Quests leave the registry                                               *)

HistoryEntry == [outcomes : Seq(Outcomes), promised : Nat, paid : Int, earned : Nat]

\* The quests ids go, each with the one outcome o.
LEMMA RemovedRecorded ==
  ASSUME Recorded, NEW ids \in SUBSET Registered, NEW o \in Outcomes,
         Remove(ids), nextId' = nextId,
         history' \in [Ids -> HistoryEntry],
         \A i \in Ids \ ids : history'[i] = history[i],
         \A i \in ids : /\ history'[i].outcomes = Append(history[i].outcomes, o)
                        /\ o = "Completed" => history'[i].paid = history'[i].promised
                        /\ o = "Expired" => history'[i].paid = 0
  PROVE  /\ Recorded'
         /\ Registered' = Registered \ ids
         /\ \A i \in Registered' : quests'[i] = quests[i] /\ history'[i] = history[i]
<1>1. /\ Registered' = Registered \ ids
      /\ \A i \in Registered' : quests'[i] = quests[i]
  BY DEF Remove, Restrict, Registered
<1>2. Registered \ Registered' = ids
  BY <1>1
<1>3. byGiver' = [g \in Givers |-> Without(byGiver[g], ids)]
  BY <1>2 DEF Remove, Registered
<1>4. Registered \subseteq Ids /\ Ids \subseteq Nat /\ IsFiniteSet(Registered) /\ Cardinality(Registered) \in Nat
  BY Types DEF Recorded
<1>5. ASSUME NEW g \in Givers PROVE byGiver'[g] \in Seq(Ids) /\ IndexOf(g)'
  <2>1. byGiver[g] \in Seq(Ids) /\ IndexOf(g)
    BY Types DEF Recorded
  <2>2. \A m, n \in DOMAIN byGiver[g] : m < n => byGiver[g][m] < byGiver[g][n]
    BY <2>1 DEF IndexOf
  <2>3. byGiver'[g] = Without(byGiver[g], ids)
    BY <1>3
  <2> DEFINE s == byGiver[g]
             t == Without(s, ids)
  <2>0. s \in Seq(Ids) /\ Ids \in SUBSET Nat /\ \A m, n \in DOMAIN s : m < n => s[m] < s[n]
    BY <1>4, <2>1, <2>2
  <2> HIDE DEF s
  <2>4. /\ t \in Seq(Ids)
        /\ {t[n] : n \in DOMAIN t} = {s[n] : n \in DOMAIN s} \ ids
        /\ \A m, n \in DOMAIN t : m < n => t[m] < t[n]
    BY <2>0, WithoutElements
  <2> USE DEF s
  <2>5. {s[n] : n \in DOMAIN s} = {i \in Registered : quests[i].giver = g}
    BY <2>1 DEF IndexOf
  <2>6. {i \in Registered' : quests'[i].giver = g} = {i \in Registered : quests[i].giver = g} \ ids
    BY <1>1
  <2> QED BY <2>3, <2>4, <2>5, <2>6 DEF IndexOf
<1>6. byGiver' \in [Givers -> Seq(Ids)]
  BY <1>3, <1>5
<1>7. RecordTypes'
  BY <1>1, <1>6 DEF Recorded, RecordTypes, HistoryEntry
<1>8. (Cardinality(Registered) <= MaxLive)'
  <2>1. Cardinality(Registered') <= Cardinality(Registered) /\ Cardinality(Registered') \in Nat /\ MaxLive \in Nat
    BY <1>1, <1>4, FS_Subset, FS_CardinalityType, QuestAssumption
  <2> QED BY <1>4, <2>1 DEF Recorded
<1>9. \A i \in ids : history'[i].outcomes = <<o>>
  <2>1. SUFFICES ASSUME NEW i \in ids PROVE history'[i].outcomes = <<o>>
    OBVIOUS
  <2>2. Len(history[i].outcomes) = 0 /\ history[i].outcomes \in Seq(Outcomes)
    BY <1>4, Types DEF Recorded, OutcomeOnce
  <2>3. history[i].outcomes = <<>>
    BY <2>2
  <2> QED BY <2>3
<1>10. OutcomeOnce'
  <2>1. SUFFICES ASSUME NEW i \in Ids
                 PROVE  Len(history'[i].outcomes)
                          = IF (nextId' = 0 \/ i < nextId') /\ i \notin Registered' THEN 1 ELSE 0
    BY DEF OutcomeOnce
  <2>2. CASE i \in ids
    <3>1. Len(<<o>>) = 1
      OBVIOUS
    <3> QED BY <1>1, <1>9, <2>2, <3>1 DEF Recorded, IdsFresh, Handed
  <2>3. CASE i \notin ids
    BY <1>1, <2>3 DEF Recorded, OutcomeOnce
  <2> QED BY <2>2, <2>3
<1>11. RewardExact'
  <2>1. SUFFICES ASSUME NEW i \in Ids
                 PROVE  /\ i \in Registered' => history'[i].paid = 0
                        /\ history'[i].outcomes = <<"Completed">> => history'[i].paid = history'[i].promised
                        /\ history'[i].outcomes = <<"Expired">> => history'[i].paid = 0
    BY DEF RewardExact
  <2>2. CASE i \in ids
    <3>1. \A x \in Outcomes : <<o>> = <<x>> => o = x
      OBVIOUS
    <3>2. "Completed" \in Outcomes /\ "Expired" \in Outcomes
      BY DEF Outcomes
    <3>3. i \notin Registered' /\ history'[i].outcomes = <<o>>
      BY <1>1, <1>9, <2>2
    <3> QED BY <2>2, <3>1, <3>2, <3>3
  <2>3. CASE i \notin ids
    BY <1>1, <2>3 DEF Recorded, RewardExact
  <2> QED BY <2>2, <2>3
<1>12. IdsFresh'
  BY <1>1, <1>4 DEF Recorded, IdsFresh, Handed
<1> QED BY <1>1, <1>4, <1>5, <1>7, <1>8, <1>10, <1>11, <1>12 DEF Recorded

\* What PublishOutcome writes.
LEMMA Published ==
  ASSUME RecordTypes, NEW ids \in SUBSET Ids, NEW o \in Outcomes
  PROVE  /\ PublishOutcome(ids, o) \in [Ids -> HistoryEntry]
         /\ \A i \in Ids \ ids : PublishOutcome(ids, o)[i] = history[i]
         /\ \A i \in ids : /\ PublishOutcome(ids, o)[i].outcomes = Append(history[i].outcomes, o)
                           /\ PublishOutcome(ids, o)[i].promised = history[i].promised
                           /\ PublishOutcome(ids, o)[i].paid = history[i].paid
<1>1. \A i \in Ids : history[i] \in HistoryEntry
  BY DEF RecordTypes, HistoryEntry
<1>2. \A i \in Ids : [history[i] EXCEPT !.outcomes = Append(@, o)] \in HistoryEntry
  <2>1. \A i \in Ids : Append(history[i].outcomes, o) \in Seq(Outcomes)
    BY <1>1 DEF HistoryEntry
  <2> QED BY <1>1, <2>1 DEF HistoryEntry
<1> QED BY <1>1, <1>2 DEF PublishOutcome, HistoryEntry

\* A removal with an outcome that no money is involved in, and the queues are
\* as they were.
LEMMA RemovalStep ==
  ASSUME Sound, NEW ids \in SUBSET Registered, NEW o \in {"Failed", "Expired"},
         Remove(ids), nextId' = nextId, history' = PublishOutcome(ids, o),
         UNCHANGED <<busVars, worldVars>>
  PROVE  /\ Recorded'
         /\ Registered' = Registered \ ids
         /\ \A i \in Registered' : quests'[i] = quests[i] /\ history'[i] = history[i]
<1>1. ids \in SUBSET Ids /\ o \in Outcomes /\ o # "Completed"
  BY Types DEF Sound, Recorded, Outcomes
<1>2. /\ history' \in [Ids -> HistoryEntry]
      /\ \A i \in Ids \ ids : history'[i] = history[i]
      /\ \A i \in ids : /\ history'[i].outcomes = Append(history[i].outcomes, o)
                        /\ history'[i].paid = history[i].paid
  BY <1>1, Published DEF Sound, Recorded
<1>3. \A i \in ids : history[i].paid = 0
  BY <1>1 DEF Sound, Recorded, RewardExact
<1> QED BY <1>1, <1>2, <1>3, RemovedRecorded DEF Sound

LEMMA MaintenanceStep ==
  ASSUME Sound, RunDynamicQuestMaintenance
  PROVE  Sound'
<1> DEFINE discovered == GetIdsAfterUntil(ScanFrom.after, ScanFrom.until)
           expired == {i \in discovered : IsExpired(quests[i])}
<1>1. /\ highWater' = ScanFrom.until
      /\ cursor' = IF discovered = {} THEN ScanFrom.after ELSE Max(discovered)
      /\ Remove(expired) /\ history' = PublishOutcome(expired, "Expired") /\ nextId' = nextId
      /\ UNCHANGED <<pending, nextEvent, dropped, published, seenDropped, drained, updating, testArmed,
                     now, latest, givers>>
      /\ UNCHANGED <<busVars, worldVars>>
  BY DEF RunDynamicQuestMaintenance, busVars, updateVars, worldVars
<1>2. discovered \subseteq Registered
  BY DEF GetIdsAfterUntil
<1>3. expired \in SUBSET Registered
  BY <1>2
<1> HIDE DEF discovered, expired
<1>4. /\ Recorded' /\ Registered' \subseteq Registered
      /\ \A i \in Registered' : quests'[i] = quests[i] /\ history'[i] = history[i]
  BY <1>1, <1>3, RemovalStep
<1>5. MaxId \in Nat /\ Registered \subseteq Ids /\ Ids = 1..MaxId /\ {cursor, highWater} \subseteq Ids \cup {0}
  BY Types DEF Sound, Recorded, WorldTypes, Ids
<1>6. GetHighestId \in Ids \cup {0}
  <2>1. Registered \cup {0} \in SUBSET (0..MaxId) /\ Registered \cup {0} # {}
    BY <1>5
  <2>2. Max(Registered \cup {0}) \in Registered \cup {0}
    BY <1>5, <2>1, GreatestElement
  <2> QED BY <1>5, <2>2 DEF GetHighestId
<1>7. ScanFrom.after \in Ids \cup {0} /\ ScanFrom.until \in Ids \cup {0}
  <2> HIDE DEF GetHighestId
  <2> QED BY <1>5, <1>6 DEF ScanFrom
<1>8. discovered # {} => Max(discovered) \in Ids
  <2>1. discovered \in SUBSET (0..MaxId)
    BY <1>2, <1>5
  <2>2. discovered # {} => Max(discovered) \in discovered
    BY <1>5, <2>1, GreatestElement
  <2> QED BY <1>2, <1>5, <2>2
<1>9. WorldTypes' /\ EventTypes'
  BY <1>1, <1>5, <1>7, <1>8 DEF Sound, WorldTypes, EventTypes
<1>10. Credited'
  <2>1. now' <= latest' /\ latest <= latest'
    BY <1>1, QuestAssumption DEF Sound, Credited, Observed, WorldTypes
  <2> QED BY <1>1, <1>4, <1>9, <2>1, CreditedStays DEF Sound, Recorded
<1> QED BY <1>4, <1>9, <1>10 DEF Sound

LEMMA TestHookStep ==
  ASSUME Sound, TryRunTestDynamicQuestKillCreditLoss
  PROVE  Sound'
<1>1. /\ Remove(FailableQuests) /\ history' = PublishOutcome(FailableQuests, "Failed") /\ nextId' = nextId
      /\ testArmed' = FALSE
      /\ UNCHANGED <<cursor, highWater, pending, nextEvent, dropped, published, seenDropped, drained, updating,
                     now, latest, givers>>
      /\ UNCHANGED <<busVars, worldVars>>
  BY DEF TryRunTestDynamicQuestKillCreditLoss, ForceFailAll, scanVars, busVars, worldVars
<1>2. FailableQuests \in SUBSET Registered
  BY DEF FailableQuests
<1>3. /\ Recorded' /\ Registered' \subseteq Registered
      /\ \A i \in Registered' : quests'[i] = quests[i] /\ history'[i] = history[i]
  BY <1>1, <1>2, RemovalStep
<1>4. WorldTypes' /\ EventTypes'
  BY <1>1 DEF Sound, WorldTypes, EventTypes
<1>5. Credited'
  <2>1. now' <= latest' /\ latest <= latest'
    BY <1>1, QuestAssumption DEF Sound, Credited, Observed, WorldTypes
  <2> QED BY <1>1, <1>3, <1>4, <2>1, CreditedStays DEF Sound, Recorded
<1> QED BY <1>3, <1>4, <1>5 DEF Sound

\* After a loss no quest is left that a missing credit could hurt.
LEMMA ReclaimStep ==
  ASSUME Sound, ReclaimDynamicQuestsAfterKillCreditLoss
  PROVE  Sound'
<1>1. /\ updating /\ drained = <<>> /\ updating' = FALSE /\ seenDropped' = dropped
      /\ UNCHANGED <<cursor, highWater, pending, nextEvent, dropped, published, drained, testArmed,
                     now, latest, givers>>
      /\ UNCHANGED <<busVars, worldVars>>
  BY DEF ReclaimDynamicQuestsAfterKillCreditLoss, scanVars, busVars, worldVars
<1>2. WorldTypes' /\ EventTypes'
  BY <1>1 DEF Sound, WorldTypes, EventTypes
<1>3. Observed'
  BY <1>1, QuestAssumption DEF Sound, Credited, Observed, EventTypes
<1>4. CASE dropped > seenDropped
  <2>1. Remove(FailableQuests) /\ history' = PublishOutcome(FailableQuests, "Failed") /\ nextId' = nextId
    BY <1>4 DEF ReclaimDynamicQuestsAfterKillCreditLoss, LossDetected, ForceFailAll
  <2>2. FailableQuests \in SUBSET Registered
    BY DEF FailableQuests
  <2>3. /\ Recorded' /\ Registered' = Registered \ FailableQuests
        /\ \A i \in Registered' : quests'[i] = quests[i] /\ history'[i] = history[i]
    BY <1>1, <2>1, <2>2, RemovalStep
  <2>4. QuestsAgree' /\ CreditExact' /\ EventsInOrder'
    BY <1>1, <2>3 DEF Sound, Credited, QuestsAgree, CreditExact, EventsInOrder
  <2>5. NoCreditLost'
    <3>1. SUFFICES ASSUME NEW i \in Registered', quests[i].state = "Active", latest < quests[i].expires
                   PROVE  FALSE
      BY <1>1, <2>3 DEF NoCreditLost
    <3>2. i \in Registered /\ i \notin FailableQuests
      BY <2>3
    <3>3. now >= quests[i].expires
      BY <3>1, <3>2 DEF FailableQuests, IsExpired
    <3>4. now <= latest /\ now \in Nat /\ latest \in Nat
      BY QuestAssumption DEF Sound, Credited, Observed, WorldTypes
    <3>5. quests[i].expires \in Nat
      BY <3>2, Types DEF Sound, Recorded, Quest
    <3> QED BY <3>1, <3>3, <3>4, <3>5
  <2> QED BY <1>2, <1>3, <2>3, <2>4, <2>5 DEF Sound, Credited
<1>5. CASE ~ (dropped > seenDropped)
  <2>1. UNCHANGED registryVars
    BY <1>5 DEF ReclaimDynamicQuestsAfterKillCreditLoss, LossDetected
  <2>2. Recorded'
    BY <2>1, RecordedStays DEF Sound
  <2>3. quests' = quests /\ history' = history /\ Registered' = Registered
    BY <2>1 DEF registryVars, Registered
  <2>4. dropped = seenDropped
    BY <1>5 DEF Sound, EventTypes, Credited, Observed
  <2>5. QuestsAgree' /\ CreditExact' /\ EventsInOrder' /\ NoCreditLost'
    BY <1>1, <2>3, <2>4 DEF Sound, Credited, QuestsAgree, CreditExact, EventsInOrder, NoCreditLost
  <2> QED BY <1>2, <1>3, <2>2, <2>5 DEF Sound, Credited
<1> QED BY <1>4, <1>5

\* However a script rounds an amount, a balance stays a number.
LEMMA MoneyType ==
  ASSUME NEW balance \in Int, NEW amount \in Int, NEW applied \in Int
  PROVE  ModifyMoney(balance, amount, applied).balance \in Int
<1>1. MaxMoney \in Nat
  BY QuestAssumption
<1>2. Max({balance + applied, 0}) \in Int
  <2> DEFINE x == balance + applied
             Greatest(m) == m \in {x, 0} /\ \A y \in {x, 0} : m >= y
  <2>1. x \in Int
    OBVIOUS
  <2> HIDE DEF x
  <2>2. \E m : Greatest(m)
    <3>1. CASE x >= 0
      BY <2>1, <3>1
    <3>2. CASE ~ (x >= 0)
      BY <2>1, <3>2
    <3> QED BY <3>1, <3>2
  <2>3. Max({x, 0}) \in {x, 0}
    BY <2>2 DEF Max
  <2> QED BY <2>1, <2>3 DEF x
<1> QED BY <1>1, <1>2 DEF ModifyMoney

LEMMA MoneyMoved ==
  ASSUME NEW h \in [Ids -> HistoryEntry], NEW id \in Ids, NEW amount \in Int
  PROVE  LET k == [h EXCEPT ![id].paid = @ + amount]
         IN /\ k \in [Ids -> HistoryEntry]
            /\ \A i \in Ids \ {id} : k[i] = h[i]
            /\ k[id].outcomes = h[id].outcomes /\ k[id].promised = h[id].promised
            /\ k[id].paid = h[id].paid + amount
<1>1. h[id] \in HistoryEntry
  OBVIOUS
<1>2. h[id].paid + amount \in Int
  BY <1>1 DEF HistoryEntry
<1>3. [h[id] EXCEPT !.paid = @ + amount] \in HistoryEntry
  BY <1>1, <1>2 DEF HistoryEntry
<1> QED BY <1>1, <1>3 DEF HistoryEntry

\* Scripts never make a quest pay without completing it, or stay when money has
\* moved.
LEMMA TurnInStep ==
  ASSUME Sound, NEW g \in Givers, NEW p \in Players, NEW balance \in Balances,
         CompleteDynamicQuestForPlayer(g, p, balance)
  PROVE  Sound'
<1> DEFINE id == GossipContent(g, p).id
           q == quests[id]
<1>1. /\ Completable(q) /\ id \in Registered
      /\ nextId' = nextId
      /\ UNCHANGED <<cursor, highWater, pending, nextEvent, dropped, published, seenDropped, drained,
                     updating, testArmed, now, latest, givers>>
  BY ShownQuest DEF CompleteDynamicQuestForPlayer, Sound, scanVars, busVars, updateVars, worldVars
<1>2. PICK applied \in ScriptedAmounts \cup {q.reward} :
          LET grant == ModifyMoney(balance, q.reward, applied)
              delta == grant.balance - balance
          IN \/ /\ RewardApplied(balance, q.reward, grant)
                /\ Remove({id})
                /\ history' = [PublishOutcome({id}, "Completed") EXCEPT ![id].paid = @ + delta]
             \/ /\ ~RewardApplied(balance, q.reward, grant)
                /\ \E reverted \in ScriptedAmounts \cup {-delta} :
                     LET back == ModifyMoney(grant.balance, -delta, reverted)
                     IN /\ ~(back.ok /\ back.balance = balance)
                        /\ Terminate(id, back.balance - balance)
  BY DEF CompleteDynamicQuestForPlayer
<1> HIDE DEF id
<1>3. /\ id \in Ids /\ q \in Quest /\ q.reward \in Nat /\ history[id].paid = 0
      /\ history[id].promised = q.reward /\ balance \in Int /\ applied \in Int /\ q.reward \in Int
  <2>1. id \in Ids /\ q \in Quest
    BY <1>1, Types DEF Sound, Recorded
  <2>2. history[id].paid = 0 /\ history[id].promised = q.reward
    BY <1>1, <2>1 DEF Sound, Recorded, RewardExact, Credited, QuestsAgree
  <2>3. q.reward \in Nat
    BY <2>1 DEF Quest
  <2>4. balance \in Int
    BY QuestAssumption
  <2>5. applied \in Int
    <3> HIDE DEF q
    <3>1. ScriptedAmounts \subseteq Int
      BY QuestAssumption
    <3> QED BY <2>3, <3>1
  <2> QED BY <2>1, <2>2, <2>3, <2>4, <2>5
<1>4. {id} \in SUBSET Ids /\ {id} \in SUBSET Registered
  BY <1>1, <1>3
<1> DEFINE grant == ModifyMoney(balance, q.reward, applied)
           delta == grant.balance - balance
<1>5. grant.balance \in Int /\ delta \in Int
  <2>1. grant.balance \in Int
    BY <1>3, MoneyType
  <2> HIDE DEF grant
  <2> QED BY <1>3, <2>1
<1>6. /\ Recorded' /\ Registered' \subseteq Registered
      /\ \A i \in Registered' : quests'[i] = quests[i] /\ history'[i] = history[i]
  <2>1. CASE /\ RewardApplied(balance, q.reward, grant)
             /\ Remove({id})
             /\ history' = [PublishOutcome({id}, "Completed") EXCEPT ![id].paid = @ + delta]
    <3>1. "Completed" \in Outcomes /\ "Completed" # "Expired"
      BY DEF Outcomes
    <3>2. /\ PublishOutcome({id}, "Completed") \in [Ids -> HistoryEntry]
          /\ \A i \in Ids \ {id} : PublishOutcome({id}, "Completed")[i] = history[i]
          /\ PublishOutcome({id}, "Completed")[id].outcomes = Append(history[id].outcomes, "Completed")
          /\ PublishOutcome({id}, "Completed")[id].promised = history[id].promised
          /\ PublishOutcome({id}, "Completed")[id].paid = history[id].paid
      BY <1>4, <3>1, Published DEF Sound, Recorded
    <3>3. delta = q.reward
      <4>1. grant.balance = balance + q.reward
        BY <2>1 DEF RewardApplied
      <4> HIDE DEF grant, q
      <4> QED BY <1>3, <4>1
    <3> DEFINE h == PublishOutcome({id}, "Completed")
    <3>4. history' = [h EXCEPT ![id].paid = @ + delta]
      BY <2>1
    <3> HIDE DEF h, delta, q
    <3>5. h \in [Ids -> HistoryEntry] /\ h[id].paid = 0 /\ h[id].promised = q.reward
      BY <1>3, <3>2 DEF h
    <3>6. /\ history' \in [Ids -> HistoryEntry]
          /\ \A i \in Ids \ {id} : history'[i] = h[i]
          /\ history'[id].outcomes = h[id].outcomes /\ history'[id].promised = h[id].promised
          /\ history'[id].paid = 0 + delta
      BY <1>3, <1>5, <3>4, <3>5, MoneyMoved
    <3>7. /\ \A i \in Ids \ {id} : history'[i] = history[i]
          /\ history'[id].outcomes = Append(history[id].outcomes, "Completed")
          /\ history'[id].paid = history'[id].promised
      <4>1. /\ \A i \in Ids \ {id} : h[i] = history[i]
            /\ h[id].outcomes = Append(history[id].outcomes, "Completed")
        BY <3>2 DEF h
      <4>2. history'[id].paid = q.reward /\ history'[id].promised = q.reward
        BY <1>3, <3>3, <3>5, <3>6
      <4> QED BY <3>6, <4>1, <4>2
    <3>8. \A i \in {id} : /\ history'[i].outcomes = Append(history[i].outcomes, "Completed")
                          /\ "Completed" = "Completed" => history'[i].paid = history'[i].promised
                          /\ "Completed" = "Expired" => history'[i].paid = 0
      BY <3>1, <3>7
    <3>9. Remove({id})
      BY <2>1
    <3>10. Recorded
      BY DEF Sound
    <3>11. /\ Recorded' /\ Registered' = Registered \ {id}
           /\ \A i \in Registered' : quests'[i] = quests[i] /\ history'[i] = history[i]
      BY <1>1, <1>4, <3>1, <3>6, <3>7, <3>8, <3>9, <3>10, RemovedRecorded
    <3> QED BY <3>11
  <2>2. ASSUME NEW reverted \in ScriptedAmounts \cup {-delta},
               Terminate(id, ModifyMoney(grant.balance, -delta, reverted).balance - balance)
        PROVE  /\ Recorded' /\ Registered' \subseteq Registered
               /\ \A i \in Registered' : quests'[i] = quests[i] /\ history'[i] = history[i]
    <3> DEFINE back == ModifyMoney(grant.balance, -delta, reverted)
               moved == back.balance - balance
    <3>1. reverted \in Int /\ -delta \in Int
      <4> HIDE DEF delta
      <4>1. ScriptedAmounts \subseteq Int
        BY QuestAssumption
      <4>2. delta \in Int
        BY <1>5
      <4>3. -delta \in Int
        BY ONLY <4>2
      <4>4. reverted \in Int
        BY ONLY <4>1, <4>3, <2>2
      <4> QED BY ONLY <4>3, <4>4
    <3>2. back.balance \in Int
      <4> HIDE DEF delta, grant
      <4> QED BY <1>5, <3>1, MoneyType
    <3>3. moved \in Int
      <4> HIDE DEF back
      <4> QED BY <1>3, <3>2
    <3>4. Terminate(id, moved)
      BY <2>2
    <3> HIDE DEF moved
    <3>5. {i \in {id} : quests[i].state = "Active" /\ ~IsExpired(quests[i])} = {id}
      BY <1>1 DEF Completable
    <3>6. Remove({id}) /\ history' = [PublishOutcome({id}, "Failed") EXCEPT ![id].paid = @ + moved]
      BY <3>4, <3>5 DEF Terminate
    <3>7. "Failed" \in Outcomes /\ "Failed" # "Expired" /\ "Failed" # "Completed"
      BY DEF Outcomes
    <3>8. /\ PublishOutcome({id}, "Failed") \in [Ids -> HistoryEntry]
          /\ \A i \in Ids \ {id} : PublishOutcome({id}, "Failed")[i] = history[i]
          /\ PublishOutcome({id}, "Failed")[id].outcomes = Append(history[id].outcomes, "Failed")
          /\ PublishOutcome({id}, "Failed")[id].paid = history[id].paid
      BY <1>4, <3>7, Published DEF Sound, Recorded
    <3> DEFINE h == PublishOutcome({id}, "Failed")
    <3>9. history' = [h EXCEPT ![id].paid = @ + moved] /\ h \in [Ids -> HistoryEntry] /\ h[id].paid \in Int
      BY <1>3, <3>6, <3>8 DEF HistoryEntry
    <3> HIDE DEF h
    <3>10. /\ history' \in [Ids -> HistoryEntry]
           /\ \A i \in Ids \ {id} : history'[i] = h[i]
           /\ history'[id].outcomes = h[id].outcomes
      BY <1>3, <3>3, <3>9, MoneyMoved
    <3>11. /\ \A i \in Ids \ {id} : history'[i] = history[i]
           /\ history'[id].outcomes = Append(history[id].outcomes, "Failed")
      BY <1>3, <3>8, <3>10 DEF h
    <3>12. \A i \in {id} : /\ history'[i].outcomes = Append(history[i].outcomes, "Failed")
                           /\ "Failed" = "Completed" => history'[i].paid = history'[i].promised
                           /\ "Failed" = "Expired" => history'[i].paid = 0
      BY <3>7, <3>11
    <3>13. Recorded /\ Remove({id})
      BY <3>6 DEF Sound
    <3>14. /\ Recorded' /\ Registered' = Registered \ {id}
           /\ \A i \in Registered' : quests'[i] = quests[i] /\ history'[i] = history[i]
      BY <1>1, <1>4, <3>7, <3>10, <3>11, <3>12, <3>13, RemovedRecorded
    <3> QED BY <3>14
  <2> QED BY <1>2, <2>1, <2>2
<1>7. WorldTypes' /\ EventTypes'
  BY <1>1 DEF Sound, WorldTypes, EventTypes
<1>8. Credited'
  <2>1. now' <= latest' /\ latest <= latest'
    BY <1>1, QuestAssumption DEF Sound, Credited, Observed, WorldTypes
  <2> QED BY <1>1, <1>6, <1>7, <2>1, CreditedStays DEF Sound, Recorded
<1> QED BY <1>6, <1>7, <1>8 DEF Sound

---------------------------------------------------------------------------
(* Kills                                                                   *)

LEMMA DrainStep ==
  ASSUME Sound, Drain
  PROVE  Sound'
<1>1. /\ ~ updating /\ updating' = TRUE /\ drained' = pending /\ pending' = <<>>
      /\ UNCHANGED <<seenDropped, testArmed, nextEvent, dropped, published, quests, byGiver, nextId, history,
                     cursor, highWater, now, latest, givers>>
      /\ UNCHANGED registryVars
  BY DEF Drain, registryVars, scanVars, worldVars
<1>2. drained = <<>>
  BY <1>1 DEF Sound, Credited, Observed
<1>3. Recorded'
  BY <1>1, RecordedStays DEF Sound
<1>4. WorldTypes' /\ EventTypes'
  <2>1. <<>> \in Seq(KillEvent)
    OBVIOUS
  <2> QED BY <1>1, <2>1 DEF Sound, WorldTypes, EventTypes
<1>5. Registered' = Registered
  BY <1>1 DEF Registered
<1>6. QuestsAgree' /\ CreditExact' /\ Observed'
  BY <1>1, <1>5 DEF Sound, Credited, QuestsAgree, CreditExact, Observed
<1>7. EventsInOrder'
  BY <1>1, <1>5 DEF Sound, Credited, EventsInOrder
<1>8. NoCreditLost'
  <2>1. SUFFICES ASSUME NEW i \in Registered, quests[i].state = "Active",
                        latest < quests[i].expires, dropped = seenDropped
                 PROVE  \/ quests[i].progress + Due(quests[i], pending) + Due(quests[i], <<>>) >= quests[i].required
                        \/ quests[i].progress + Due(quests[i], pending) + Due(quests[i], <<>>) >= history[i].earned
    BY <1>1, <1>5 DEF NoCreditLost
  <2>2. \/ quests[i].progress + Due(quests[i], <<>>) + Due(quests[i], pending) >= quests[i].required
        \/ quests[i].progress + Due(quests[i], <<>>) + Due(quests[i], pending) >= history[i].earned
    BY <1>2, <2>1 DEF Sound, Credited, NoCreditLost
  <2>3. quests[i].progress \in Nat /\ Due(quests[i], pending) \in Nat
    <3>1. quests[i] \in Quest
      BY <2>1, Types DEF Sound, Recorded
    <3> QED BY <3>1, DueIsCount DEF Sound, EventTypes, Quest
  <2>4. Due(quests[i], <<>>) = 0
    BY NoneDue
  <2> QED BY <2>2, <2>3, <2>4
<1> QED BY <1>3, <1>4, <1>6, <1>7, <1>8 DEF Sound, Credited

\* A kill is a credit of its killer and one more event, or a loss.
LEMMA KillStep ==
  ASSUME Sound, NEW p \in Players, NEW target \in Targets, Kill(p, target)
  PROVE  Sound'
<1> DEFINE event == [id |-> nextEvent, killer |-> p, target |-> target]
           Owed(i) == /\ i \in Registered
                      /\ quests[i].state = "Active" /\ quests[i].holder = p /\ quests[i].target = target
<1>1. /\ UNCHANGED <<quests, byGiver, nextId, cursor, highWater, seenDropped, drained, updating, testArmed,
                     now, latest, givers>>
      /\ history' = [i \in Ids |-> IF Owed(i) THEN [history[i] EXCEPT !.earned = @ + 1] ELSE history[i]]
  BY DEF Kill, scanVars, updateVars, worldVars
<1>2. \/ /\ dropped' = dropped + 1
         /\ UNCHANGED <<pending, nextEvent, published>>
      \/ /\ pending' = Append(pending, event)
         /\ published' = published \cup {event}
         /\ nextEvent' = nextEvent + 1 /\ dropped' = dropped
  BY DEF Kill, Publish
<1>3. /\ dropped \in Nat /\ seenDropped \in Nat /\ seenDropped <= dropped /\ nextEvent \in Nat
      /\ pending \in Seq(KillEvent) /\ drained \in Seq(KillEvent) /\ published \subseteq KillEvent
  BY DEF Sound, EventTypes, Credited, Observed
<1>4. event \in KillEvent /\ event.id = nextEvent
  BY <1>3 DEF KillEvent
<1>5. Registered' = Registered /\ Registered \subseteq Ids
  BY <1>1, Types DEF Registered, Sound, Recorded
<1>6. \A i \in Registered : Owed(i) <=> Matches(quests[i], event)
  BY DEF Matches
<1>7. \A i \in Ids : history[i] \in HistoryEntry
  BY Types DEF HistoryEntry, Sound, Recorded
<1> HIDE DEF Owed
<1>8. /\ history' \in [Ids -> HistoryEntry]
      /\ \A i \in Ids : /\ history'[i].outcomes = history[i].outcomes
                        /\ history'[i].promised = history[i].promised
                        /\ history'[i].paid = history[i].paid
                        /\ history'[i].earned = IF Owed(i) THEN history[i].earned + 1 ELSE history[i].earned
  <2>1. \A i \in Ids : [history[i] EXCEPT !.earned = @ + 1] \in HistoryEntry
    BY <1>7 DEF HistoryEntry
  <2> QED BY <1>1, <1>7, <2>1 DEF HistoryEntry
<1>9. Recorded'
  <2>1. RecordTypes'
    BY <1>1, <1>5, <1>8 DEF Sound, Recorded, RecordTypes, HistoryEntry
  <2>2. \A g \in Givers : IndexOf(g)'
    BY <1>1, <1>5 DEF Sound, Recorded, IndexOf
  <2>3. OutcomeOnce' /\ RewardExact'
    BY <1>1, <1>5, <1>8 DEF Sound, Recorded, OutcomeOnce, RewardExact
  <2>4. IdsFresh'
    <3>1. \A i \in Ids : ~ Handed(i) => ~ Owed(i)
      BY DEF Owed, Sound, Recorded, IdsFresh
    <3> QED BY <1>1, <1>5, <1>8, <3>1 DEF Sound, Recorded, IdsFresh, Handed
  <2> QED BY <1>5, <2>1, <2>2, <2>3, <2>4 DEF Sound, Recorded
<1>10. WorldTypes' /\ EventTypes'
  <2>1. pending' \in Seq(KillEvent) /\ published' \subseteq KillEvent /\ nextEvent' \in Nat /\ dropped' \in Nat
    <3>1. CASE dropped' = dropped + 1 /\ UNCHANGED <<pending, nextEvent, published>>
      BY <1>3, <3>1
    <3>2. CASE /\ pending' = Append(pending, event)
               /\ published' = published \cup {event}
               /\ nextEvent' = nextEvent + 1 /\ dropped' = dropped
      <4> HIDE DEF event
      <4> QED BY <1>3, <1>4, <3>2
    <3> QED BY <1>2, <3>1, <3>2
  <2> QED BY <1>1, <2>1 DEF Sound, WorldTypes, EventTypes
<1>11. QuestsAgree'
  <2>1. \A i \in Registered : quests[i].state = "Offered" => ~ Owed(i)
    BY DEF Owed
  <2> QED BY <1>1, <1>5, <1>8, <2>1 DEF Sound, Credited, QuestsAgree
<1>12. CreditExact'
  BY <1>1, <1>2, <1>5 DEF Sound, Credited, CreditExact
<1>13. Observed'
  BY <1>1, <1>2, <1>3 DEF Sound, Credited, Observed
<1>14. EventsInOrder'
  <2>1. CASE dropped' = dropped + 1 /\ UNCHANGED <<pending, nextEvent, published>>
    BY <1>1, <1>5, <2>1 DEF Sound, Credited, EventsInOrder
  <2>2. CASE /\ pending' = Append(pending, event)
             /\ published' = published \cup {event}
             /\ nextEvent' = nextEvent + 1
    <3> DEFINE N == Len(pending)
    <3>1. /\ N \in Nat /\ DOMAIN pending = 1..N /\ DOMAIN pending' = 1..(N+1)
          /\ pending'[N+1] = event /\ \A n \in 1..N : pending'[n] = pending[n]
      BY <1>3, <1>4, <2>2
    <3> HIDE DEF N
    <3>2. \A n : n \in 1..(N+1) <=> n \in 1..N \/ n = N + 1
      BY <3>1
    <3>3. \A n \in 1..N : pending[n] \in published /\ pending[n].id < nextEvent /\ pending[n].id \in Nat
      <4>1. \A n \in 1..N : pending[n] \in KillEvent
        BY <1>3, <3>1
      <4> QED BY <3>1, <4>1 DEF Sound, Credited, EventsInOrder, KillEvent
    <3>4. \A n \in DOMAIN drained : drained[n] \in published /\ drained[n].id < nextEvent /\ drained[n].id \in Nat
      BY <1>3 DEF Sound, Credited, EventsInOrder, KillEvent
    <3>5. \A i \in Registered : \A e \in quests[i].consumed : e < nextEvent /\ e \in Nat
      <4>1. \A i \in Registered : quests[i].consumed \subseteq Nat
        BY Types DEF Sound, Recorded, Quest
      <4> QED BY <4>1 DEF Sound, Credited, EventsInOrder
    <3>6. \A n \in DOMAIN drained' : drained'[n] \in published' /\ drained'[n].id < nextEvent'
      BY <1>1, <1>3, <2>2, <3>4
    <3>7. \A n \in DOMAIN pending' : pending'[n] \in published' /\ pending'[n].id < nextEvent'
      BY <1>3, <1>4, <2>2, <3>1, <3>2, <3>3
    <3>8. \A m, n \in DOMAIN pending' : m < n => pending'[m].id < pending'[n].id
      <4>1. SUFFICES ASSUME NEW m \in 1..(N+1), NEW n \in 1..(N+1), m < n
                     PROVE  pending'[m].id < pending'[n].id
        BY <3>1
      <4>2. m \in 1..N
        BY <3>1, <4>1
      <4>3. CASE n \in 1..N
        BY <3>1, <4>1, <4>2, <4>3 DEF Sound, Credited, EventsInOrder
      <4>4. CASE n = N + 1
        BY <1>4, <3>1, <3>3, <4>2, <4>4
      <4> QED BY <3>2, <4>3, <4>4
    <3>9. \A m \in DOMAIN drained', n \in DOMAIN pending' : drained'[m].id < pending'[n].id
      <4>1. SUFFICES ASSUME NEW m \in DOMAIN drained, NEW n \in 1..(N+1)
                     PROVE  drained[m].id < pending'[n].id
        BY <1>1, <3>1
      <4>2. CASE n \in 1..N
        BY <3>1, <4>2 DEF Sound, Credited, EventsInOrder
      <4>3. CASE n = N + 1
        BY <1>4, <3>1, <3>4, <4>3
      <4> QED BY <3>2, <4>2, <4>3
    <3>10. \A i \in Registered' : \A e \in quests'[i].consumed :
             /\ e < nextEvent'
             /\ \A n \in DOMAIN drained' : e < drained'[n].id
             /\ \A n \in DOMAIN pending' : e < pending'[n].id
      <4>1. SUFFICES ASSUME NEW i \in Registered, NEW e \in quests[i].consumed
                     PROVE  /\ e < nextEvent'
                            /\ \A n \in DOMAIN drained : e < drained[n].id
                            /\ \A n \in 1..(N+1) : e < pending'[n].id
        BY <1>1, <1>5, <3>1
      <4>2. e < nextEvent /\ e \in Nat
        BY <3>5
      <4>3. \A n \in DOMAIN drained : e < drained[n].id
        BY DEF Sound, Credited, EventsInOrder
      <4>4. \A n \in 1..N : e < pending'[n].id
        BY <3>1 DEF Sound, Credited, EventsInOrder
      <4>5. e < pending'[N+1].id
        BY <1>4, <3>1, <4>2
      <4>6. e < nextEvent'
        BY <1>3, <2>2, <4>2
      <4> QED BY <3>2, <4>3, <4>4, <4>5, <4>6
    <3>11. /\ \A m, n \in DOMAIN drained' : m < n => drained'[m].id < drained'[n].id
           /\ \A i \in Registered' : IsFiniteSet(quests'[i].consumed)
      BY <1>1, <1>5 DEF Sound, Credited, EventsInOrder
    <3> QED BY <3>6, <3>7, <3>8, <3>9, <3>10, <3>11 DEF EventsInOrder
  <2> QED BY <1>2, <2>1, <2>2
<1>15. NoCreditLost'
  <2>1. SUFFICES ASSUME NEW i \in Registered, quests[i].state = "Active",
                        latest < quests[i].expires, dropped' = seenDropped
                 PROVE  \/ quests[i].progress + Due(quests[i], drained) + Due(quests[i], pending') >= quests[i].required
                        \/ quests[i].progress + Due(quests[i], drained) + Due(quests[i], pending') >= history'[i].earned
    BY <1>1, <1>5 DEF NoCreditLost
  <2>2. pending' = Append(pending, event) /\ dropped = seenDropped
    BY <1>2, <1>3, <2>1
  <2>3. \/ quests[i].progress + Due(quests[i], drained) + Due(quests[i], pending) >= quests[i].required
        \/ quests[i].progress + Due(quests[i], drained) + Due(quests[i], pending) >= history[i].earned
    BY <2>1, <2>2 DEF Sound, Credited, NoCreditLost
  <2>4. Due(quests[i], pending') = Due(quests[i], pending) + (IF Owed(i) THEN 1 ELSE 0)
    <3>1. Due(quests[i], Append(pending, event))
            = Due(quests[i], pending) + (IF Matches(quests[i], event) THEN 1 ELSE 0)
      BY <1>3, <1>4, DueAppended
    <3> QED BY <1>6, <2>2, <3>1
  <2>5. /\ quests[i].progress \in Nat /\ quests[i].required \in Nat /\ history[i].earned \in Nat
        /\ Due(quests[i], pending) \in Nat /\ Due(quests[i], drained) \in Nat
    <3>1. quests[i] \in Quest /\ i \in Ids
      BY <1>5, Types DEF Sound, Recorded
    <3> QED BY <1>3, <1>7, <3>1, DueIsCount DEF Quest, HistoryEntry
  <2>6. history'[i].earned = history[i].earned + (IF Owed(i) THEN 1 ELSE 0)
    BY <1>5, <1>8, <2>5
  <2> QED BY <2>3, <2>4, <2>5, <2>6
<1> QED BY <1>9, <1>10, <1>11, <1>12, <1>13, <1>14, <1>15 DEF Sound, Credited

\* The first drained event is credited to every quest it counts for, and each
\* of them needs it: it is newer than what has been credited.
LEMMA ProcessStep ==
  ASSUME Sound, ProcessDynamicQuestKillProgress
  PROVE  Sound'
<1> DEFINE event == Head(drained)
           Counts(i) == Matches(quests[i], event) /\ CountsFor(quests[i], event)
           N == Len(drained)
<1>0. quests' = [i \in Registered |->
          IF Counts(i) THEN [quests[i] EXCEPT !.progress = @ + 1, !.consumed = @ \cup {event.id}]
          ELSE quests[i]]
  BY DEF ProcessDynamicQuestKillProgress
<1>1. /\ updating /\ drained # <<>> /\ drained' = Tail(drained)
      /\ UNCHANGED <<byGiver, nextId, history, seenDropped, updating, testArmed, cursor, highWater,
                     pending, nextEvent, dropped, published, now, latest, givers>>
  BY DEF ProcessDynamicQuestKillProgress, scanVars, busVars, worldVars
<1>2. /\ drained \in Seq(KillEvent) /\ pending \in Seq(KillEvent) /\ published \subseteq KillEvent
      /\ nextEvent \in Nat
  BY DEF Sound, EventTypes
<1>3. /\ N \in Nat \ {0} /\ DOMAIN drained = 1..N /\ event = drained[1] /\ event \in KillEvent
      /\ drained' \in Seq(KillEvent) /\ DOMAIN drained' = 1..(N-1)
      /\ \A n \in 1..(N-1) : drained'[n] = drained[n+1] /\ n + 1 \in 1..N /\ 1 < n + 1
  BY <1>1, <1>2
<1>4. /\ event.id \in Nat /\ event.id < nextEvent /\ event \in published
      /\ event = [id |-> event.id, killer |-> event.killer, target |-> event.target]
  <2>1. event \in published /\ event.id < nextEvent
    BY <1>3 DEF Sound, Credited, EventsInOrder
  <2> HIDE DEF event
  <2> QED BY <1>3, <2>1 DEF KillEvent
<1>5. \A n \in 1..(N-1) : event.id < drained'[n].id
  BY <1>3 DEF Sound, Credited, EventsInOrder
<1>6. \A n \in DOMAIN pending : event.id < pending[n].id
  BY <1>3 DEF Sound, Credited, EventsInOrder
<1>7. \A i \in Registered : \A e \in quests[i].consumed : e < event.id
  BY <1>3 DEF Sound, Credited, EventsInOrder
<1>D. ASSUME NEW q
      PROVE  Due(q, drained) = Due(q, drained') + (IF Matches(q, event) THEN 1 ELSE 0)
  BY <1>1, <1>2, DueProcessed
<1> HIDE DEF event, Counts, N
<1>8. Registered' = Registered /\ Registered \subseteq Ids
  BY <1>0, Types DEF Registered, Sound, Recorded
<1>9. \A i \in Registered :
        quests'[i] = IF Counts(i)
                     THEN [quests[i] EXCEPT !.progress = @ + 1, !.consumed = @ \cup {event.id}]
                     ELSE quests[i]
  BY <1>0
<1>10. ASSUME NEW i \in Registered
       PROVE  /\ quests[i] \in Quest /\ quests'[i] \in Quest
              /\ quests'[i].state = quests[i].state
              /\ quests'[i].giver = quests[i].giver /\ quests'[i].guid = quests[i].guid
              /\ quests'[i].target = quests[i].target /\ quests'[i].required = quests[i].required
              /\ quests'[i].reward = quests[i].reward /\ quests'[i].expires = quests[i].expires
              /\ quests'[i].holder = quests[i].holder
              /\ quests'[i].progress = IF Counts(i) THEN quests[i].progress + 1 ELSE quests[i].progress
              /\ quests'[i].consumed = IF Counts(i) THEN quests[i].consumed \cup {event.id}
                                       ELSE quests[i].consumed
  <2>1. quests[i] \in Quest
    BY Types DEF Sound, Recorded
  <2>2. CASE Counts(i)
    <3>1. quests'[i] = [quests[i] EXCEPT !.progress = @ + 1, !.consumed = @ \cup {event.id}]
      BY <1>9, <2>2
    <3>2. quests[i].progress + 1 \in Nat /\ quests[i].consumed \cup {event.id} \in SUBSET Nat
      BY <1>4, <2>1 DEF Quest
    <3>3. quests'[i] \in Quest
      BY <2>1, <3>1, <3>2 DEF Quest
    <3> QED BY <2>1, <2>2, <3>1, <3>3 DEF Quest
  <2>3. CASE ~ Counts(i)
    BY <1>9, <2>1, <2>3
  <2> QED BY <2>2, <2>3
<1>11. Recorded'
  <2>1. RecordTypes'
    BY <1>1, <1>8, <1>10 DEF Sound, Recorded, RecordTypes
  <2>2. ASSUME NEW g \in Givers PROVE IndexOf(g)'
    <3>1. {i \in Registered' : quests'[i].giver = g} = {i \in Registered : quests[i].giver = g}
      BY <1>8, <1>10
    <3> QED BY <1>1, <3>1 DEF Sound, Recorded, IndexOf
  <2>3. OutcomeOnce' /\ RewardExact' /\ IdsFresh'
    BY <1>1, <1>8 DEF Sound, Recorded, OutcomeOnce, RewardExact, IdsFresh, Handed
  <2> QED BY <1>8, <2>1, <2>2, <2>3 DEF Sound, Recorded
<1>12. WorldTypes' /\ EventTypes'
  BY <1>1, <1>3 DEF Sound, WorldTypes, EventTypes
<1>13. \A i \in Registered : Counts(i) =>
         /\ quests[i].state = "Active" /\ quests[i].holder = event.killer /\ quests[i].target = event.target
         /\ event.id \notin quests[i].consumed /\ quests[i].progress < quests[i].required
  BY DEF Counts, Matches, CountsFor
<1>14. QuestsAgree'
  BY ZenonT(60), <1>1, <1>8, <1>10, <1>13 DEF Sound, Credited, QuestsAgree
<1>15. CreditExact'
  <2>1. SUFFICES ASSUME NEW i \in Registered
                 PROVE  /\ quests'[i].progress = Cardinality(quests'[i].consumed)
                        /\ quests'[i].progress <= quests'[i].required
                        /\ \A e \in quests'[i].consumed :
                             [id |-> e, killer |-> quests'[i].holder, target |-> quests'[i].target] \in published
    BY <1>1, <1>8 DEF CreditExact
  <2>2. /\ quests[i].progress = Cardinality(quests[i].consumed) /\ quests[i].progress <= quests[i].required
        /\ \A e \in quests[i].consumed :
             [id |-> e, killer |-> quests[i].holder, target |-> quests[i].target] \in published
    BY DEF Sound, Credited, CreditExact
  <2>3. CASE Counts(i)
    <3>1. IsFiniteSet(quests[i].consumed)
      BY DEF Sound, Credited, EventsInOrder
    <3>2. Cardinality(quests[i].consumed \cup {event.id}) = Cardinality(quests[i].consumed) + 1
      BY <1>13, <2>3, <3>1, FS_AddElement
    <3>3. quests[i].progress \in Nat /\ quests[i].required \in Nat
      BY <1>10 DEF Quest
    <3>4. [id |-> event.id, killer |-> quests[i].holder, target |-> quests[i].target] \in published
      BY <1>4, <1>13, <2>3
    <3> QED BY <1>10, <1>13, <2>2, <2>3, <3>2, <3>3, <3>4
  <2>4. CASE ~ Counts(i)
    BY <1>10, <2>2, <2>4
  <2> QED BY <2>3, <2>4
<1>16. Observed'
  BY <1>1 DEF Sound, Credited, Observed
<1>17. EventsInOrder'
  <2>1. \A n \in 1..(N-1) : drained'[n] \in published /\ drained'[n].id < nextEvent
    BY <1>3 DEF Sound, Credited, EventsInOrder
  <2>2. \A m, n \in 1..(N-1) : m < n => drained'[m].id < drained'[n].id
    <3>1. SUFFICES ASSUME NEW m \in 1..(N-1), NEW n \in 1..(N-1), m < n
                   PROVE  drained[m+1].id < drained[n+1].id
      BY <1>3
    <3>2. m + 1 \in 1..N /\ n + 1 \in 1..N /\ m + 1 < n + 1
      BY <1>3, <3>1
    <3> QED BY <1>3, <3>2 DEF Sound, Credited, EventsInOrder
  <2>3. \A m \in 1..(N-1), n \in DOMAIN pending : drained'[m].id < pending[n].id
    BY <1>3 DEF Sound, Credited, EventsInOrder
  <2>4. ASSUME NEW i \in Registered, NEW e \in quests'[i].consumed
        PROVE  /\ e < nextEvent
               /\ \A n \in DOMAIN pending : e < pending[n].id
               /\ \A n \in 1..(N-1) : e < drained'[n].id
    <3>1. CASE e \in quests[i].consumed
      BY <1>3, <3>1 DEF Sound, Credited, EventsInOrder
    <3>2. CASE e = event.id
      BY <1>4, <1>5, <1>6, <3>2
    <3> QED BY <1>10, <3>1, <3>2
  <2>5. ASSUME NEW i \in Registered PROVE IsFiniteSet(quests'[i].consumed)
    <3>1. IsFiniteSet(quests[i].consumed)
      BY DEF Sound, Credited, EventsInOrder
    <3>2. IsFiniteSet(quests[i].consumed \cup {event.id})
      BY <3>1, FS_AddElement
    <3> QED BY <1>10, <3>1, <3>2
  <2>6. /\ \A n \in DOMAIN pending : pending[n] \in published /\ pending[n].id < nextEvent
        /\ \A m, n \in DOMAIN pending : m < n => pending[m].id < pending[n].id
    BY DEF Sound, Credited, EventsInOrder
  <2> QED BY <1>1, <1>3, <1>8, <2>1, <2>2, <2>3, <2>4, <2>5, <2>6 DEF EventsInOrder
<1>18. NoCreditLost'
  <2>1. SUFFICES ASSUME NEW i \in Registered, quests[i].state = "Active",
                        latest < quests[i].expires, dropped = seenDropped
                 PROVE  \/ quests'[i].progress + Due(quests'[i], drained') + Due(quests'[i], pending) >= quests[i].required
                        \/ quests'[i].progress + Due(quests'[i], drained') + Due(quests'[i], pending) >= history[i].earned
    BY <1>1, <1>8, <1>10 DEF NoCreditLost
  <2>2. \/ quests[i].progress + Due(quests[i], drained) + Due(quests[i], pending) >= quests[i].required
        \/ quests[i].progress + Due(quests[i], drained) + Due(quests[i], pending) >= history[i].earned
    BY <2>1 DEF Sound, Credited, NoCreditLost
  <2>3. Due(quests'[i], drained') = Due(quests[i], drained') /\ Due(quests'[i], pending) = Due(quests[i], pending)
    <3>1. quests'[i].state = quests[i].state /\ quests'[i].holder = quests[i].holder /\ quests'[i].target = quests[i].target
      BY <1>10
    <3> QED BY <3>1, SameDue
  <2>4. Due(quests[i], drained) = Due(quests[i], drained') + (IF Matches(quests[i], event) THEN 1 ELSE 0)
    BY <1>D
  <2>5. /\ quests[i].progress \in Nat /\ quests[i].required \in Nat /\ quests[i].expires \in Nat
        /\ Due(quests[i], pending) \in Nat /\ Due(quests[i], drained') \in Nat
        /\ history[i].earned \in Nat
    <3>1. history[i] \in [outcomes : Seq(Outcomes), promised : Nat, paid : Int, earned : Nat]
      BY <1>8, Types DEF Sound, Recorded
    <3> QED BY <1>2, <1>3, <1>10, <3>1, DueIsCount DEF Quest
  <2>6. quests'[i].progress = IF Counts(i) THEN quests[i].progress + 1 ELSE quests[i].progress
    BY <1>10
  <2>7. CASE Matches(quests[i], event)
    <3>1. ~ IsExpired(quests[i])
      <4>1. now <= latest /\ now \in Nat /\ latest \in Nat
        BY QuestAssumption DEF Sound, Credited, Observed, WorldTypes
      <4> QED BY <2>1, <2>5, <4>1 DEF IsExpired
    <3>2. event.id \notin quests[i].consumed
      BY <1>4, <1>7
    <3>3. CASE quests[i].progress < quests[i].required
      <4>1. Counts(i)
        BY <2>7, <3>1, <3>2, <3>3 DEF Counts, CountsFor
      <4> QED BY <2>2, <2>3, <2>4, <2>5, <2>6, <2>7, <4>1
    <3>4. CASE ~ (quests[i].progress < quests[i].required)
      BY <2>3, <2>5, <2>6, <3>4
    <3> QED BY <3>3, <3>4
  <2>8. CASE ~ Matches(quests[i], event)
    <3>1. ~ Counts(i)
      BY <2>8 DEF Counts
    <3> QED BY <2>2, <2>3, <2>4, <2>5, <2>6, <2>8, <3>1
  <2> QED BY <2>7, <2>8
<1> QED BY <1>11, <1>12, <1>14, <1>15, <1>16, <1>17, <1>18 DEF Sound, Credited

---------------------------------------------------------------------------
(* The theorems                                                            *)

LEMMA NextSound == Sound /\ [Next]_vars => Sound'
<1> SUFFICES ASSUME Sound, [Next]_vars PROVE Sound'
  OBVIOUS
<1>1. CASE UNCHANGED vars
  <2>1. /\ UNCHANGED registryVars
        /\ UNCHANGED <<quests, byGiver, nextId, history, cursor, highWater, pending, nextEvent, dropped,
                       published, seenDropped, drained, updating, testArmed, now, latest, givers>>
    BY <1>1 DEF vars, registryVars, scanVars, busVars, updateVars, worldVars
  <2>2. Recorded'
    BY <2>1, RecordedStays DEF Sound
  <2>3. WorldTypes' /\ EventTypes'
    BY <2>1 DEF Sound, WorldTypes, EventTypes
  <2>4. Credited'
    <3>1. now' <= latest' /\ latest <= latest' /\ Registered' = Registered
      BY <2>1, QuestAssumption DEF Sound, Credited, Observed, WorldTypes, Registered
    <3> QED BY <2>1, <2>3, <3>1, CreditedStays DEF Sound, Recorded
  <2> QED BY <2>2, <2>3, <2>4 DEF Sound
<1>2. CASE \E t \in Times : Clock(t)
  BY <1>2, ClockStep
<1>3. CASE \E g \in Givers : AtGiver(g)
  <2>1. PICK g \in Givers : AtGiver(g)
    BY <1>3
  <2>2. CASE GiverLeaves(g) \/ \E guid \in 1..MaxGuid : GiverReturns(g, guid)
    BY <2>2, GiverStep
  <2>3. CASE \E target \in Targets, required \in RequiredCounts, reward \in Rewards,
               expiry \in Expiries : CreateDynamicQuestOffer(g, target, required, reward, expiry)
    BY <2>3, OfferStep
  <2>4. CASE \E p \in Players : AcceptDynamicQuestForPlayer(g, p)
    BY <2>4, AcceptStep
  <2>5. CASE \E p \in Players, balance \in Balances : CompleteDynamicQuestForPlayer(g, p, balance)
    BY <2>5, TurnInStep
  <2> QED BY <2>1, <2>2, <2>3, <2>4, <2>5 DEF AtGiver
<1>4. CASE \E p \in Players, target \in Targets : Kill(p, target)
  BY <1>4, KillStep
<1>5. CASE Update
  BY <1>5, DrainStep, ProcessStep, ReclaimStep DEF Update
<1>6. CASE TryRunTestDynamicQuestKillCreditLoss
  BY <1>6, TestHookStep
<1>7. CASE RunDynamicQuestMaintenance
  BY <1>7, MaintenanceStep
<1> QED BY <1>1, <1>2, <1>3, <1>4, <1>5, <1>6, <1>7 DEF Next

\* The inductive invariant: the registry, its index and the history of every
\* quest agree, and events are credited in the order of their ids.
THEOREM QuestsSound == Spec => []Sound
<1> QED BY InitSound, NextSound, PTL DEF Spec

\* The index by giver lists the registered quests of each giver, oldest first,
\* through every way a quest leaves (DynamicQuestRegistry::Remove).
THEOREM QuestIndex == Spec => []IndexExact
<1> QED BY QuestsSound, SoundMeans, PTL

\* A quest ends once, with one outcome, and its id never comes back
\* (AdvanceDynamicQuestIdCounter stops at the last one).
THEOREM QuestOutcome == Spec => []OutcomeOnce
<1> QED BY QuestsSound, SoundMeans, PTL

\* Whatever scripts make of a payment and of its reversal, a quest has paid its
\* reward when it is completed and nothing before (CompleteDynamicQuestForPlayer).
THEOREM QuestReward == Spec => []RewardExact
<1> QED BY QuestsSound, SoundMeans, PTL

\* Progress counts the holder's kills of the right creature, each once
\* (ApplyDynamicQuestProgress).
THEOREM QuestCredit == Spec => []CreditExact
<1> QED BY QuestsSound, SoundMeans, PTL

\* A dropped kill never leaves an active quest short of a credit
\* (DynamicQuestKillEventBus, ReclaimDynamicQuestsAfterKillCreditLoss).
THEOREM QuestKillCredit == Spec => []KillCreditKept
<1> QED BY QuestsSound, SoundMeans, PTL

LEMMA SoundShows == Sound => ShownActionable /\ LiveQuestShown
<1> SUFFICES ASSUME Sound PROVE ShownActionable /\ LiveQuestShown
  OBVIOUS
<1>0. Recorded
  BY DEF Sound
<1>1. ShownActionable
  <2>1. SUFFICES ASSUME NEW g \in Givers, NEW p \in Players, givers[g].available
                 PROVE  LET content == GossipContent(g, p)
                            q == quests[content.id]
                        IN /\ content.kind = "Offered" => GiverApplicable(q) /\ Acceptable(q)
                           /\ content.kind = "ReadyToTurnIn" =>
                                GiverApplicable(q) /\ Completable(q) /\ q.holder = p
                           /\ content.kind # "NoQuest" => HasLiveInstanceForGiver(g)
    BY DEF ShownActionable
  <2> DEFINE content == GossipContent(g, p)
             q == quests[content.id]
             live == {i \in Registered : quests[i].guid = givers[g].guid /\ ~IsExpired(quests[i])}
  <2>2. /\ content.kind # "NoQuest" =>
             /\ content.id \in Registered /\ q.giver = g
             /\ q.guid = givers[g].guid /\ ~ IsExpired(q)
        /\ content.kind = "Offered" => q.state = "Offered"
        /\ content.kind \in {"Active", "ReadyToTurnIn"} => q.state = "Active" /\ q.holder = p
        /\ content.kind = "ReadyToTurnIn" => IsObjectiveComplete(q)
    BY <1>0, ShownQuest
  <2>3. ASSUME content.kind # "NoQuest" PROVE HasLiveInstanceForGiver(g)
    <3>1. content.id \in live /\ content.id \in Registered /\ quests[content.id].giver = g
      BY <2>2, <2>3
    <3>2. FirstOf(g, live) # 0
      <4> HIDE DEF live, content
      <4> QED BY <1>0, <3>1, FirstFound
    <3> QED BY <3>2 DEF HasLiveInstanceForGiver
  <2> HIDE DEF content
  <2> QED BY <2>1, <2>2, <2>3 DEF GiverApplicable, Acceptable, Completable, content
<1>2. LiveQuestShown
  <2>1. SUFFICES ASSUME NEW i \in Registered, quests[i].state = "Active", ~IsExpired(quests[i]),
                        quests[i].guid = givers[quests[i].giver].guid
                 PROVE  GossipContent(quests[i].giver, quests[i].holder).kind \in {"Active", "ReadyToTurnIn"}
    BY DEF LiveQuestShown
  <2> DEFINE g == quests[i].giver
             p == quests[i].holder
             a == FindActiveByGiverAndPlayer(g, p)
  <2>2. g \in Givers
    BY <1>0, Types DEF Recorded, Quest
  <2>3. i \in LiveHeldBy(g, p)
    BY <2>1 DEF LiveHeldBy, HeldBy
  <2>4. /\ FirstOf(g, LiveHeldBy(g, p)) # 0
        /\ FirstOf(g, LiveHeldBy(g, p)) \in LiveHeldBy(g, p)
    BY <1>0, <2>2, <2>3, FirstFound
  <2>5. a # 0 /\ a \in LiveHeldBy(g, p)
    BY <2>4 DEF FindActiveByGiverAndPlayer
  <2>6. ~ IsExpired(quests[a])
    BY <2>5 DEF LiveHeldBy
  <2> HIDE DEF a
  <2>7. GossipContent(g, p) = [kind |-> IF IsObjectiveComplete(quests[a]) THEN "ReadyToTurnIn" ELSE "Active", id |-> a]
    BY <2>5, <2>6 DEF GossipContent, a
  <2> QED BY <2>7
<1> QED BY <1>1, <1>2

\* What a giver shows a player will be accepted (GetDynamicQuestGossipContent
\* against AcceptDynamicQuest and CompleteDynamicQuest).
THEOREM QuestsShown == Spec => []ShownActionable
<1> QED BY QuestsSound, SoundShows, PTL

\* A live quest is shown to its holder although an expired one of the same giver
\* may stand before it (FindActiveByGiverAndPlayer).
THEOREM LiveQuests == Spec => []LiveQuestShown
<1> QED BY QuestsSound, SoundShows, PTL
=============================================================================
