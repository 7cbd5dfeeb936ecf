-------------------------- MODULE CoalitionsProofs --------------------------
(***************************************************************************)
(* Automatic coalitions for any agents, profiles, sizes and ids, whichever *)
(* operations fail and in whatever order they complete.                    *)
(*                                                                         *)
(* A completion first changes the registry and then submits the next       *)
(* operation of its chain, looking at the registry as it now is.  Between  *)
(* the two the attempt has no operation.  So the invariant is stated of a  *)
(* registry, operations and attempts (Sound), is shown to survive every    *)
(* elementary change, and only the end of a step adds that each attempt    *)
(* has its operation.                                                      *)
(***************************************************************************)
EXTENDS Coalitions, SequenceTheorems, FiniteSetTheorems, TLAPS

Record == [profile : ProfileIds, members : SUBSET Agents]
Attempt == [members : Seq(Agents), next : Nat \ {0}, group : 0..TopId]

\* The members that the chain of an attempt has joined so far.
Joined(at) == Range(SubSeq(at.members, 1, at.next - 1))

\* A submitted operation can still be done as it was asked for: nothing else
\* changes its group, and it is the step its attempt has reached.
Fits(gs, as, op) ==
  /\ op \in AllOps
  /\ op.do # "create" => op.group \in DOMAIN gs
  /\ op.do = "create" =>
       /\ op.group = 0 /\ op.by \in DOMAIN as
       /\ as[op.by].group = 0 /\ as[op.by].next = 1
  /\ op.do = "join" =>
       /\ op.agent \in Agents /\ op.by # "maintenance"
       /\ Cardinality(gs[op.group].members) < MaxMembers
       /\ op.agent \in Manual \/ (op.agent \notin Grouped(gs) /\ op.by \in DOMAIN as)
       /\ op.by \in DOMAIN as => /\ as[op.by].next <= Len(as[op.by].members)
                                 /\ op.agent = as[op.by].members[as[op.by].next]
  /\ op.do = "leave" => op.by \in {"maintenance", "manual"}
  /\ op.do = "dissolve" => op.by # "manual"
  /\ op.by \in ProfileIds => op.by \in DOMAIN as /\ as[op.by].group = op.group

\* The groups that the registry holds; automatic policies alone put no agent into two.
Groups(gs, n) ==
  /\ n \in 1..(TopId + 1)
  /\ DOMAIN gs \subseteq 1..(n - 1)
  /\ \A g \in DOMAIN gs : gs[g] \in Record /\ Cardinality(gs[g].members) <= MaxMembers
  /\ \A a \in Agents \ Manual : \A g, h \in DOMAIN gs :
       a \in gs[g].members /\ a \in gs[h].members => g = h

\* The attempts are for different agents, and for different groups.
Attempts(gs, as) ==
  /\ DOMAIN as \subseteq ProfileIds
  /\ \A p \in DOMAIN as :
       /\ as[p] \in Attempt
       /\ as[p].group # 0 => /\ as[p].group \in DOMAIN gs
                             /\ gs[as[p].group].members = Joined(as[p])
  /\ \A p, q \in DOMAIN as : p # q =>
       /\ Range(as[p].members) \intersect Range(as[q].members) = {}
       /\ as[p].group # 0 => as[p].group # as[q].group

\* One operation for each group, and one for each attempt.
OneEach(os) ==
  \A o, q \in os :
    (o.group = q.group /\ o.group # 0) \/ (o.by = q.by /\ o.by \in ProfileIds) => o = q

Sound(gs, os, as, n) ==
  /\ Groups(gs, n) /\ Attempts(gs, as)
  /\ \A op \in os : Fits(gs, as, op)
  /\ OneEach(os)

\* An attempt waits for its operation.
Driven == \A p \in InFlight : \E op \in ops : op.by = p

Timers == due \subseteq ProfileIds /\ favored \in ProfileIds

Inv ==
  /\ Sound(groups, ops, attempts, nextId)
  /\ Driven /\ ReservedExact /\ MaintainingExact /\ Timers

---------------------------------------------------------------------------
(* Constants and kinds of operations *)

LEMMA ConstantFacts ==
  /\ Profiles[1] \in ProfileIds
  /\ \A p \in ProfileIds : \E q \in ProfileIds : q # p
  /\ "maintenance" \notin ProfileIds /\ "manual" \notin ProfileIds
  /\ TopId \in Nat /\ TopId > 0 /\ MaxMembers \in Nat
  /\ \A p \in ProfileIds : Recognizes[p] \in SUBSET Agents
  /\ IsFiniteSet(Agents) /\ NoAgent \notin Agents /\ Manual \in SUBSET Agents
<1>1. /\ Profiles \in Seq(ProfileIds) /\ Len(Profiles) = 2 /\ Profiles[1] # Profiles[2]
  BY CoalitionConstants
<1>2. Profiles[1] \in ProfileIds /\ Profiles[2] \in ProfileIds
  BY <1>1
<1>3. \A p \in ProfileIds : \E q \in ProfileIds : q # p
  BY <1>1, <1>2
<1>4. /\ "maintenance" \notin ProfileIds /\ "manual" \notin ProfileIds
      /\ TopId \in Nat /\ TopId > 0 /\ MaxMembers \in Nat
      /\ IsFiniteSet(Agents) /\ NoAgent \notin Agents /\ Manual \in SUBSET Agents
  BY CoalitionConstants
<1>5. \A p \in ProfileIds : Recognizes[p] \in SUBSET Agents
  BY CoalitionConstants
<1> QED BY <1>2, <1>3, <1>4, <1>5

\* Joining one more member of the chain.
LEMMA JoinedNext ==
  ASSUME NEW at \in Attempt, at.next <= Len(at.members)
  PROVE  /\ Joined([at EXCEPT !.next = @ + 1]) = Joined(at) \cup {at.members[at.next]}
         /\ [at EXCEPT !.next = @ + 1] \in Attempt
         /\ at.members[at.next] \in Agents /\ at.members[at.next] \in Range(at.members)
<1> DEFINE m == at.members  k == at.next
<1>1. m \in Seq(Agents) /\ k \in Nat /\ k > 0 /\ k <= Len(m) /\ Len(m) \in Nat
  BY DEF Attempt
<1>2. [at EXCEPT !.next = @ + 1] \in Attempt
  BY DEF Attempt
<1>3. [at EXCEPT !.next = @ + 1].members = m /\ [at EXCEPT !.next = @ + 1].next = k + 1
  BY DEF Attempt
<1>4. DOMAIN m = 1..Len(m) /\ \A i \in 1..Len(m) : m[i] \in Agents
  BY <1>1
<1> HIDE DEF m, k
<1>5. ASSUME NEW j \in 0..Len(m)
      PROVE  Range(SubSeq(m, 1, j)) = {m[i] : i \in 1..j}
  <2>1. /\ SubSeq(m, 1, j) \in Seq(Agents)
        /\ Len(SubSeq(m, 1, j)) = j
        /\ \A i \in 1..j : SubSeq(m, 1, j)[i] = m[i]
    BY <1>1, <1>4
  <2>2. DOMAIN SubSeq(m, 1, j) = 1..j
    BY <2>1, <1>1
  <2> QED BY <2>1, <2>2 DEF Range
<1>6. Range(SubSeq(m, 1, k)) = {m[i] : i \in 1..k} /\ Range(SubSeq(m, 1, k - 1)) = {m[i] : i \in 1..(k - 1)}
  BY <1>1, <1>5
<1>7. {m[i] : i \in 1..k} = {m[i] : i \in 1..(k - 1)} \cup {m[k]}
  BY <1>1
<1>8. (k + 1) - 1 = k
  BY <1>1
<1>9. Joined([at EXCEPT !.next = @ + 1]) = Joined(at) \cup {m[k]}
  BY <1>3, <1>6, <1>7, <1>8 DEF Joined, m, k
<1>10. m[k] \in Agents /\ m[k] \in Range(m)
  BY <1>1, <1>4 DEF Range
<1> QED BY <1>2, <1>9, <1>10 DEF m, k

LEMMA AttemptTypes ==
  ASSUME NEW at \in Attempt
  PROVE  /\ at.members \in Seq(Agents) /\ Len(at.members) \in Nat
         /\ at.next \in Nat /\ at.next > 0 /\ at.group \in 0..TopId
BY DEF Attempt

\* A chain is over, or has a next member.
LEMMA OverOrNext ==
  ASSUME NEW at \in Attempt
  PROVE  ~ (at.next > Len(at.members)) <=> at.next <= Len(at.members)
<1>1. at.next \in Nat /\ Len(at.members) \in Nat
  BY AttemptTypes
<1> QED BY <1>1

\* At the beginning nobody has joined.
LEMMA JoinedNobody ==
  ASSUME NEW at \in Attempt, at.next = 1
  PROVE  Joined(at) = {}
<1>1. at.members \in Seq(Agents)
  BY DEF Attempt
<1>2. SubSeq(at.members, 1, 0) = <<>>
  BY SubSeqEmpty
<1>3. Range(<<>>) = {}
  BY DEF Range
<1>4. at.next - 1 = 0
  OBVIOUS
<1>5. SubSeq(at.members, 1, at.next - 1) = <<>>
  BY <1>2, <1>4
<1> QED BY <1>3, <1>5 DEF Joined

\* A group with one member more.
LEMMA OneMore ==
  ASSUME NEW M \in SUBSET Agents, NEW a, Cardinality(M) < MaxMembers
  PROVE  Cardinality(M \cup {a}) <= MaxMembers
<1>1. IsFiniteSet(M) /\ Cardinality(M) \in Nat /\ MaxMembers \in Nat
  BY ConstantFacts, FS_Subset, FS_CardinalityType
<1>2. Cardinality(M \cup {a}) = IF a \in M THEN Cardinality(M) ELSE Cardinality(M) + 1
  BY <1>1, FS_AddElement
<1> QED BY <1>1, <1>2

\* And with one less.
LEMMA OneLess ==
  ASSUME NEW M \in SUBSET Agents, NEW a, Cardinality(M) <= MaxMembers
  PROVE  Cardinality(M \ {a}) <= MaxMembers
<1>1. IsFiniteSet(M) /\ Cardinality(M) \in Nat /\ MaxMembers \in Nat
  BY ConstantFacts, FS_Subset, FS_CardinalityType
<1>2. Cardinality(M \ {a}) = IF a \in M THEN Cardinality(M) - 1 ELSE Cardinality(M)
  BY <1>1, FS_RemoveElement
<1> QED BY <1>1, <1>2

---------------------------------------------------------------------------
(* The elementary changes *)

\* Operations are answered.
LEMMA Answer ==
  ASSUME NEW gs, NEW os, NEW as, NEW n, Sound(gs, os, as, n), NEW rest \in SUBSET os
  PROVE  Sound(gs, rest, as, n)
BY DEF Sound, OneEach

\* An operation is submitted.
LEMMA Submit ==
  ASSUME NEW gs, NEW os, NEW as, NEW n, Sound(gs, os, as, n),
         NEW op, Fits(gs, as, op),
         op.group = 0 \/ \A o \in os : o.group # op.group,
         op.by \in ProfileIds => \A o \in os : o.by # op.by
  PROVE  Sound(gs, os \cup {op}, as, n)
<1>1. \A o \in os \cup {op} : Fits(gs, as, o)
  BY DEF Sound
<1>2. OneEach(os \cup {op})
  BY DEF Sound, OneEach
<1> QED BY <1>1, <1>2 DEF Sound

\* An attempt whose operation is answered is given up.
LEMMA GiveUp ==
  ASSUME NEW gs, NEW os, NEW as, NEW n, Sound(gs, os, as, n),
         NEW p, \A o \in os : o.by # p
  PROVE  Sound(gs, os, Without(as, p), n)
<1> DEFINE bs == Without(as, p)
<1>1. DOMAIN bs = DOMAIN as \ {p} /\ \A q \in DOMAIN bs : bs[q] = as[q]
  BY DEF Without
<1> HIDE DEF bs
<1>2. Attempts(gs, bs)
  BY <1>1 DEF Sound, Attempts
<1>3. ASSUME NEW o \in os PROVE Fits(gs, bs, o)
  <2>1. Fits(gs, as, o) /\ o.by # p
    BY DEF Sound
  <2>2. o.by \in DOMAIN as <=> o.by \in DOMAIN bs
    BY <1>1, <2>1
  <2>3. o.by \in DOMAIN bs => bs[o.by] = as[o.by]
    BY <1>1
  <2> QED BY <2>1, <2>2, <2>3 DEF Fits
<1> QED BY <1>2, <1>3 DEF Sound, bs

\* An attempt that can stand beside the others.
Beside(gs, as, p, at) ==
  /\ p \in ProfileIds /\ p \notin DOMAIN as /\ at \in Attempt
  /\ at.group # 0 => at.group \in DOMAIN gs /\ gs[at.group].members = Joined(at)
  /\ \A q \in DOMAIN as : /\ Range(as[q].members) \intersect Range(at.members) = {}
                          /\ at.group # 0 => as[q].group # at.group

Extends(bs, as, p, at) ==
  /\ DOMAIN bs = DOMAIN as \cup {p} /\ bs[p] = at
  /\ \A q \in DOMAIN as : bs[q] = as[q]

\* An attempt is begun, or goes on where its operation left it.
LEMMA GoOn ==
  ASSUME NEW gs, NEW os, NEW as, NEW n, Sound(gs, os, as, n),
         NEW p, NEW at, Beside(gs, as, p, at), NEW bs, Extends(bs, as, p, at)
  PROVE  Sound(gs, os, bs, n)
<1>1. Attempts(gs, bs)
  <2>1. DOMAIN bs \subseteq ProfileIds
    BY DEF Sound, Attempts, Beside, Extends
  <2>2. \A q \in DOMAIN bs :
          /\ bs[q] \in Attempt
          /\ bs[q].group # 0 => bs[q].group \in DOMAIN gs /\ gs[bs[q].group].members = Joined(bs[q])
    BY DEF Sound, Attempts, Beside, Extends
  <2>3. ASSUME NEW q \in DOMAIN bs, NEW r \in DOMAIN bs, q # r
        PROVE  /\ Range(bs[q].members) \intersect Range(bs[r].members) = {}
               /\ bs[q].group # 0 => bs[q].group # bs[r].group
    <3>1. CASE q \in DOMAIN as /\ r \in DOMAIN as
      BY <2>3, <3>1 DEF Sound, Attempts, Extends
    <3>2. CASE q = p
      <4>1. bs[q] = at /\ bs[r] = as[r] /\ r \in DOMAIN as
        BY <2>3, <3>2 DEF Extends
      <4> QED BY <4>1 DEF Beside
    <3>3. CASE r = p
      <4>1. bs[r] = at /\ bs[q] = as[q] /\ q \in DOMAIN as
        BY <2>3, <3>3 DEF Extends
      <4> QED BY <4>1 DEF Beside
    <3> QED BY <3>1, <3>2, <3>3 DEF Extends
  <2> QED BY <2>1, <2>2, <2>3 DEF Attempts
<1>2. ASSUME NEW o \in os PROVE Fits(gs, bs, o)
  <2>1. Fits(gs, as, o) /\ o.by # p
    BY DEF Sound, Fits, Beside
  <2>2. o.by \in DOMAIN as <=> o.by \in DOMAIN bs
    BY <2>1 DEF Extends
  <2>3. o.by \in DOMAIN as => bs[o.by] = as[o.by]
    BY DEF Extends
  <2> QED BY <2>1, <2>2, <2>3 DEF Fits
<1> QED BY <1>1, <1>2 DEF Sound

\* Members join or leave a group on which nothing else is under way.
LEMMA ChangeMembers ==
  ASSUME NEW gs, NEW os, NEW as, NEW n, Sound(gs, os, as, n),
         NEW g \in DOMAIN gs, NEW M \in SUBSET Agents, Cardinality(M) <= MaxMembers,
         \A o \in os : o.group # g,
         \A p \in DOMAIN as : as[p].group # g,
         \A a \in (M \ gs[g].members) \ Manual :
           a \notin Grouped(gs) /\ \A o \in os : o.do = "join" => o.agent # a
  PROVE  Sound([gs EXCEPT ![g].members = M], os, as, n)
<1> DEFINE hs == [gs EXCEPT ![g].members = M]
<1>1. /\ DOMAIN hs = DOMAIN gs
      /\ \A h \in DOMAIN gs : h # g => hs[h] = gs[h]
      /\ gs[g] \in Record => hs[g] \in Record /\ hs[g].members = M
  BY DEF Record
<1>2. gs[g] \in Record
  BY DEF Sound, Groups
<1> HIDE DEF hs
<1>3. \A a \in Grouped(gs) : \E h \in DOMAIN gs : a \in gs[h].members
  BY DEF Grouped
<1>4. \A a, h : h \in DOMAIN gs /\ a \in gs[h].members => a \in Grouped(gs)
  BY DEF Grouped
<1>5. \A a \in Grouped(hs) : a \in Grouped(gs) \/ a \in M \ gs[g].members
  BY <1>1, <1>2, <1>4 DEF Grouped
<1>6. Groups(hs, n)
  <2>1. \A h \in DOMAIN hs : hs[h] \in Record /\ Cardinality(hs[h].members) <= MaxMembers
    BY <1>1, <1>2 DEF Sound, Groups
  <2>2. ASSUME NEW a \in Agents \ Manual, NEW h \in DOMAIN hs, NEW k \in DOMAIN hs,
               a \in hs[h].members, a \in hs[k].members
        PROVE  h = k
    <3>1. CASE a \in gs[g].members \/ a \notin M
      BY <1>1, <1>2, <2>2, <3>1 DEF Sound, Groups
    <3>2. CASE a \in M \ gs[g].members
      <4>1. a \notin Grouped(gs)
        BY <2>2, <3>2
      <4>2. h = g /\ k = g
        BY <1>1, <1>4, <2>2, <4>1
      <4> QED BY <4>2
    <3> QED BY <3>1, <3>2
  <2> QED BY <1>1, <2>1, <2>2 DEF Sound, Groups
<1>7. Attempts(hs, as)
  BY <1>1 DEF Sound, Attempts
<1>8. ASSUME NEW o \in os PROVE Fits(hs, as, o)
  <2>1. Fits(gs, as, o) /\ o.group # g
    BY DEF Sound
  <2>2. o.group \in DOMAIN gs => hs[o.group] = gs[o.group]
    BY <1>1, <2>1
  <2>3. o.do = "join" /\ o.agent \notin Manual /\ o.agent \notin Grouped(gs)
          => o.agent \notin Grouped(hs)
    BY <1>5
  <2> QED BY <1>1, <2>1, <2>2, <2>3 DEF Fits
<1> QED BY <1>6, <1>7, <1>8 DEF Sound, hs

\* A group is created.
LEMMA NewGroup ==
  ASSUME NEW gs, NEW os, NEW as, NEW n, Sound(gs, os, as, n), n <= TopId, NEW p \in ProfileIds
  PROVE  /\ Sound(With(gs, n, [profile |-> p, members |-> {}]), os, as, n + 1)
         /\ n \in 1..TopId /\ n \notin DOMAIN gs /\ \A q \in DOMAIN as : as[q].group # n
         /\ n \in DOMAIN With(gs, n, [profile |-> p, members |-> {}])
         /\ With(gs, n, [profile |-> p, members |-> {}])[n].members = {}
<1> DEFINE hs == With(gs, n, [profile |-> p, members |-> {}])
<1>1. /\ n \in 1..TopId /\ n \notin DOMAIN gs
      /\ n + 1 \in 1..(TopId + 1) /\ DOMAIN gs \cup {n} \subseteq 1..((n + 1) - 1)
  BY ConstantFacts DEF Sound, Groups
<1>2. /\ DOMAIN hs = DOMAIN gs \cup {n} /\ hs[n] = [profile |-> p, members |-> {}]
      /\ \A h \in DOMAIN gs : hs[h] = gs[h]
  BY <1>1 DEF With
<1> HIDE DEF hs
<1>3. hs[n] \in Record /\ hs[n].members = {} /\ Cardinality({}) <= MaxMembers
  BY <1>2, FS_EmptySet, ConstantFacts DEF Record
<1>4. Groups(hs, n + 1)
  <2>1. \A h \in DOMAIN hs : hs[h] \in Record /\ Cardinality(hs[h].members) <= MaxMembers
    BY <1>2, <1>3 DEF Sound, Groups
  <2>2. \A a \in Agents \ Manual : \A h, k \in DOMAIN hs :
          a \in hs[h].members /\ a \in hs[k].members => h = k
    BY <1>2, <1>3 DEF Sound, Groups
  <2> QED BY <1>1, <1>2, <2>1, <2>2 DEF Groups
<1>5. Attempts(hs, as)
  BY <1>2 DEF Sound, Attempts
<1>6. Grouped(hs) \subseteq Grouped(gs)
  BY <1>2, <1>3 DEF Grouped
<1>7. ASSUME NEW o \in os PROVE Fits(hs, as, o)
  <2>1. Fits(gs, as, o)
    BY DEF Sound
  <2> QED BY <1>2, <1>6, <2>1 DEF Fits
<1>8. \A q \in DOMAIN as : as[q].group # n
  <2>1. \A q \in DOMAIN as : as[q].group # 0 => as[q].group \in DOMAIN gs
    BY DEF Sound, Attempts
  <2>2. n # 0
    BY <1>1, ConstantFacts
  <2> QED BY <1>1, <2>1, <2>2
<1>9. Sound(hs, os, as, n + 1)
  BY <1>4, <1>5, <1>7 DEF Sound
<1> QED BY <1>1, <1>2, <1>3, <1>8, <1>9 DEF hs

\* A group on which nothing is under way is dissolved.
LEMMA DropGroup ==
  ASSUME NEW gs, NEW os, NEW as, NEW n, Sound(gs, os, as, n), NEW g,
         \A o \in os : o.group # g,
         \A p \in DOMAIN as : as[p].group # g
  PROVE  Sound(Without(gs, g), os, as, n)
<1> DEFINE hs == Without(gs, g)
<1>1. DOMAIN hs = DOMAIN gs \ {g} /\ \A h \in DOMAIN hs : hs[h] = gs[h]
  BY DEF Without
<1> HIDE DEF hs
<1>2. Groups(hs, n)
  BY <1>1 DEF Sound, Groups
<1>3. Attempts(hs, as)
  BY <1>1 DEF Sound, Attempts
<1>4. Grouped(hs) \subseteq Grouped(gs)
  BY <1>1 DEF Grouped
<1>5. ASSUME NEW o \in os PROVE Fits(hs, as, o)
  <2>1. Fits(gs, as, o) /\ o.group # g
    BY DEF Sound
  <2> QED BY <1>1, <1>4, <2>1 DEF Fits
<1> QED BY <1>2, <1>3, <1>5 DEF Sound, hs

---------------------------------------------------------------------------
(* The join chain *)

\* At most one operation, which p can submit next to those of os.
NextOf(gs, os, as, p, more) ==
  \A o \in more : /\ more = {o} /\ Fits(gs, as, o) /\ o.by = p
                  /\ \A q \in os : q.group # o.group

\* What a chain submits next, it can do: the next join, or the cleanup.
LEMMA StepFits ==
  ASSUME NEW gs, NEW os, NEW as, NEW n, Groups(gs, n),
         NEW p \in ProfileIds, p \in DOMAIN as, as[p] \in Attempt, as[p].group # 0,
         NEW more, more = JoinStep(p, as[p], gs, os) \/ more = Cleanup(p, as[p], gs, os)
  PROVE  NextOf(gs, os, as, p, more)
<1> SUFFICES ASSUME NEW o \in more
             PROVE  /\ more = {o} /\ Fits(gs, as, o) /\ o.by = p
                    /\ \A q \in os : q.group # o.group
  BY DEF NextOf
<1> DEFINE at == as[p]  g == as[p].group
<1>1. /\ g \in 0..TopId /\ at.next \in Nat /\ Len(at.members) \in Nat
      /\ p # "maintenance" /\ p # "manual"
  <2>1. g \in 0..TopId /\ at.next \in Nat /\ Len(at.members) \in Nat
    BY AttemptTypes
  <2>2. p # "maintenance" /\ p # "manual"
    BY ConstantFacts
  <2> QED BY <2>1, <2>2
<1>2. CASE o = Op("dissolve", g, NoAgent, p) /\ more = {o} /\ Free(gs, os, g)
  <2>1. /\ o \in AllOps /\ o.do = "dissolve" /\ o.group = g /\ o.agent = NoAgent /\ o.by = p
    BY <1>1, <1>2 DEF Op, AllOps
  <2>2. Fits(gs, as, o)
    BY <1>1, <1>2, <2>1 DEF Fits, Free
  <2> QED BY <1>2, <2>1, <2>2 DEF Free
<1>3. CASE /\ at.next <= Len(at.members) /\ MayJoin(gs, os, g, at.members[at.next])
           /\ more = {o} /\ o = Op("join", g, at.members[at.next], p)
  <2>1. at.members[at.next] \in Agents
    BY <1>3, JoinedNext
  <2>2. /\ o \in AllOps /\ o.do = "join" /\ o.group = g /\ o.by = p
        /\ o.agent = at.members[at.next]
    BY <1>1, <1>3, <2>1 DEF Op, AllOps
  <2>3. /\ Free(gs, os, g) /\ o.agent \notin Grouped(gs)
        /\ Cardinality(gs[g].members) < MaxMembers
    BY <1>3, <2>2 DEF MayJoin
  <2>4. Fits(gs, as, o)
    BY <1>1, <1>3, <2>1, <2>2, <2>3 DEF Fits, Free
  <2> QED BY <1>3, <2>2, <2>3, <2>4 DEF Free
<1>4. more = Cleanup(p, at, gs, os) => o = Op("dissolve", g, NoAgent, p) /\ more = {o} /\ Free(gs, os, g)
  BY DEF Cleanup
<1>5. \/ more = Cleanup(p, at, gs, os)
      \/ /\ at.next <= Len(at.members) /\ MayJoin(gs, os, g, at.members[at.next])
         /\ more = {Op("join", g, at.members[at.next], p)}
  <2>1. CASE at.next > Len(at.members)
    BY <2>1, <1>4 DEF JoinStep
  <2>2. CASE ~ (at.next > Len(at.members))
    <3>1. at.next <= Len(at.members)
      BY <2>2, OverOrNext
    <3> QED BY <2>2, <3>1, <1>4 DEF JoinStep
  <2> QED BY <2>1, <2>2
<1> QED BY <1>2, <1>3, <1>4, <1>5

LEMMA JoinStepFits ==
  ASSUME NEW gs, NEW os, NEW as, NEW n, Groups(gs, n),
         NEW p \in ProfileIds, p \in DOMAIN as, NEW at \in Attempt, as[p] = at, at.group # 0,
         NEW more, more = JoinStep(p, at, gs, os) \/ more = Cleanup(p, at, gs, os)
  PROVE  NextOf(gs, os, as, p, more)
<1>1. as[p] \in Attempt /\ as[p].group # 0
  OBVIOUS
<1>2. more = JoinStep(p, as[p], gs, os) \/ more = Cleanup(p, as[p], gs, os)
  OBVIOUS
<1> QED BY <1>1, <1>2, StepFits

---------------------------------------------------------------------------
(* Who is at work on a group *)

\* What the invariant says of an operation in flight.
LEMMA InFlightOp ==
  ASSUME Inv, NEW op \in ops
  PROVE  /\ Fits(groups, attempts, op)
         /\ InFlight \subseteq ProfileIds
         /\ \A o \in ops \ {op} : /\ op.group # 0 => o.group # op.group
                                  /\ op.by \in ProfileIds => o.by # op.by
         /\ op.do # "create" => op.group \in DOMAIN groups /\ op.group # 0
         /\ \A q \in InFlight : attempts[q].group = op.group /\ op.group # 0 => op.by = q
         /\ op.by \in InFlight => attempts[op.by] \in Attempt /\ attempts[op.by].group = op.group
<1>1. /\ Fits(groups, attempts, op) /\ InFlight \subseteq ProfileIds
      /\ \A o \in ops \ {op} : /\ op.group # 0 => o.group # op.group
                               /\ op.by \in ProfileIds => o.by # op.by
  BY DEF Inv, Sound, OneEach, Attempts, InFlight
<1>2. op.do # "create" => op.group \in DOMAIN groups /\ op.group # 0
  <2>1. DOMAIN groups \subseteq 1..(nextId - 1)
    BY DEF Inv, Sound, Groups
  <2> QED BY <1>1, <2>1 DEF Fits
<1>3. ASSUME NEW q \in InFlight, attempts[q].group = op.group, op.group # 0
      PROVE  op.by = q
  <2>1. PICK o \in ops : o.by = q
    BY DEF Inv, Driven
  <2>2. Fits(groups, attempts, o) /\ q \in ProfileIds
    BY <1>1 DEF Inv, Sound
  <2>3. o.group = op.group
    BY <1>3, <2>1, <2>2 DEF Fits
  <2> QED BY <1>1, <1>3, <2>1, <2>3
<1>4. op.by \in InFlight => attempts[op.by] \in Attempt /\ attempts[op.by].group = op.group
  BY <1>1 DEF Inv, Sound, Attempts, Fits, InFlight
<1> QED BY <1>1, <1>2, <1>3, <1>4

\* The marks of the maintenance without an operation that is answered.
LEMMA MarksOfOthers ==
  ASSUME Inv, NEW op \in ops
  PROVE  {o.group : o \in {r \in ops \ {op} : r.by = "maintenance"}} =
           IF op.by = "maintenance" THEN maintaining \ {op.group} ELSE maintaining
<1>1. maintaining = {o.group : o \in {r \in ops : r.by = "maintenance"}}
  BY DEF Inv, MaintainingExact
<1>2. op.by # "maintenance" =>
        {r \in ops \ {op} : r.by = "maintenance"} = {r \in ops : r.by = "maintenance"}
  OBVIOUS
<1>3. CASE op.by = "maintenance"
  <2>1. op.by \notin ProfileIds
    BY <1>3, ConstantFacts
  <2>2. op.do # "create"
    <3>1. Fits(groups, attempts, op) /\ InFlight \subseteq ProfileIds
      BY InFlightOp
    <3> QED BY <2>1, <3>1 DEF Fits, InFlight
  <2>3. \A o \in ops \ {op} : o.group # op.group
    BY <2>2, InFlightOp
  <2> QED BY <1>1, <1>3, <2>3
<1>4. CASE op.by # "maintenance"
  BY <1>1, <1>2, <1>4
<1> QED BY <1>3, <1>4

\* Without its operation, an attempt can be taken out.
LEMMA Interrupted ==
  ASSUME Inv, NEW op \in ops, op.by \in InFlight
  PROVE  /\ Sound(groups, ops \ {op}, Without(attempts, op.by), nextId)
         /\ \A q \in DOMAIN Without(attempts, op.by) :
              /\ q \in InFlight /\ q # op.by /\ Without(attempts, op.by)[q] = attempts[q]
              /\ op.group # 0 => Without(attempts, op.by)[q].group # op.group
<1>1. op.by \in ProfileIds /\ \A o \in ops \ {op} : o.by # op.by
  BY InFlightOp
<1>2. Sound(groups, ops \ {op}, attempts, nextId)
  BY Answer DEF Inv
<1>3. Sound(groups, ops \ {op}, Without(attempts, op.by), nextId)
  BY <1>1, <1>2, GiveUp
<1>4. ASSUME NEW q \in DOMAIN Without(attempts, op.by)
      PROVE  q \in InFlight /\ q # op.by /\ Without(attempts, op.by)[q] = attempts[q]
  BY <1>4 DEF Without, InFlight
<1>5. \A q \in InFlight : q # op.by /\ op.group # 0 => attempts[q].group # op.group
  BY InFlightOp
<1> QED BY <1>3, <1>4, <1>5

---------------------------------------------------------------------------
(* The end of a step *)

\* The operation op of attempt p is answered: the registry is gs, and the attempt,
\* now at, submits more or is over.
Continued(op, p, gs, n, at, more) ==
  /\ Sound(gs, ops \ {op}, Without(attempts, p), n)
  /\ at.members = attempts[p].members
  /\ NextOf(gs, ops \ {op}, [attempts EXCEPT ![p] = at], p, more)
  /\ more # {} => /\ at \in Attempt /\ at.group \in DOMAIN gs
                  /\ gs[at.group].members = Joined(at)
                  /\ \A q \in InFlight \ {p} : attempts[q].group # at.group
  /\ groups' = gs /\ nextId' = n /\ ops' = (ops \ {op}) \cup more
  /\ Proceed(p, at, more)
  /\ UNCHANGED <<due, favored>> /\ maintaining' = maintaining

\* The formation goes on with what it submits, or is over.
LEMMA Proceeds ==
  ASSUME Inv, NEW op \in ops, NEW p \in InFlight, op.by = p,
         NEW gs, NEW n, NEW at, NEW more, Continued(op, p, gs, n, at, more)
  PROVE  Inv'
<1>0. /\ Sound(gs, ops \ {op}, Without(attempts, p), n)
      /\ at.members = attempts[p].members
      /\ NextOf(gs, ops \ {op}, [attempts EXCEPT ![p] = at], p, more)
      /\ more # {} => /\ at \in Attempt /\ at.group \in DOMAIN gs
                      /\ gs[at.group].members = Joined(at)
                      /\ \A q \in InFlight \ {p} : attempts[q].group # at.group
      /\ groups' = gs /\ nextId' = n /\ ops' = (ops \ {op}) \cup more
      /\ Proceed(p, at, more)
      /\ due' = due /\ favored' = favored /\ maintaining' = maintaining
  BY DEF Continued
<1>1. p \in ProfileIds /\ \A o \in ops \ {op} : o.by # p
  BY InFlightOp
<1>2. /\ DOMAIN Without(attempts, p) = InFlight \ {p}
      /\ \A q \in InFlight \ {p} : Without(attempts, p)[q] = attempts[q]
  BY DEF Without, InFlight
<1>3. \A q \in InFlight \ {p} :
        Range(attempts[q].members) \cap Range(attempts[p].members) = {}
  BY DEF Inv, Sound, Attempts, InFlight
<1>4. \A q \in InFlight \ {p} : \E o \in ops \ {op} : o.by = q
  BY DEF Inv, Driven
<1>5. reserved = UNION {Range(attempts[q].members) : q \in InFlight}
  BY DEF Inv, ReservedExact
<1>6. MaintainingExact'
  <2>1. p # "maintenance"
    BY <1>1, ConstantFacts
  <2>2. {r \in ops' : r.by = "maintenance"} = {r \in ops \ {op} : r.by = "maintenance"}
    BY <1>0, <1>1, <2>1 DEF NextOf
  <2>3. {o.group : o \in {r \in ops \ {op} : r.by = "maintenance"}} = maintaining
    BY <2>1, MarksOfOthers
  <2> QED BY <1>0, <2>2, <2>3 DEF MaintainingExact
<1>7. Timers'
  BY <1>0 DEF Inv, Timers
<1>8. CASE more = {}
  <2>1. /\ attempts' = Without(attempts, p) /\ ops' = ops \ {op}
        /\ reserved' = reserved \ Range(attempts[p].members)
    BY <1>0, <1>8 DEF Proceed
  <2>2. InFlight' = InFlight \ {p} /\ \A q \in InFlight \ {p} : attempts'[q] = attempts[q]
    BY <1>2, <2>1 DEF InFlight
  <2>3. Sound(groups, ops, attempts, nextId)'
    BY <1>0, <2>1
  <2>4. Driven'
    BY <1>4, <2>1, <2>2 DEF Driven
  <2>5. ReservedExact'
    BY <1>3, <1>5, <2>1, <2>2 DEF ReservedExact
  <2> QED BY <1>6, <1>7, <2>3, <2>4, <2>5 DEF Inv
<1>9. CASE more # {}
  <2>1. attempts' = [attempts EXCEPT ![p] = at] /\ reserved' = reserved
    BY <1>0, <1>9 DEF Proceed
  <2>2. /\ InFlight' = InFlight /\ attempts'[p] = at
        /\ \A q \in InFlight \ {p} : attempts'[q] = attempts[q]
    BY <2>1 DEF InFlight
  <2>3. PICK o \in more : more = {o} /\ Fits(gs, attempts', o) /\ o.by = p
                          /\ (\A q \in ops \ {op} : q.group # o.group)
    BY <1>0, <1>9, <2>1 DEF NextOf
  <2>4. Sound(gs, ops \ {op}, attempts', n)
    <3>1. /\ at \in Attempt /\ at.group \in DOMAIN gs /\ gs[at.group].members = Joined(at)
          /\ \A q \in InFlight \ {p} : attempts[q].group # at.group
      BY <1>0, <1>9
    <3>2. \A q \in DOMAIN Without(attempts, p) :
            /\ Range(Without(attempts, p)[q].members) \cap Range(at.members) = {}
            /\ Without(attempts, p)[q].group # at.group
      BY <1>0, <1>2, <1>3, <3>1
    <3>3. /\ DOMAIN attempts' = DOMAIN Without(attempts, p) \cup {p}
          /\ \A q \in DOMAIN Without(attempts, p) : attempts'[q] = Without(attempts, p)[q]
          /\ p \notin DOMAIN Without(attempts, p)
      BY <1>2, <2>2 DEF InFlight
    <3>4. Beside(gs, Without(attempts, p), p, at)
      BY <1>1, <3>1, <3>2, <3>3 DEF Beside
    <3>5. Extends(attempts', Without(attempts, p), p, at)
      BY <2>2, <3>3 DEF Extends
    <3> QED BY <1>0, <3>4, <3>5, GoOn
  <2>5. Sound(gs, (ops \ {op}) \cup {o}, attempts', n)
    BY <1>1, <2>3, <2>4, Submit
  <2>6. Sound(groups, ops, attempts, nextId)'
    BY <1>0, <2>3, <2>5
  <2>7. Driven'
    BY <1>0, <1>4, <2>2, <2>3 DEF Driven
  <2>8. ReservedExact'
    <3>1. \A q \in InFlight : attempts'[q].members = attempts[q].members
      BY <1>0, <2>2
    <3> QED BY <1>5, <2>1, <2>2, <3>1 DEF ReservedExact
  <2> QED BY <1>6, <1>7, <2>6, <2>7, <2>8 DEF Inv
<1> QED BY <1>8, <1>9

\* The maintenance or a game master asks for something.
LEMMA Asked ==
  ASSUME Inv, NEW op, Fits(groups, attempts, op), op.by \notin ProfileIds,
         Free(groups, ops, op.group),
         ops' = ops \cup {op},
         maintaining' = IF op.by = "maintenance" THEN maintaining \cup {op.group} ELSE maintaining,
         UNCHANGED <<groups, nextId, attempts, reserved, due, favored>>
  PROVE  Inv'
<1>1. Sound(groups, ops \cup {op}, attempts, nextId)
  BY Submit DEF Inv, Free
<1>2. Sound(groups, ops, attempts, nextId)'
  BY <1>1
<1>3. Driven' /\ ReservedExact' /\ Timers'
  BY DEF Inv, Driven, ReservedExact, Timers, InFlight
<1>4. MaintainingExact'
  <2>1. maintaining = {o.group : o \in {r \in ops : r.by = "maintenance"}}
    BY DEF Inv, MaintainingExact
  <2>2. {r \in ops' : r.by = "maintenance"} =
          {r \in ops : r.by = "maintenance"} \cup IF op.by = "maintenance" THEN {op} ELSE {}
    OBVIOUS
  <2> QED BY <2>1, <2>2 DEF MaintainingExact
<1> QED BY <1>2, <1>3, <1>4 DEF Inv

\* And is answered.
LEMMA Answered ==
  ASSUME Inv, NEW op \in ops, op.by \notin ProfileIds,
         NEW gs, Sound(gs, ops \ {op}, attempts, nextId), groups' = gs,
         ops' = ops \ {op},
         maintaining' = IF op.by = "maintenance" THEN maintaining \ {op.group} ELSE maintaining,
         UNCHANGED <<nextId, attempts, reserved, due, favored>>
  PROVE  Inv'
<1>1. Sound(groups, ops, attempts, nextId)'
  OBVIOUS
<1>2. Driven'
  <2>1. \A q \in InFlight : q \in ProfileIds
    BY InFlightOp
  <2> QED BY <2>1 DEF Inv, Driven, InFlight
<1>3. ReservedExact' /\ Timers'
  BY DEF Inv, ReservedExact, Timers, InFlight
<1>4. MaintainingExact'
  BY MarksOfOthers DEF MaintainingExact
<1> QED BY <1>1, <1>2, <1>3, <1>4 DEF Inv

---------------------------------------------------------------------------
(* The actions of the formation *)

LEMMA CreatedInv ==
  ASSUME Inv, NEW op \in ops, NEW ok \in BOOLEAN, FormationCreated(op, ok)
  PROVE  Inv'
<1> DEFINE p == op.by
           at == [attempts[p] EXCEPT !.group = nextId]
           gs == With(groups, nextId, [profile |-> p, members |-> {}])
           others == ops \ {op}
           more == IF ok THEN JoinStep(p, at, gs, others) ELSE {}
           as == Without(attempts, p)
<1>1. /\ op.do = "create" /\ p \in InFlight /\ (ok => HasId)
      /\ groups' = IF ok THEN gs ELSE groups
      /\ nextId' = IF ok THEN nextId + 1 ELSE nextId
      /\ ops' = others \cup more /\ Proceed(p, at, more)
      /\ UNCHANGED <<due, favored>> /\ maintaining' = maintaining
  BY DEF FormationCreated
<1>2. /\ p \in ProfileIds /\ attempts[p] \in Attempt
      /\ attempts[p].group = 0 /\ attempts[p].next = 1
  BY <1>1, InFlightOp DEF Fits
<1>3. at.members = attempts[p].members /\ at.group = nextId /\ at.next = 1
  BY <1>2 DEF Attempt
<1>4. Sound(groups, others, as, nextId) /\ \A q \in DOMAIN as : q \in InFlight /\ as[q] = attempts[q]
  BY <1>1, Interrupted
<1>5. CASE ~ ok
  <2>1. groups' = groups /\ nextId' = nextId /\ more = {} /\ ops' = others \cup {} /\ Proceed(p, at, {})
    BY <1>1, <1>5
  <2>2. Continued(op, p, groups, nextId, at, {})
    BY <1>1, <1>3, <1>4, <2>1 DEF Continued, NextOf
  <2> QED BY <1>1, <2>2, Proceeds
<1>6. CASE ok
  <2>1. nextId <= TopId
    BY <1>1, <1>6 DEF HasId
  <2>2. /\ Sound(gs, others, as, nextId + 1) /\ nextId \in 1..TopId
        /\ nextId \in DOMAIN gs /\ gs[nextId].members = {}
        /\ \A q \in DOMAIN as : as[q].group # nextId
    BY <1>2, <1>4, <2>1, NewGroup
  <2>3. at \in Attempt
    BY <1>2, <2>2 DEF Attempt
  <2>4. Joined(at) = {}
    BY <1>3, <2>3, JoinedNobody
  <2>5. \A q \in InFlight \ {p} : attempts[q].group # at.group
    BY <1>3, <2>2 DEF Without, InFlight
  <2> DEFINE bs == [attempts EXCEPT ![p] = at]
  <2>6. p \in DOMAIN bs /\ bs[p] = at /\ at.group # 0
    BY <1>1, <1>3, <2>2 DEF InFlight
  <2>7. Groups(gs, nextId + 1) /\ more = JoinStep(p, at, gs, others)
    BY <1>6, <2>2 DEF Sound
  <2>8. /\ groups' = gs /\ nextId' = nextId + 1
    BY <1>1, <1>6
  <2> HIDE DEF at, gs, more, bs, as
  <2>9. NextOf(gs, others, bs, p, more)
    BY <1>2, <2>3, <2>6, <2>7, JoinStepFits
  <2>10. Continued(op, p, gs, nextId + 1, at, more)
    BY <1>1, <1>3, <2>2, <2>3, <2>4, <2>5, <2>8, <2>9 DEF Continued, bs, as
  <2> QED BY <1>1, <2>10, Proceeds
<1> QED BY <1>5, <1>6

LEMMA JoinedInv ==
  ASSUME Inv, NEW op \in ops, NEW ok \in BOOLEAN, FormationJoined(op, ok)
  PROVE  Inv'
<1> DEFINE p == op.by
           g == op.group
           a == op.agent
           at == IF ok THEN [attempts[p] EXCEPT !.next = @ + 1] ELSE attempts[p]
           gs == IF ok THEN [groups EXCEPT ![g].members = @ \cup {a}] ELSE groups
           others == ops \ {op}
           more == IF ok THEN JoinStep(p, at, gs, others) ELSE Cleanup(p, at, gs, others)
           as == Without(attempts, p)
<1>1. /\ op.do = "join" /\ p \in InFlight /\ groups' = gs /\ nextId' = nextId
      /\ ops' = others \cup more /\ Proceed(p, at, more)
      /\ UNCHANGED <<due, favored>> /\ maintaining' = maintaining
  BY DEF FormationJoined
<1>2. /\ p \in ProfileIds /\ attempts[p] \in Attempt /\ attempts[p].group = g
      /\ g \in DOMAIN groups /\ g # 0
      /\ attempts[p].next <= Len(attempts[p].members)
      /\ a = attempts[p].members[attempts[p].next]
      /\ Cardinality(groups[g].members) < MaxMembers
      /\ a \in Manual \/ a \notin Grouped(groups)
  BY <1>1, InFlightOp DEF Fits, InFlight
<1>3. /\ Sound(groups, others, as, nextId)
      /\ \A q \in DOMAIN as : q \in InFlight /\ q # p /\ as[q] = attempts[q] /\ as[q].group # g
  BY <1>1, <1>2, Interrupted
<1>4. groups[g] \in Record /\ groups[g].members = Joined(attempts[p])
  BY <1>1, <1>2 DEF Inv, Sound, Groups, Attempts, InFlight
<1>5. /\ a \in Agents /\ a \in Range(attempts[p].members)
      /\ Joined([attempts[p] EXCEPT !.next = @ + 1]) = Joined(attempts[p]) \cup {a}
      /\ [attempts[p] EXCEPT !.next = @ + 1] \in Attempt
  BY <1>2, JoinedNext
<1>6. at \in Attempt /\ at.members = attempts[p].members /\ at.group = g
  BY <1>2, <1>5 DEF Attempt
<1>7. Sound(gs, others, as, nextId) /\ g \in DOMAIN gs /\ gs[g].members = Joined(at)
  <2>1. CASE ~ ok
    BY <1>2, <1>3, <1>4, <2>1
  <2>2. CASE ok
    <3> DEFINE M == groups[g].members \cup {a}
    <3>1. gs = [groups EXCEPT ![g].members = M]
      BY <2>2
    <3>2. M \in SUBSET Agents /\ Cardinality(M) <= MaxMembers
      BY <1>2, <1>4, <1>5, OneMore DEF Record
    <3>3. ASSUME a \notin Manual, NEW o \in others, o.do = "join" PROVE o.agent # a
      <4>1. Fits(groups, attempts, o) /\ o.by # p
        BY <1>2, InFlightOp
      <4>2. SUFFICES ASSUME o.agent = a PROVE FALSE
        OBVIOUS
      <4>3. /\ o.by \in InFlight /\ attempts[o.by].next <= Len(attempts[o.by].members)
            /\ o.agent = attempts[o.by].members[attempts[o.by].next]
        BY <3>3, <4>1, <4>2 DEF Fits, InFlight
      <4>4. attempts[o.by] \in Attempt
        BY <4>3, InFlightOp
      <4>5. a \in Range(attempts[o.by].members)
        BY <4>2, <4>3, <4>4, JoinedNext
      <4>6. Range(attempts[o.by].members) \intersect Range(attempts[p].members) = {}
        BY <1>1, <4>1, <4>3 DEF Inv, Sound, Attempts, InFlight
      <4> QED BY <1>5, <4>5, <4>6
    <3>4. \A o \in others : o.group # g
      BY <1>2, InFlightOp
    <3>5. \A x \in (M \ groups[g].members) \ Manual :
            x \notin Grouped(groups) /\ \A o \in others : o.do = "join" => o.agent # x
      BY <1>2, <3>3
    <3>6. gs[g].members = M /\ DOMAIN gs = DOMAIN groups
      BY <1>2, <1>4, <3>1 DEF Record
    <3>7. Joined(at) = M
      BY <1>4, <1>5, <2>2
    <3> HIDE DEF M, as
    <3>8. Sound([groups EXCEPT ![g].members = M], others, as, nextId)
      BY <1>2, <1>3, <3>2, <3>4, <3>5, ChangeMembers
    <3> QED BY <1>2, <3>1, <3>6, <3>7, <3>8
  <2> QED BY <2>1, <2>2
<1>8. \A q \in InFlight \ {p} : attempts[q].group # at.group
  BY <1>2, <1>6, InFlightOp
<1> DEFINE bs == [attempts EXCEPT ![p] = at]
<1>9. p \in DOMAIN bs /\ bs[p] = at /\ at.group # 0
  BY <1>1, <1>2, <1>6 DEF InFlight
<1>10. /\ Groups(gs, nextId)
       /\ more = JoinStep(p, at, gs, others) \/ more = Cleanup(p, at, gs, others)
  BY <1>7 DEF Sound
<1> HIDE DEF at, gs, more, bs, as
<1>11. NextOf(gs, others, bs, p, more)
  BY <1>2, <1>6, <1>9, <1>10, JoinStepFits
<1>12. Continued(op, p, gs, nextId, at, more)
  BY <1>1, <1>6, <1>7, <1>8, <1>11 DEF Continued, bs, as
<1> QED BY <1>1, <1>12, Proceeds

LEMMA CleanedInv ==
  ASSUME Inv, NEW op \in ops, NEW ok \in BOOLEAN, FormationCleaned(op, ok)
  PROVE  Inv'
<1> DEFINE p == op.by
           gs == IF ok THEN Without(groups, op.group) ELSE groups
           others == ops \ {op}
           as == Without(attempts, p)
<1>1. /\ op.do = "dissolve" /\ p \in InFlight /\ groups' = gs /\ nextId' = nextId
      /\ ops' = others \cup {} /\ Proceed(p, attempts[p], {}) /\ UNCHANGED <<due, favored>>
      /\ maintaining' = IF ok THEN maintaining \ {op.group} ELSE maintaining
  BY DEF FormationCleaned
<1>2. p \in ProfileIds /\ op.group # 0 /\ \A o \in others : o.group # op.group
  BY <1>1, InFlightOp
<1>3. /\ Sound(groups, others, as, nextId)
      /\ \A q \in DOMAIN as : as[q].group # op.group
  BY <1>1, <1>2, Interrupted
<1>4. Sound(gs, others, as, nextId)
  BY <1>2, <1>3, DropGroup
<1>5. maintaining' = maintaining
  <2>1. maintaining = {o.group : o \in {r \in others : r.by = "maintenance"}}
    BY <1>2, MarksOfOthers, ConstantFacts
  <2> QED BY <1>1, <1>2, <2>1
<1>6. Continued(op, p, gs, nextId, attempts[p], {})
  BY <1>1, <1>4, <1>5 DEF Continued, NextOf
<1> HIDE DEF gs
<1> QED BY <1>1, <1>6, Proceeds

LEMMA PassInv ==
  ASSUME Inv, RunCoalitionFormationPass
  PROVE  Inv'
<1>1. PICK proposed \in [due -> UNION {Proposals(p) : p \in due} \union {<<>>}] :
        LET started == {p \in due : proposed[p] # <<>>}
            evaluated == {p \in due : p = First \/
                             Cardinality(InFlight \union ({First} \intersect started)) < MaxInFlight}
        IN  /\ started \subseteq evaluated \ InFlight
            /\ \A p \in started : proposed[p] \in Proposals(p)
            /\ \A p, q \in started : p # q => Range(proposed[p]) \intersect Range(proposed[q]) = {}
            /\ due' = due \ evaluated
            /\ favored' = Turn(started)
            /\ attempts' = [p \in InFlight \union started |->
                   IF p \in started THEN [members |-> proposed[p], next |-> 1, group |-> 0]
                   ELSE attempts[p]]
            /\ reserved' = reserved \union UNION {Range(proposed[p]) : p \in started}
            /\ ops' = ops \union {Op("create", 0, NoAgent, p) : p \in started}
  BY DEF RunCoalitionFormationPass
<1> DEFINE started == {p \in due : proposed[p] # <<>>}
           begun(p) == [members |-> proposed[p], next |-> 1, group |-> 0]
           create(p) == Op("create", 0, NoAgent, p)
<1>2. /\ started \intersect InFlight = {} /\ due' \subseteq due
      /\ \A p \in started : proposed[p] \in Proposals(p)
      /\ \A p, q \in started : p # q => Range(proposed[p]) \intersect Range(proposed[q]) = {}
      /\ favored' = Turn(started)
      /\ attempts' = [p \in InFlight \union started |-> IF p \in started THEN begun(p) ELSE attempts[p]]
      /\ reserved' = reserved \union UNION {Range(proposed[p]) : p \in started}
      /\ ops' = ops \union {create(p) : p \in started}
      /\ UNCHANGED <<groups, nextId, maintaining>>
  BY <1>1 DEF RunCoalitionFormationPass
<1>3. started \subseteq ProfileIds /\ started \subseteq due /\ InFlight \subseteq ProfileIds
  BY DEF Inv, Timers, Sound, Attempts, InFlight
<1>4. ASSUME NEW p \in started
      PROVE  /\ proposed[p] \in Seq(Agents) /\ Range(proposed[p]) \intersect reserved = {}
             /\ begun(p) \in Attempt /\ begun(p).members = proposed[p]
             /\ begun(p).next = 1 /\ begun(p).group = 0
  <2>1. PICK n \in MinMembers..MaxMembers : proposed[p] \in [1..n -> Eligible(p)]
    BY <1>2, <1>4 DEF Proposals
  <2>2. n \in Nat
    BY CoalitionConstants
  <2>3. Eligible(p) \subseteq Agents /\ Eligible(p) \intersect reserved = {}
    BY <1>3, <1>4, ConstantFacts DEF Eligible
  <2>4. proposed[p] \in Seq(Agents)
    BY <2>1, <2>2, <2>3
  <2>5. Range(proposed[p]) \subseteq Eligible(p)
    BY <2>1 DEF Range
  <2>6. 0 \in 0..TopId /\ 1 \in Nat \ {0}
    BY ConstantFacts
  <2> QED BY <2>3, <2>4, <2>5, <2>6 DEF Attempt
<1>5. ASSUME NEW p \in started
      PROVE  /\ create(p) \in AllOps /\ create(p).do = "create" /\ create(p).group = 0
             /\ create(p).by = p
  <2>1. p \in ProfileIds /\ 0 \in 0..TopId
    BY <1>3, <1>5, ConstantFacts
  <2> QED BY <2>1 DEF Op, AllOps
<1>6. /\ InFlight' = InFlight \cup started
      /\ \A p \in started : attempts'[p] = begun(p)
      /\ \A p \in InFlight : p \notin started /\ attempts'[p] = attempts[p]
  BY <1>2 DEF InFlight
<1>7. \A p \in InFlight : Range(attempts[p].members) \subseteq reserved
  BY DEF Inv, ReservedExact
<1> HIDE DEF started, begun, create
<1>8. Attempts(groups, attempts')
  <2>1. DOMAIN attempts' \subseteq ProfileIds
    BY <1>3, <1>6 DEF InFlight
  <2>2. ASSUME NEW p \in DOMAIN attempts'
        PROVE  /\ attempts'[p] \in Attempt
               /\ attempts'[p].group # 0 => /\ attempts'[p].group \in DOMAIN groups
                                            /\ groups[attempts'[p].group].members = Joined(attempts'[p])
    <3>1. CASE p \in started
      BY <1>4, <1>6, <3>1
    <3>2. CASE p \in InFlight
      BY <1>6, <3>2 DEF Inv, Sound, Attempts, InFlight
    <3> QED BY <1>6, <3>1, <3>2 DEF InFlight
  <2>3. ASSUME NEW p \in DOMAIN attempts', NEW q \in DOMAIN attempts', p # q
        PROVE  /\ Range(attempts'[p].members) \intersect Range(attempts'[q].members) = {}
               /\ attempts'[p].group # 0 => attempts'[p].group # attempts'[q].group
    <3>1. p \in InFlight \cup started /\ q \in InFlight \cup started
      BY <1>6 DEF InFlight
    <3>2. CASE p \in started /\ q \in started
      BY <1>2, <1>4, <1>6, <2>3, <3>2
    <3>3. CASE p \in started /\ q \in InFlight
      BY <1>4, <1>6, <1>7, <3>3
    <3>4. CASE p \in InFlight /\ q \in started
      BY <1>4, <1>6, <1>7, <3>4
    <3>5. CASE p \in InFlight /\ q \in InFlight
      BY <1>6, <2>3, <3>5 DEF Inv, Sound, Attempts, InFlight
    <3> QED BY <3>1, <3>2, <3>3, <3>4, <3>5
  <2> QED BY <2>1, <2>2, <2>3 DEF Attempts
<1>9. ASSUME NEW o \in ops'
      PROVE  Fits(groups, attempts', o)
  <2>1. CASE o \in ops
    <3>1. Fits(groups, attempts, o) /\ (o.by \in ProfileIds => o.by \in InFlight)
      BY <2>1, InFlightOp DEF Fits, InFlight
    <3>2. /\ o.by \in DOMAIN attempts => o.by \in DOMAIN attempts' /\ attempts'[o.by] = attempts[o.by]
          /\ o.by \in DOMAIN attempts' => o.by \in DOMAIN attempts
      BY <1>3, <1>6, <3>1 DEF InFlight
    <3> QED BY <3>1, <3>2 DEF Fits
  <2>2. ASSUME NEW p \in started, o = create(p) PROVE Fits(groups, attempts', o)
    <3>1. /\ o \in AllOps /\ o.do = "create" /\ o.group = 0 /\ o.by = p
      BY <1>5, <2>2
    <3>2. /\ p \in DOMAIN attempts' /\ attempts'[p].group = 0 /\ attempts'[p].next = 1
      BY <1>4, <1>6 DEF InFlight
    <3> QED BY <3>1, <3>2 DEF Fits
  <2> QED BY <1>2, <2>1, <2>2
<1>10. OneEach(ops')
  <2>1. ASSUME NEW o \in ops, o.by \in ProfileIds PROVE o.by \in InFlight
    BY <2>1, InFlightOp DEF Fits, InFlight
  <2>2. ASSUME NEW o \in ops', NEW q \in ops',
               (o.group = q.group /\ o.group # 0) \/ (o.by = q.by /\ o.by \in ProfileIds)
        PROVE  o = q
    <3>1. CASE o \in ops /\ q \in ops
      BY <2>2, <3>1 DEF Inv, Sound, OneEach
    <3>2. ASSUME NEW p \in started, o = create(p), q \in ops PROVE FALSE
      BY <1>3, <1>5, <1>6, <2>1, <2>2, <3>2
    <3>3. ASSUME NEW p \in started, q = create(p), o \in ops PROVE FALSE
      BY <1>3, <1>5, <1>6, <2>1, <2>2, <3>3
    <3>4. ASSUME NEW p \in started, NEW r \in started, o = create(p), q = create(r) PROVE o = q
      BY <1>5, <2>2, <3>4
    <3> QED BY <1>2, <3>1, <3>2, <3>3, <3>4
  <2> QED BY <2>2 DEF OneEach
<1>11. Sound(groups, ops, attempts, nextId)'
  BY <1>2, <1>8, <1>9, <1>10 DEF Inv, Sound
<1>12. Driven'
  <2>1. \A p \in started : create(p) \in ops' /\ create(p).by = p
    BY <1>2, <1>5
  <2>2. \A p \in InFlight : \E o \in ops' : o.by = p
    BY <1>2 DEF Inv, Driven
  <2> QED BY <1>6, <2>1, <2>2 DEF Driven
<1>13. ReservedExact'
  <2>1. reserved = UNION {Range(attempts[p].members) : p \in InFlight}
    BY DEF Inv, ReservedExact
  <2>2. \A p \in started : Range(attempts'[p].members) = Range(proposed[p])
    BY <1>4, <1>6
  <2>3. \A p \in InFlight : Range(attempts'[p].members) = Range(attempts[p].members)
    BY <1>6
  <2>4. UNION {Range(attempts'[p].members) : p \in InFlight \cup started} =
          reserved \cup UNION {Range(proposed[p]) : p \in started}
    BY <2>1, <2>2, <2>3
  <2> QED BY <1>2, <1>6, <2>4 DEF ReservedExact
<1>14. MaintainingExact'
  <2>1. \A p \in started : create(p).by # "maintenance"
    BY <1>3, <1>5, ConstantFacts
  <2>2. {o \in ops' : o.by = "maintenance"} = {o \in ops : o.by = "maintenance"}
    BY <1>2, <2>1
  <2> QED BY <1>2, <2>2 DEF Inv, MaintainingExact
<1>15. Timers'
  <2>1. Turn(started) \in ProfileIds
    <3>1. favored \in ProfileIds
      BY DEF Inv, Timers
    <3>2. \E q \in ProfileIds : q # favored
      BY <3>1, ConstantFacts
    <3> QED BY <3>1, <3>2 DEF Turn
  <2> QED BY <1>2, <2>1 DEF Inv, Timers
<1> QED BY <1>11, <1>12, <1>13, <1>14, <1>15 DEF Inv

LEMMA TimerInv ==
  ASSUME Inv, NEW p \in ProfileIds, TimerRunsOut(p)
  PROVE  Inv'
<1>1. /\ due' = due \cup {p} /\ groups' = groups /\ nextId' = nextId /\ ops' = ops
      /\ attempts' = attempts /\ reserved' = reserved /\ maintaining' = maintaining
      /\ favored' = favored
  BY DEF TimerRunsOut
<1>2. Timers'
  BY <1>1 DEF Inv, Timers
<1>3. Driven' /\ ReservedExact' /\ MaintainingExact'
  BY <1>1 DEF Inv, Driven, ReservedExact, MaintainingExact, InFlight
<1>4. Sound(groups, ops, attempts, nextId)'
  BY <1>1 DEF Inv
<1> QED BY <1>2, <1>3, <1>4 DEF Inv

---------------------------------------------------------------------------
(* The actions of the maintenance and of the game master *)

\* What somebody other than a formation may ask of a group nobody is working on.
LEMMA RequestFits ==
  ASSUME Inv, NEW do \in {"join", "leave", "dissolve"}, NEW g \in DOMAIN groups,
         NEW a \in Agents \cup {NoAgent}, NEW by \in {"maintenance", "manual"},
         do = "join" => /\ by = "manual" /\ a \in Manual
                        /\ Cardinality(groups[g].members) < MaxMembers,
         do = "dissolve" => by = "maintenance"
  PROVE  /\ Fits(groups, attempts, Op(do, g, a, by))
         /\ Op(do, g, a, by).by = by /\ Op(do, g, a, by).group = g /\ by \notin ProfileIds
<1>1. /\ Op(do, g, a, by).do = do /\ Op(do, g, a, by).group = g
      /\ Op(do, g, a, by).agent = a /\ Op(do, g, a, by).by = by
  BY DEF Op
<1>2. by \notin ProfileIds /\ by \notin DOMAIN attempts
  BY ConstantFacts DEF Inv, Sound, Attempts
<1>3. g \in 0..TopId
  BY ConstantFacts DEF Inv, Sound, Groups
<1>4. Op(do, g, a, by) \in AllOps
  BY <1>3 DEF Op, AllOps
<1>5. do = "join" => a \in Agents
  BY ConstantFacts
<1> QED BY <1>1, <1>2, <1>4, <1>5 DEF Fits

LEMMA MaintainInv ==
  ASSUME Inv, NEW g \in DOMAIN groups, NEW do \in {"leave", "dissolve"},
         NEW a \in Agents \cup {NoAgent}, Maintain(g, Op(do, g, a, "maintenance"))
  PROVE  Inv'
<1> DEFINE op == Op(do, g, a, "maintenance")
<1>1. /\ Fits(groups, attempts, op) /\ op.by = "maintenance" /\ op.group = g
      /\ op.by \notin ProfileIds
  BY RequestFits
<1>2. /\ Free(groups, ops, g) /\ ops' = ops \cup {op} /\ maintaining' = maintaining \cup {g}
      /\ UNCHANGED <<groups, nextId, attempts, reserved, due, favored>>
  BY DEF Maintain
<1> HIDE DEF op
<1> QED BY <1>1, <1>2, Asked

LEMMA ManualRequestInv ==
  ASSUME Inv, NEW g, NEW a \in Agents,
         RequestManualJoinGroup(g, a) \/ RequestManualLeaveGroup(g, a)
  PROVE  Inv'
<1>1. PICK do \in {"join", "leave"} :
        /\ Free(groups, ops, g) /\ ops' = ops \cup {Op(do, g, a, "manual")}
        /\ do = "join" => a \in Manual /\ Cardinality(groups[g].members) < MaxMembers
        /\ UNCHANGED <<groups, nextId, attempts, reserved, maintaining, due, favored>>
  BY DEF RequestManualJoinGroup, RequestManualLeaveGroup
<1> DEFINE op == Op(do, g, a, "manual")
<1>2. /\ Fits(groups, attempts, op) /\ op.by = "manual" /\ op.group = g
      /\ op.by \notin ProfileIds
  BY <1>1, RequestFits DEF Free
<1>3. ops' = ops \cup {op} /\ maintaining' = maintaining
  BY <1>1
<1> HIDE DEF op
<1> QED BY <1>1, <1>2, <1>3, Asked

\* The operation of somebody other than a formation: nobody else is at its group.
LEMMA Theirs ==
  ASSUME Inv, NEW op \in ops, op.by \in {"maintenance", "manual"}
  PROVE  /\ op.by \notin ProfileIds /\ op.do # "create"
         /\ op.group \in DOMAIN groups /\ op.group # 0
         /\ groups[op.group] \in Record /\ Cardinality(groups[op.group].members) <= MaxMembers
         /\ \A o \in ops \ {op} : o.group # op.group
         /\ \A q \in DOMAIN attempts : attempts[q].group # op.group
         /\ Sound(groups, ops \ {op}, attempts, nextId)
<1>1. op.by \notin ProfileIds
  BY ConstantFacts
<1>2. op.do # "create"
  BY <1>1, InFlightOp DEF Fits, InFlight
<1>3. /\ op.group \in DOMAIN groups /\ op.group # 0
      /\ \A o \in ops \ {op} : o.group # op.group
      /\ \A q \in DOMAIN attempts : attempts[q].group = op.group => op.by = q
  BY <1>2, InFlightOp DEF InFlight
<1>4. DOMAIN attempts \subseteq ProfileIds
  BY InFlightOp DEF InFlight
<1>5. groups[op.group] \in Record /\ Cardinality(groups[op.group].members) <= MaxMembers
  BY <1>3 DEF Inv, Sound, Groups
<1>6. Sound(groups, ops \ {op}, attempts, nextId)
  BY Answer DEF Inv
<1> QED BY <1>1, <1>2, <1>3, <1>4, <1>5, <1>6

\* A member leaves at somebody's request.
LEMMA MemberLeft ==
  ASSUME Inv, NEW op \in ops, op.by \in {"maintenance", "manual"}
  PROVE  LET hs == [groups EXCEPT ![op.group].members = @ \ {op.agent}]
         IN  Sound(hs, ops \ {op}, attempts, nextId) /\ op.group \in DOMAIN hs
<1> DEFINE g == op.group  M == groups[op.group].members \ {op.agent}
<1>1. /\ g \in DOMAIN groups /\ groups[g] \in Record
      /\ Cardinality(groups[g].members) <= MaxMembers
      /\ \A o \in ops \ {op} : o.group # g
      /\ \A q \in DOMAIN attempts : attempts[q].group # g
      /\ Sound(groups, ops \ {op}, attempts, nextId)
  BY Theirs
<1>2. M \in SUBSET Agents /\ Cardinality(M) <= MaxMembers
  BY <1>1, OneLess DEF Record
<1>3. M \ groups[g].members = {}
  OBVIOUS
<1>4. [groups EXCEPT ![op.group].members = @ \ {op.agent}] = [groups EXCEPT ![g].members = M]
  BY <1>1
<1> HIDE DEF M, g
<1>5. Sound([groups EXCEPT ![g].members = M], ops \ {op}, attempts, nextId)
  BY <1>1, <1>2, <1>3, ChangeMembers
<1>6. g \in DOMAIN [groups EXCEPT ![g].members = M]
  BY <1>1
<1> QED BY <1>4, <1>5, <1>6 DEF g

LEMMA MaintenanceLeftInv ==
  ASSUME Inv, NEW op \in ops, NEW ok \in BOOLEAN, MaintenanceLeft(op, ok)
  PROVE  Inv'
<1> DEFINE gs == IF ok THEN [groups EXCEPT ![op.group].members = @ \ {op.agent}] ELSE groups
           others == ops \ {op}
           next == Op("dissolve", op.group, NoAgent, "maintenance")
           more == IF ok /\ TooSmall(gs, op.group) /\ Free(gs, others, op.group)
                   THEN {next} ELSE {}
<1>1. /\ op.by = "maintenance" /\ groups' = gs /\ ops' = others \cup more
      /\ maintaining' = IF more = {} THEN maintaining \ {op.group} ELSE maintaining
      /\ UNCHANGED <<nextId, attempts, reserved, due, favored>>
  BY DEF MaintenanceLeft
<1>2. /\ op.by \notin ProfileIds /\ op.group \in DOMAIN groups
      /\ \A o \in others : o.group # op.group
      /\ Sound(groups, others, attempts, nextId)
  BY <1>1, Theirs
<1>3. Sound(gs, others, attempts, nextId) /\ op.group \in DOMAIN gs
  BY <1>1, <1>2, MemberLeft
<1> HIDE DEF gs
<1>4. CASE more = {}
  <2>1. ops' = others /\ maintaining' = maintaining \ {op.group}
    BY <1>1, <1>4
  <2> QED BY <1>1, <1>2, <1>3, <2>1, Answered
<1>5. CASE more # {}
  <2>1. ops' = others \cup {next} /\ maintaining' = maintaining
    BY <1>1, <1>5
  <2>2. Fits(groups, attempts, next) /\ next.by = "maintenance" /\ next.group = op.group
    BY <1>2, RequestFits
  <2>3. next.do = "dissolve" /\ next \in AllOps
    BY <2>2 DEF Op, Fits
  <2>4. Fits(gs, attempts, next)
    BY <1>1, <1>2, <1>3, <2>2, <2>3 DEF Fits
  <2> HIDE DEF next
  <2>5. Sound(gs, others \cup {next}, attempts, nextId)
    BY <1>1, <1>2, <1>3, <2>2, <2>4, Submit
  <2>6. Sound(groups, ops, attempts, nextId)'
    BY <1>1, <2>1, <2>5
  <2>7. Driven'
    <3>1. \A q \in InFlight : q # "maintenance"
      BY <1>1, <1>2, InFlightOp
    <3> QED BY <1>1, <2>1, <3>1 DEF Inv, Driven, InFlight
  <2>8. ReservedExact' /\ Timers'
    BY <1>1 DEF Inv, ReservedExact, Timers, InFlight
  <2>9. MaintainingExact'
    <3>1. maintaining = {o.group : o \in {r \in ops : r.by = "maintenance"}}
      BY DEF Inv, MaintainingExact
    <3>2. {r \in ops : r.by = "maintenance"} = {r \in others : r.by = "maintenance"} \cup {op}
      BY <1>1
    <3>3. {r \in ops' : r.by = "maintenance"} = {r \in others : r.by = "maintenance"} \cup {next}
      BY <2>1, <2>2
    <3>4. {o.group : o \in {r \in others : r.by = "maintenance"} \cup {op}}
            = {o.group : o \in {r \in others : r.by = "maintenance"} \cup {next}}
      BY <2>2
    <3> QED BY <2>1, <3>1, <3>2, <3>3, <3>4 DEF MaintainingExact
  <2> QED BY <2>6, <2>7, <2>8, <2>9 DEF Inv
<1> QED BY <1>4, <1>5

LEMMA MaintenanceDissolvedInv ==
  ASSUME Inv, NEW op \in ops, NEW ok \in BOOLEAN, MaintenanceDissolved(op, ok)
  PROVE  Inv'
<1> DEFINE gs == IF ok THEN Without(groups, op.group) ELSE groups
<1>1. /\ op.by = "maintenance" /\ groups' = gs /\ ops' = ops \ {op}
      /\ maintaining' = maintaining \ {op.group}
      /\ UNCHANGED <<nextId, attempts, reserved, due, favored>>
  BY DEF MaintenanceDissolved
<1>2. /\ op.by \notin ProfileIds /\ \A o \in ops \ {op} : o.group # op.group
      /\ \A q \in DOMAIN attempts : attempts[q].group # op.group
      /\ Sound(groups, ops \ {op}, attempts, nextId)
  BY <1>1, Theirs
<1>3. Sound(gs, ops \ {op}, attempts, nextId)
  BY <1>2, DropGroup
<1> HIDE DEF gs
<1> QED BY <1>1, <1>2, <1>3, Answered

LEMMA ManualDoneInv ==
  ASSUME Inv, NEW op \in ops, NEW ok \in BOOLEAN, ManualDone(op, ok)
  PROVE  Inv'
<1>1. /\ op.by = "manual" /\ ops' = ops \ {op} /\ maintaining' = maintaining
      /\ groups' = IF ~ ok THEN groups
                   ELSE IF op.do = "join" THEN [groups EXCEPT ![op.group].members = @ \cup {op.agent}]
                   ELSE [groups EXCEPT ![op.group].members = @ \ {op.agent}]
      /\ UNCHANGED <<nextId, attempts, reserved, due, favored>>
  BY DEF ManualDone
<1> DEFINE g == op.group  M == groups[op.group].members \cup {op.agent}
<1>2. /\ op.by \notin ProfileIds /\ g \in DOMAIN groups /\ groups[g] \in Record
      /\ \A o \in ops \ {op} : o.group # g
      /\ \A q \in DOMAIN attempts : attempts[q].group # g
      /\ Sound(groups, ops \ {op}, attempts, nextId)
  BY <1>1, Theirs
<1>3. Sound(groups', ops \ {op}, attempts, nextId)
  <2>1. CASE ~ ok
    BY <1>1, <1>2, <2>1
  <2>2. CASE ok /\ op.do # "join"
    <3>1. groups' = [groups EXCEPT ![op.group].members = @ \ {op.agent}]
      BY <1>1, <2>2
    <3> QED BY <1>1, <3>1, MemberLeft
  <2>3. CASE ok /\ op.do = "join"
    <3>1. op.agent \in Manual /\ op.agent \in Agents /\ Cardinality(groups[g].members) < MaxMembers
      <4>1. Fits(groups, attempts, op) /\ DOMAIN attempts \subseteq ProfileIds
        BY InFlightOp DEF InFlight
      <4> QED BY <1>2, <2>3, <4>1 DEF Fits
    <3>2. M \in SUBSET Agents /\ Cardinality(M) <= MaxMembers
      BY <1>2, <3>1, OneMore DEF Record
    <3>3. (M \ groups[g].members) \ Manual = {}
      BY <3>1
    <3>4. groups' = [groups EXCEPT ![g].members = M]
      BY <1>1, <1>2, <2>3
    <3> HIDE DEF M, g
    <3>5. Sound([groups EXCEPT ![g].members = M], ops \ {op}, attempts, nextId)
      BY <1>2, <3>2, <3>3, ChangeMembers
    <3> QED BY <3>4, <3>5
  <2> QED BY <2>1, <2>2, <2>3
<1>4. op.by # "maintenance"
  BY <1>1
<1> QED BY <1>1, <1>2, <1>3, <1>4, Answered

---------------------------------------------------------------------------
(* The theorems *)

LEMMA InitInv == Init => Inv
<1> SUFFICES ASSUME Init PROVE Inv
  OBVIOUS
<1>1. /\ ops = {} /\ attempts = <<>> /\ reserved = {} /\ maintaining = {}
      /\ due = {} /\ favored = Profiles[1]
  BY DEF Init
<1>2. DOMAIN attempts = {}
  BY <1>1
<1>3. Groups(groups, nextId)
  <2>1. CASE groups = <<>> /\ nextId = 1
    <3>1. DOMAIN groups = {}
      BY <2>1
    <3>2. nextId \in 1..(TopId + 1)
      BY <2>1, ConstantFacts
    <3> QED BY <3>1, <3>2 DEF Groups
  <2>2. ASSUME nextId = 2, NEW p \in ProfileIds, NEW loaded \in SUBSET Recognizes[p],
               Cardinality(loaded) <= MaxMembers,
               groups = <<[profile |-> p, members |-> loaded]>>
        PROVE  Groups(groups, nextId)
    <3>1. DOMAIN groups = {1} /\ groups[1] = [profile |-> p, members |-> loaded]
      BY <2>2
    <3>2. groups[1] \in Record /\ groups[1].members = loaded
      BY <3>1, ConstantFacts DEF Record
    <3>3. nextId \in 1..(TopId + 1) /\ {1} \subseteq 1..(nextId - 1)
      BY <2>2, ConstantFacts
    <3> QED BY <2>2, <3>1, <3>2, <3>3 DEF Groups
  <2> QED BY <2>1, <2>2 DEF Init
<1>4. Sound(groups, ops, attempts, nextId)
  BY <1>1, <1>2, <1>3 DEF Sound, Attempts, OneEach
<1>5. Driven /\ ReservedExact /\ MaintainingExact /\ Timers
  BY <1>1, <1>2, ConstantFacts DEF Driven, ReservedExact, MaintainingExact, Timers, InFlight
<1> QED BY <1>4, <1>5 DEF Inv

LEMMA NextInv == Inv /\ [Next]_vars => Inv'
<1> SUFFICES ASSUME Inv, [Next]_vars PROVE Inv'
  OBVIOUS
<1>1. CASE UNCHANGED vars
  BY <1>1 DEF vars, Inv, Driven, ReservedExact, MaintainingExact, Timers, InFlight
<1>2. CASE Next
  <2>1. ASSUME NEW p \in ProfileIds, TimerRunsOut(p) PROVE Inv'
    BY <2>1, TimerInv
  <2>2. CASE RunCoalitionFormationPass
    BY <2>2, PassInv
  <2>3. ASSUME NEW op \in ops, Complete(op) PROVE Inv'
    <3>1. PICK ok \in BOOLEAN :
            \/ FormationCreated(op, ok) \/ FormationJoined(op, ok) \/ FormationCleaned(op, ok)
            \/ MaintenanceLeft(op, ok) \/ MaintenanceDissolved(op, ok) \/ ManualDone(op, ok)
      BY <2>3 DEF Complete
    <3> QED BY <3>1, CreatedInv, JoinedInv, CleanedInv, MaintenanceLeftInv,
               MaintenanceDissolvedInv, ManualDoneInv
  <2>4. ASSUME NEW g \in Ids, MaintenanceDissolve(g) PROVE Inv'
    BY <2>4, MaintainInv DEF MaintenanceDissolve
  <2>5. ASSUME NEW g \in Ids, NEW a \in Agents, MaintenanceLeave(g, a) PROVE Inv'
    BY <2>5, MaintainInv DEF MaintenanceLeave
  <2>6. ASSUME NEW g \in Ids, NEW a \in Agents,
               RequestManualJoinGroup(g, a) \/ RequestManualLeaveGroup(g, a)
        PROVE  Inv'
    BY <2>6, ManualRequestInv
  <2> QED BY <1>2, <2>1, <2>2, <2>3, <2>4, <2>5, <2>6 DEF Next
<1> QED BY <1>1, <1>2

\* The registry, the operations in flight and the attempts fit each other at all
\* times: one operation for each group and each attempt, reservations and marks exact.
THEOREM CoalitionInv == Spec => []Inv
BY InitInv, NextInv, PTL DEF Spec

\* The shape of the state.
LEMMA InvTypes == Inv => TypeOK
<1> SUFFICES ASSUME Inv PROVE TypeOK
  OBVIOUS
<1>1. DOMAIN groups \subseteq Ids /\ nextId \in 1..(TopId + 1)
  BY ConstantFacts DEF Inv, Sound, Groups, Ids
<1>2. \A g \in DOMAIN groups : /\ groups[g] \in [profile : ProfileIds, members : SUBSET Agents]
                               /\ Cardinality(groups[g].members) <= MaxMembers
  BY DEF Inv, Sound, Groups, Record
<1>3. ops \subseteq AllOps /\ InFlight \subseteq ProfileIds
  BY DEF Inv, Sound, Attempts, Fits, InFlight
<1>4. reserved \subseteq Agents
  <2>1. \A p \in InFlight : Range(attempts[p].members) \subseteq Agents
    <3>1. \A p \in InFlight : attempts[p].members \in Seq(Agents)
      BY AttemptTypes DEF Inv, Sound, Attempts, InFlight
    <3> QED BY <3>1 DEF Range
  <2> QED BY <2>1 DEF Inv, ReservedExact
<1>5. maintaining \subseteq Ids
  <2>1. \A o \in ops : o.by = "maintenance" => o.group \in DOMAIN groups
    BY Theirs
  <2> QED BY <1>1, <2>1 DEF Inv, MaintainingExact
<1> QED BY <1>1, <1>2, <1>3, <1>4, <1>5 DEF TypeOK, Inv, Timers

\* Whatever fails or is refused on the way, no reservation and no mark of the
\* maintenance is left behind or given back too early.
THEOREM CoalitionMarks == Spec => []MarksExact
<1>1. Inv => MarksExact
  BY InvTypes DEF Inv, MarksExact
<1> QED BY <1>1, CoalitionInv, PTL

\* While a coalition is being formed nobody else changes its group, and the
\* chain that forms it has exactly one operation under way.
THEOREM CoalitionUnbroken == Spec => []FormationUnbroken
<1>1. ASSUME Inv, NEW p \in InFlight
      PROVE  /\ Cardinality({op \in ops : op.by = p}) = 1
             /\ attempts[p].group # 0 =>
                  /\ attempts[p].group \in DOMAIN groups
                  /\ groups[attempts[p].group].members =
                       Range(SubSeq(attempts[p].members, 1, attempts[p].next - 1))
  <2>1. PICK op \in ops : op.by = p
    BY <1>1 DEF Inv, Driven
  <2>2. p \in ProfileIds /\ \A o \in ops \ {op} : o.by # p
    BY <1>1, <2>1, InFlightOp
  <2>3. {o \in ops : o.by = p} = {op}
    BY <2>1, <2>2
  <2>4. Cardinality({op}) = 1
    BY FS_Singleton
  <2> QED BY <1>1, <2>3, <2>4 DEF Inv, Sound, Attempts, Joined, InFlight
<1>2. Inv => FormationUnbroken
  BY <1>1 DEF FormationUnbroken
<1> QED BY <1>2, CoalitionInv, PTL

\* Automatic policies alone never put an agent into two groups, nor on its way
\* into a second one.
THEOREM CoalitionLoose == Spec => []OneLooseGroup
<1> DEFINE In(a, g) == g \in DOMAIN groups /\ a \in groups[g].members
           Way(a, g) == \E op \in ops : op.do = "join" /\ op.group = g /\ op.agent = a
           Of(a) == {g \in Ids : In(a, g) \/ Way(a, g)}
<1>1. ASSUME Inv, NEW a \in Agents \ Manual PROVE Cardinality(Of(a)) <= 1
  <2>1. ASSUME NEW g, NEW h, In(a, g), In(a, h) PROVE g = h
    BY <1>1, <2>1 DEF Inv, Sound, Groups
  <2>2. ASSUME NEW g, Way(a, g)
        PROVE  /\ \A h : ~ In(a, h)
               /\ \E p \in InFlight : attempts[p].group = g /\ a \in Range(attempts[p].members)
    <3>1. PICK op \in ops : op.do = "join" /\ op.group = g /\ op.agent = a
      BY <2>2
    <3>2. /\ a \notin Grouped(groups) /\ op.by \in InFlight
          /\ attempts[op.by].next <= Len(attempts[op.by].members)
          /\ a = attempts[op.by].members[attempts[op.by].next]
      BY <1>1, <3>1, InFlightOp DEF Fits, InFlight
    <3>3. attempts[op.by] \in Attempt /\ attempts[op.by].group = g
      BY <1>1, <3>1, <3>2, InFlightOp
    <3>4. a \in Range(attempts[op.by].members)
      BY <3>2, <3>3, JoinedNext
    <3>5. \A h : ~ In(a, h)
      BY <3>2 DEF Grouped
    <3> QED BY <3>2, <3>3, <3>4, <3>5
  <2>3. ASSUME NEW g, NEW h, Way(a, g), Way(a, h) PROVE g = h
    <3>1. PICK p \in InFlight : attempts[p].group = g /\ a \in Range(attempts[p].members)
      BY <2>2, <2>3
    <3>2. PICK q \in InFlight : attempts[q].group = h /\ a \in Range(attempts[q].members)
      BY <2>2, <2>3
    <3>3. p = q
      BY <1>1, <3>1, <3>2 DEF Inv, Sound, Attempts, InFlight
    <3> QED BY <3>1, <3>2, <3>3
  <2>4. \A g, h \in Of(a) : g = h
    BY <2>1, <2>2, <2>3
  <2> HIDE DEF Of
  <2>5. CASE Of(a) = {}
    <3>1. Cardinality({}) = 0
      BY FS_EmptySet
    <3> QED BY <2>5, <3>1
  <2>6. ASSUME NEW g \in Of(a) PROVE Cardinality(Of(a)) <= 1
    <3>1. Of(a) = {g} /\ Cardinality({g}) = 1
      BY <2>4, FS_Singleton
    <3> QED BY <3>1
  <2> QED BY <2>5, <2>6
<1>2. Inv => OneLooseGroup
  BY <1>1 DEF OneLooseGroup
<1> QED BY <1>2, CoalitionInv, PTL
=============================================================================
