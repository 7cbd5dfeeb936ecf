-------------------------- MODULE InferenceProofs --------------------------
(***************************************************************************)
(* What holds of the requests to the ai-server for any agents, kinds,      *)
(* limits and number of requests.  The properties speak of the counters,   *)
(* the responses and the marks of the world thread separately; inductive   *)
(* is only what ties them together: the id in a mark is a session of that  *)
(* kind and agent, a queued response belongs to a session that says it has *)
(* answered, and no two queued responses are of one session.               *)
(***************************************************************************)
EXTENDS Inference, FiniteSetTheorems, TLAPS

Record ==
  [kind : Kinds, agent : Agents,
   stage : {"posted", "resolving", "connecting", "writing", "reading", "over"},
   io : {"none", "running", "ok", "failed"}, timer : {"off", "armed", "fired"},
   finish : {"open", "closed", "freed", "answered"}, good : BOOLEAN, shut : BOOLEAN]

\* The sessions of a kind that still hold their slot.
Held(k) == {id \in Of(k) : sessions[id].finish \in {"open", "closed"}}

\* A response of session id waits to be drained.
Queued(id) == \E i \in 1..Len(responses) : responses[i].id = id

\* The session of id has not ended, or its response is not drained yet.
Due(id) == sessions[id].finish # "answered" \/ Queued(id)

Registered ==
  /\ \E n \in 0..MaxId : Submitted = 1..n
  /\ sessions \in [Submitted -> Record]

SlotsHeld == slots \in [Kinds -> Nat] /\ \A k \in Kinds : slots[k] = Cardinality(Held(k))

Replies ==
  /\ responses \in Seq([id : Ids, good : BOOLEAN])
  /\ answers \in [Ids -> Nat]
  /\ \A id \in Ids :
       answers[id] = IF id \in Submitted /\ sessions[id].finish = "answered" THEN 1 ELSE 0
  /\ \A i \in 1..Len(responses) : /\ responses[i].id \in Submitted
                                  /\ sessions[responses[i].id].finish = "answered"
  /\ \A i, j \in 1..Len(responses) : responses[i].id = responses[j].id => i = j

Expected ==
  /\ asked \in [Kinds -> [Agents -> Nat]] /\ choice \in [Agents -> Nat]
  /\ \A k \in Kinds, a \in Agents :
       asked[k][a] # 0 => /\ asked[k][a] \in Submitted
                          /\ sessions[asked[k][a]].kind = k /\ sessions[asked[k][a]].agent = a
                          /\ k \notin Abandoned => Due(asked[k][a])
  /\ \A id \in Submitted :
       Due(id) /\ sessions[id].kind \notin Abandoned
         => asked[sessions[id].kind][sessions[id].agent] = id
  /\ \A a \in Agents : choice[a] # 0 => "recovery" \in Kinds /\ choice[a] = asked["recovery"][a]

Consistent == Registered /\ SlotsHeld /\ Replies /\ Expected

---------------------------------------------------------------------------
(* Ids and sessions *)

\* The ids handed out so far, and the next one.
LEMMA IdsInOrder ==
  ASSUME Registered
  PROVE  /\ Submitted \subseteq Ids /\ IsFiniteSet(Submitted) /\ 0 \notin Submitted
         /\ NextRequestId \in Nat \ {0} /\ NextRequestId \notin Submitted
         /\ NextRequestId \in Ids =>
              \E n \in 0..MaxId : Submitted \cup {NextRequestId} = 1..n
<1>1. PICK n \in 0..MaxId : Submitted = 1..n
  BY DEF Registered
<1>2. MaxId \in Nat /\ n \in Nat /\ n <= MaxId
  BY InferenceConstants, <1>1
<1>3. IsFiniteSet(Submitted) /\ Cardinality(Submitted) = n
  <2>1. IsFiniteSet(1..n) /\ Cardinality(1..n) = IF 1 > n THEN 0 ELSE n - 1 + 1
    BY <1>2, FS_Interval
  <2> QED BY <1>1, <1>2, <2>1
<1>4. NextRequestId = n + 1
  BY <1>3 DEF NextRequestId
<1>5. NextRequestId \in Ids => \E m \in 0..MaxId : Submitted \cup {NextRequestId} = 1..m
  <2> SUFFICES ASSUME NextRequestId \in Ids PROVE Submitted \cup {NextRequestId} = 1..(n + 1)
                                                  /\ n + 1 \in 0..MaxId
    BY <1>4
  <2>1. n + 1 <= MaxId
    BY <1>2, <1>4 DEF Ids
  <2>2. Submitted \cup {NextRequestId} = 1..(n + 1)
    BY <1>1, <1>2, <1>4
  <2> QED BY <1>2, <2>1, <2>2
<1>6. 0 \notin Submitted /\ Submitted \subseteq Ids
  BY <1>1, <1>2 DEF Ids
<1>7. NextRequestId \notin Submitted /\ NextRequestId \in Nat \ {0}
  BY <1>1, <1>2, <1>4
<1> QED BY <1>3, <1>5, <1>6, <1>7

\* The sessions that hold a slot can be counted.
LEMMA HeldFinite ==
  ASSUME Registered, NEW k
  PROVE  IsFiniteSet(Held(k)) /\ Cardinality(Held(k)) \in Nat /\ Held(k) \subseteq Submitted
<1>1. Held(k) \in SUBSET Submitted
  BY DEF Held, Of
<1>2. IsFiniteSet(Held(k))
  BY <1>1, IdsInOrder, FS_Subset
<1> QED BY <1>1, <1>2, FS_CardinalityType

\* A step of one session that is seen by nobody: its slot stays as it is, and
\* it had not answered or has.
Unseen(s, new) ==
  /\ new \in Record /\ new.kind = s.kind /\ new.agent = s.agent
  /\ new.finish = s.finish \/ (s.finish = "open" /\ new.finish = "closed")

LEMMA UnseenStep ==
  ASSUME Consistent, NEW id \in Submitted, NEW new, Becomes(id, new), Unseen(sessions[id], new)
  PROVE  Consistent'
<1>1. /\ sessions' = [sessions EXCEPT ![id] = new]
      /\ slots' = slots /\ responses' = responses /\ answers' = answers
      /\ asked' = asked /\ choice' = choice
  BY DEF Becomes, world
<1>2. /\ sessions \in [Submitted -> Record] /\ new \in Record
  BY DEF Consistent, Registered, Unseen
<1>3. /\ Submitted' = Submitted /\ sessions' \in [Submitted -> Record]
      /\ sessions'[id] = new /\ \A j \in Submitted \ {id} : sessions'[j] = sessions[j]
  BY <1>1, <1>2 DEF Submitted
<1>4. ASSUME NEW j \in Submitted
      PROVE  /\ sessions'[j].kind = sessions[j].kind /\ sessions'[j].agent = sessions[j].agent
             /\ sessions'[j].finish = "answered" <=> sessions[j].finish = "answered"
             /\ sessions'[j].finish \in {"open", "closed"} <=> sessions[j].finish \in {"open", "closed"}
  BY <1>3 DEF Unseen
<1>5. Registered'
  BY <1>3 DEF Consistent, Registered
<1>6. SlotsHeld'
  <2>1. \A k : Held(k)' = Held(k)
    BY <1>3, <1>4 DEF Held, Of
  <2> QED BY <1>1, <2>1 DEF Consistent, SlotsHeld
<1>7. Replies'
  BY <1>1, <1>3, <1>4 DEF Consistent, Replies
<1>8. Expected'
  <2>1. \A j \in Submitted : Due(j)' <=> Due(j)
    BY <1>1, <1>4 DEF Due, Queued
  <2> QED BY <1>1, <1>3, <1>4, <2>1 DEF Consistent, Expected
<1> QED BY <1>5, <1>6, <1>7, <1>8 DEF Consistent

\* The records the handlers make.
LEMMA RecordParts ==
  ASSUME NEW s \in Record, NEW good \in BOOLEAN
  PROVE  /\ Unseen(s, s)
         /\ Unseen(s, Over(s))
         /\ Unseen(s, Completed(s, good))
         /\ \A stage \in {"resolving", "connecting", "writing", "reading"} : Unseen(s, Begin(s, stage))
         /\ \A io \in {"ok", "failed"} : Unseen(s, [s EXCEPT !.io = io])
         /\ \A timer \in {"off", "armed", "fired"} : Unseen(s, [s EXCEPT !.timer = timer])
<1>1. Unseen(s, s)
  BY DEF Unseen
<1>2. Unseen(s, Over(s))
  BY DEF Unseen, Over, Record
<1>3. Unseen(s, Completed(s, good))
  <2>1. CASE s.finish # "open"
    BY <1>1, <2>1 DEF Completed
  <2>2. CASE s.finish = "open"
    <3> DEFINE c == Closed(s)
    <3>1. c \in Record /\ c.kind = s.kind /\ c.agent = s.agent
      <4>1. CASE s.kind \in OneStrand
        BY <4>1 DEF Closed, Record
      <4>2. CASE s.kind \notin OneStrand
        <5>1. Connected(s) \in BOOLEAN
          BY DEF Connected
        <5> QED BY <4>2, <5>1 DEF Closed, Record
      <4> QED BY <4>1, <4>2
    <3>2. Completed(s, good) = [c EXCEPT !.finish = "closed", !.good = good]
      BY <2>2 DEF Completed
    <3> HIDE DEF c
    <3> QED BY <2>2, <3>1, <3>2 DEF Unseen, Record
  <2> QED BY <2>1, <2>2
<1>4. ASSUME NEW stage \in {"resolving", "connecting", "writing", "reading"}
      PROVE  Unseen(s, Begin(s, stage))
  BY DEF Unseen, Begin, Record
<1>5. ASSUME NEW io \in {"ok", "failed"} PROVE Unseen(s, [s EXCEPT !.io = io])
  BY DEF Unseen, Record
<1>6. ASSUME NEW timer \in {"off", "armed", "fired"} PROVE Unseen(s, [s EXCEPT !.timer = timer])
  BY DEF Unseen, Record
<1> QED BY <1>1, <1>2, <1>3, <1>4, <1>5, <1>6

\* Two parts of a handler, one after the other.
LEMMA UnseenTwice ==
  ASSUME NEW s, NEW t, NEW u, Unseen(s, t), Unseen(t, u)
  PROVE  Unseen(s, u)
BY DEF Unseen

---------------------------------------------------------------------------
(* The handlers of a session *)

\* Every handler but the end of a session is seen by nobody.
LEMMA HandlerStep ==
  ASSUME Consistent, NEW id \in Submitted,
         Run(id) \/ IoEnds(id) \/ TimerExpires(id) \/ OnResolveTimeout(id)
           \/ OnResolve(id) \/ OnConnect(id) \/ OnWrite(id) \/ OnRead(id)
  PROVE  Consistent'
<1> DEFINE s == sessions[id]
<1>1. s \in Record
  BY DEF Consistent, Registered
<1> SUFFICES \E new : Becomes(id, new) /\ Unseen(s, new)
  <2>1. PICK new : Becomes(id, new) /\ Unseen(s, new)
    OBVIOUS
  <2> QED BY <2>1, UnseenStep
<1>2. ASSUME NEW t \in Record, Unseen(s, t), NEW stage \in {"resolving", "connecting", "writing", "reading"}
      PROVE  Unseen(s, Begin(t, stage))
  BY <1>2, RecordParts, UnseenTwice
<1>3. ASSUME NEW t \in Record, Unseen(s, t), NEW timer \in {"off", "armed", "fired"}
      PROVE  Unseen(s, [t EXCEPT !.timer = timer])
  BY <1>3, RecordParts, UnseenTwice
<1>4. ASSUME NEW good \in BOOLEAN
      PROVE  Completed(s, good) \in Record /\ Unseen(s, Completed(s, good)) /\ Unseen(s, Over(Completed(s, good)))
  <2>1. Unseen(s, Completed(s, good))
    BY <1>1, RecordParts
  <2>2. Completed(s, good) \in Record
    BY <2>1 DEF Unseen
  <2> QED BY <2>1, <2>2, RecordParts, UnseenTwice
<1>5. Unseen(s, s) /\ Unseen(s, Over(s))
  BY <1>1, RecordParts
<1>6. CASE Run(id)
  <2> DEFINE b == Begin(s, "resolving")
  <2>1. b \in Record /\ Unseen(s, b)
    BY <1>1, <1>2, <1>5 DEF Unseen
  <2>2. Becomes(id, [b EXCEPT !.timer = "armed"])
    BY <1>6 DEF Run
  <2> HIDE DEF b
  <2> QED BY <1>3, <2>1, <2>2
<1>7. CASE IoEnds(id)
  <2>1. PICK outcome \in {"ok", "failed"} : Becomes(id, [s EXCEPT !.io = outcome])
    BY <1>7 DEF IoEnds
  <2> QED BY <1>1, <2>1, RecordParts
<1>8. CASE TimerExpires(id)
  <2>1. Becomes(id, [s EXCEPT !.timer = "fired"])
    BY <1>8 DEF TimerExpires
  <2> QED BY <1>1, <1>3, <1>5, <2>1
<1>9. CASE OnResolveTimeout(id)
  <2> DEFINE c == [s EXCEPT !.timer = "off",
                     !.io = IF s.stage = "resolving" /\ @ = "running" THEN "failed" ELSE @]
  <2>1. Unseen(s, c) /\ c \in Record
    BY <1>1 DEF Unseen, Record
  <2>2. Becomes(id, Completed(c, FALSE))
    BY <1>9 DEF OnResolveTimeout
  <2> HIDE DEF c
  <2>3. Unseen(c, Completed(c, FALSE))
    BY <2>1, RecordParts
  <2> QED BY <2>1, <2>2, <2>3, UnseenTwice
<1>10. CASE OnResolve(id)
  <2> DEFINE d == IF s.timer = "armed" /\ s.kind \notin TotalDeadline
                  THEN [s EXCEPT !.timer = "off"] ELSE s
  <2>1. Unseen(s, d) /\ d \in Record
    BY <1>1, <1>3, <1>5 DEF Unseen
  <2>2. Becomes(id, IF s.io = "failed" THEN Over(Completed(d, FALSE))
                    ELSE IF s.finish # "open" THEN Over(d)
                    ELSE Begin(d, "connecting"))
    BY <1>10 DEF OnResolve
  <2> HIDE DEF d
  <2>3. Unseen(d, Completed(d, FALSE)) /\ Unseen(d, Over(d))
    BY <2>1, RecordParts
  <2>4. Unseen(Completed(d, FALSE), Over(Completed(d, FALSE)))
    <3>1. Completed(d, FALSE) \in Record
      BY <2>3 DEF Unseen
    <3> QED BY <3>1, RecordParts
  <2>5. Unseen(s, Over(Completed(d, FALSE))) /\ Unseen(s, Over(d)) /\ Unseen(s, Begin(d, "connecting"))
    BY <1>2, <2>1, <2>3, <2>4, UnseenTwice
  <2> QED BY <2>2, <2>5
<1>11. CASE OnConnect(id)
  <2>1. Becomes(id, IF s.io = "failed" THEN Over(Completed(s, FALSE))
                    ELSE IF Stops(s) THEN Over(s) ELSE Begin(s, "writing"))
    BY <1>11 DEF OnConnect
  <2>2. Unseen(s, Begin(s, "writing"))
    BY <1>1, <1>2, <1>5
  <2> QED BY <1>4, <1>5, <2>1, <2>2
<1>12. CASE OnWrite(id)
  <2>1. Becomes(id, IF s.io = "failed" THEN Over(Completed(s, FALSE))
                    ELSE IF Stops(s) THEN Over(s) ELSE Begin(s, "reading"))
    BY <1>12 DEF OnWrite
  <2>2. Unseen(s, Begin(s, "reading"))
    BY <1>1, <1>2, <1>5
  <2> QED BY <1>4, <1>5, <2>1, <2>2
<1>13. CASE OnRead(id)
  <2>1. PICK good \in {FALSE, s.io = "ok"} : Becomes(id, Over(Completed(s, good)))
    BY <1>13 DEF OnRead
  <2>2. good \in BOOLEAN
    BY <2>1, Zenon
  <2> QED BY <1>4, <2>1, <2>2
<1> QED BY <1>6, <1>7, <1>8, <1>9, <1>10, <1>11, <1>12, <1>13

\* One session's finish, and nothing else of the sessions, changes.
LEMMA FinishChanges ==
  ASSUME Registered, NEW id \in Submitted, NEW f \in {"open", "closed", "freed", "answered"},
         sessions' = [sessions EXCEPT ![id].finish = f]
  PROVE  /\ Registered' /\ Submitted' = Submitted
         /\ sessions'[id].kind = sessions[id].kind /\ sessions'[id].agent = sessions[id].agent
         /\ sessions'[id].finish = f
         /\ \A j \in Submitted \ {id} : sessions'[j] = sessions[j]
<1>1. sessions \in [Submitted -> Record]
  BY DEF Registered
<1> DEFINE new == [sessions[id] EXCEPT !.finish = f]
<1>2. new \in Record /\ new.kind = sessions[id].kind /\ new.agent = sessions[id].agent /\ new.finish = f
  BY <1>1 DEF Record
<1>3. sessions' = [sessions EXCEPT ![id] = new]
  OBVIOUS
<1> HIDE DEF new
<1>4. /\ sessions' \in [Submitted -> Record] /\ sessions'[id] = new /\ Submitted' = Submitted
      /\ \A j \in Submitted \ {id} : sessions'[j] = sessions[j]
  BY <1>1, <1>2, <1>3 DEF Submitted
<1>5. Registered'
  BY <1>4 DEF Registered
<1> QED BY <1>2, <1>4, <1>5

\* The slot goes back, once.
LEMMA SlotFreed ==
  ASSUME Consistent, NEW id \in Submitted, sessions[id].finish = "closed",
         sessions' = [sessions EXCEPT ![id].finish = "freed"],
         slots' = [slots EXCEPT ![sessions[id].kind] = @ - 1],
         UNCHANGED <<responses, answers, world>>
  PROVE  Consistent'
<1> DEFINE k == sessions[id].kind
<1>1. /\ Registered' /\ Submitted' = Submitted
      /\ sessions'[id].kind = k /\ sessions'[id].agent = sessions[id].agent
      /\ sessions'[id].finish = "freed"
      /\ \A j \in Submitted \ {id} : sessions'[j] = sessions[j]
  BY FinishChanges DEF Consistent
<1>2. responses' = responses /\ answers' = answers /\ asked' = asked /\ choice' = choice
  BY DEF world
<1>3. \A j \in Submitted :
        /\ sessions'[j].kind = sessions[j].kind /\ sessions'[j].agent = sessions[j].agent
        /\ sessions'[j].finish = "answered" <=> sessions[j].finish = "answered"
  BY <1>1
<1>4. SlotsHeld'
  <2>1. k \in Kinds
    BY DEF Consistent, Registered, Record
  <2>2. slots \in [Kinds -> Nat] /\ \A q \in Kinds : slots[q] = Cardinality(Held(q))
    BY DEF Consistent, SlotsHeld
  <2>3. id \in Held(k) /\ Held(k)' = Held(k) \ {id}
    BY <1>1, <1>3 DEF Held, Of
  <2>4. \A q \in Kinds \ {k} : Held(q)' = Held(q)
    BY <1>1, <1>3 DEF Held, Of
  <2>5. IsFiniteSet(Held(k)) /\ Cardinality(Held(k)) \in Nat
    BY HeldFinite DEF Consistent
  <2>6. Cardinality(Held(k) \ {id}) = Cardinality(Held(k)) - 1
    BY <2>3, <2>5, FS_RemoveElement
  <2>7. IsFiniteSet(Held(k) \ {id})
    BY <2>3, <2>5, FS_RemoveElement
  <2>8. Cardinality(Held(k) \ {id}) \in Nat
    BY <2>7, FS_CardinalityType
  <2>9. slots'[k] = Cardinality(Held(k)')
    BY <2>1, <2>2, <2>3, <2>6
  <2>10. \A q \in Kinds \ {k} : slots'[q] = Cardinality(Held(q)')
    BY <2>1, <2>2, <2>4
  <2>11. slots' \in [Kinds -> Nat]
    BY <2>1, <2>2, <2>3, <2>8, <2>9
  <2> QED BY <2>9, <2>10, <2>11 DEF SlotsHeld
<1>5. Replies'
  BY <1>1, <1>2, <1>3 DEF Consistent, Replies
<1>6. Expected'
  <2>1. \A j \in Submitted : Due(j)' <=> Due(j)
    BY <1>2, <1>3 DEF Due, Queued
  <2> QED BY <1>1, <1>2, <1>3, <2>1 DEF Consistent, Expected
<1> QED BY <1>1, <1>4, <1>5, <1>6 DEF Consistent

\* The response is queued, once.
LEMMA ResponseQueued ==
  ASSUME Consistent, NEW id \in Submitted, sessions[id].finish = "freed",
         sessions' = [sessions EXCEPT ![id].finish = "answered"],
         responses' = Append(responses, [id |-> id, good |-> sessions[id].good]),
         answers' = [answers EXCEPT ![id] = @ + 1],
         UNCHANGED <<slots, world>>
  PROVE  Consistent'
<1>1. /\ Registered' /\ Submitted' = Submitted
      /\ sessions'[id].kind = sessions[id].kind /\ sessions'[id].agent = sessions[id].agent
      /\ sessions'[id].finish = "answered"
      /\ \A j \in Submitted \ {id} : sessions'[j] = sessions[j]
  BY FinishChanges DEF Consistent
<1>2. slots' = slots /\ asked' = asked /\ choice' = choice
  BY DEF world
<1>3. \A j \in Submitted :
        /\ sessions'[j].kind = sessions[j].kind /\ sessions'[j].agent = sessions[j].agent
        /\ sessions'[j].finish \in {"open", "closed"} <=> sessions[j].finish \in {"open", "closed"}
  BY <1>1
<1>4. SlotsHeld'
  <2>1. \A q : Held(q)' = Held(q)
    BY <1>1, <1>3 DEF Held, Of
  <2> QED BY <1>2, <2>1 DEF Consistent, SlotsHeld
<1> DEFINE r == [id |-> id, good |-> sessions[id].good]
<1>5. id \in Ids /\ sessions[id].good \in BOOLEAN /\ Submitted \subseteq Ids
  BY IdsInOrder DEF Consistent, Registered, Record
<1>6. responses \in Seq([id : Ids, good : BOOLEAN])
  BY DEF Consistent, Replies
<1>7. r \in [id : Ids, good : BOOLEAN] /\ r.id = id
  BY <1>5
<1>8. responses' = Append(responses, r)
  OBVIOUS
<1> HIDE DEF r
<1>9. /\ responses' \in Seq([id : Ids, good : BOOLEAN])
      /\ Len(responses) \in Nat /\ Len(responses') = Len(responses) + 1
      /\ responses'[Len(responses) + 1] = r
      /\ \A i \in 1..Len(responses) : responses'[i] = responses[i]
  BY <1>6, <1>7, <1>8
<1>10. ~ Queued(id)
  BY DEF Queued, Consistent, Replies
<1>11. Replies'
  <2>1. answers' \in [Ids -> Nat]
    BY <1>5 DEF Consistent, Replies
  <2>2. \A j \in Ids : answers'[j] = IF j \in Submitted' /\ sessions'[j].finish = "answered" THEN 1 ELSE 0
    BY <1>1, <1>5 DEF Consistent, Replies
  <2>3. \A i \in 1..Len(responses') : /\ responses'[i].id \in Submitted'
                                      /\ sessions'[responses'[i].id].finish = "answered"
    <3> TAKE i \in 1..Len(responses')
    <3>1. CASE i = Len(responses) + 1
      BY <1>1, <1>7, <1>9, <3>1
    <3>2. CASE i \in 1..Len(responses)
      <4>1. /\ responses'[i] = responses[i] /\ responses[i].id \in Submitted
            /\ sessions[responses[i].id].finish = "answered"
        BY <1>9, <3>2 DEF Consistent, Replies
      <4> QED BY <1>1, <4>1
    <3> QED BY <1>9, <3>1, <3>2
  <2>4. \A i, j \in 1..Len(responses') : responses'[i].id = responses'[j].id => i = j
    <3>1. \A i, j \in 1..Len(responses) : responses[i].id = responses[j].id => i = j
      BY DEF Consistent, Replies
    <3>2. \A i \in 1..Len(responses) : responses[i].id # id
      BY <1>10 DEF Queued
    <3>3. \A i \in 1..Len(responses') : i \in 1..Len(responses) \/ i = Len(responses) + 1
      BY <1>9
    <3> QED BY <1>7, <1>9, <3>1, <3>2, <3>3
  <2> QED BY <1>9, <2>1, <2>2, <2>3, <2>4 DEF Replies
<1>12. Expected'
  <2>1. \A j \in Submitted : Queued(j)' <=> Queued(j) \/ j = id
    BY <1>7, <1>9 DEF Queued
  <2>2. \A j \in Submitted : Due(j)' <=> Due(j)
    <3> TAKE j \in Submitted
    <3>1. CASE j = id
      BY <2>1, <3>1 DEF Due
    <3>2. CASE j # id
      BY <1>1, <2>1, <3>2 DEF Due
    <3> QED BY <3>1, <3>2
  <2> QED BY <1>1, <1>2, <1>3, <2>2 DEF Consistent, Expected
<1> QED BY <1>1, <1>4, <1>11, <1>12 DEF Consistent

LEMMA SessionStep ==
  ASSUME Consistent, NEW id \in Submitted, Session(id)
  PROVE  Consistent'
<1>1. CASE FinishStep(id)
  BY <1>1, SlotFreed, ResponseQueued DEF FinishStep
<1>2. CASE ~ FinishStep(id)
  BY <1>2, HandlerStep DEF Session
<1> QED BY <1>1, <1>2

---------------------------------------------------------------------------
(* The world thread *)

LEMMA SubmitStep ==
  ASSUME Consistent, NEW k \in Kinds, NEW a \in Agents, Submit(k, a)
  PROVE  Consistent'
<1> DEFINE n == NextRequestId
           t == [kind |-> k, agent |-> a, stage |-> "posted", io |-> "none", timer |-> "off",
                 finish |-> "open", good |-> FALSE, shut |-> FALSE]
<1>1. /\ asked[k][a] = 0 /\ n \in Ids
      /\ slots' = [slots EXCEPT ![k] = @ + 1]
      /\ sessions' = [id \in Submitted \cup {n} |-> IF id \in Submitted THEN sessions[id] ELSE t]
      /\ asked' = [asked EXCEPT ![k][a] = n]
      /\ responses' = responses /\ answers' = answers /\ choice' = choice
  BY DEF Submit, Admitted
<1>2. /\ Submitted \subseteq Ids /\ IsFiniteSet(Submitted) /\ 0 \notin Submitted
      /\ n \in Nat \ {0} /\ n \notin Submitted
      /\ \E m \in 0..MaxId : Submitted \cup {n} = 1..m
  BY <1>1, IdsInOrder DEF Consistent
<1>3. t \in Record /\ t.kind = k /\ t.agent = a /\ t.finish = "open"
  BY DEF Record
<1> HIDE DEF n, t
<1>4. /\ Submitted' = Submitted \cup {n} /\ sessions'[n] = t
      /\ \A id \in Submitted : sessions'[id] = sessions[id]
  BY <1>1, <1>2 DEF Submitted
<1>5. Registered'
  <2>1. sessions' \in [Submitted' -> Record]
    <3>1. \A id \in Submitted \cup {n} : (IF id \in Submitted THEN sessions[id] ELSE t) \in Record
      BY <1>3 DEF Consistent, Registered
    <3> QED BY <1>1, <1>4, <3>1
  <2> QED BY <1>2, <1>4, <2>1 DEF Registered
<1>6. SlotsHeld'
  <2>1. slots \in [Kinds -> Nat] /\ \A q \in Kinds : slots[q] = Cardinality(Held(q))
    BY DEF Consistent, SlotsHeld
  <2>2. Held(k)' = Held(k) \cup {n} /\ n \notin Held(k)
    BY <1>2, <1>3, <1>4 DEF Held, Of
  <2>3. \A q \in Kinds \ {k} : Held(q)' = Held(q)
    BY <1>2, <1>3, <1>4 DEF Held, Of
  <2>4. IsFiniteSet(Held(k)) /\ Cardinality(Held(k)) \in Nat
    BY HeldFinite DEF Consistent
  <2>5. Cardinality(Held(k) \cup {n}) = Cardinality(Held(k)) + 1
    BY <2>2, <2>4, FS_AddElement
  <2>6. slots'[k] = Cardinality(Held(k)')
    BY <1>1, <2>1, <2>2, <2>5
  <2>7. \A q \in Kinds \ {k} : slots'[q] = Cardinality(Held(q)')
    BY <1>1, <2>1, <2>3
  <2>8. slots' \in [Kinds -> Nat]
    BY <1>1, <2>1
  <2> QED BY <2>6, <2>7, <2>8 DEF SlotsHeld
<1>7. \A i \in 1..Len(responses) : responses[i].id \in Submitted
  BY DEF Consistent, Replies
<1>8. Replies'
  BY <1>1, <1>2, <1>3, <1>4 DEF Consistent, Replies
<1>9. Expected'
  <2>1. \A j \in Submitted : Due(j)' <=> Due(j)
    BY <1>1, <1>4 DEF Due, Queued
  <2>2. sessions'[n].finish # "answered"
    BY <1>3, <1>4
  <2>3. /\ asked \in [Kinds -> [Agents -> Nat]] /\ choice \in [Agents -> Nat]
        /\ \A q \in Kinds, b \in Agents :
             asked[q][b] # 0 => /\ asked[q][b] \in Submitted
                                /\ sessions[asked[q][b]].kind = q /\ sessions[asked[q][b]].agent = b
                                /\ q \notin Abandoned => Due(asked[q][b])
        /\ \A id \in Submitted :
             Due(id) /\ sessions[id].kind \notin Abandoned
               => asked[sessions[id].kind][sessions[id].agent] = id
        /\ \A b \in Agents : choice[b] # 0 => "recovery" \in Kinds /\ choice[b] = asked["recovery"][b]
    BY DEF Consistent, Expected
  <2>4. /\ asked' \in [Kinds -> [Agents -> Nat]] /\ asked'[k][a] = n
        /\ \A q \in Kinds, b \in Agents : q # k \/ b # a => asked'[q][b] = asked[q][b]
    BY <1>1, <1>2, <2>3
  <2>5. ASSUME NEW q \in Kinds, NEW b \in Agents, asked'[q][b] # 0
        PROVE  /\ asked'[q][b] \in Submitted'
               /\ sessions'[asked'[q][b]].kind = q /\ sessions'[asked'[q][b]].agent = b
               /\ q \notin Abandoned => Due(asked[q][b])'
    <3>1. CASE q = k /\ b = a
      BY <1>3, <1>4, <2>2, <2>4, <3>1 DEF Due, Queued
    <3>2. CASE q # k \/ b # a
      <4>1. asked'[q][b] = asked[q][b] /\ asked[q][b] \in Submitted
        BY <2>3, <2>4, <2>5, <3>2
      <4>2. q \notin Abandoned => Due(asked[q][b])'
        <5> SUFFICES ASSUME q \notin Abandoned PROVE Due(asked[q][b])'
          OBVIOUS
        <5> DEFINE j == asked[q][b]
        <5>1. Due(j)
          BY <2>3, <4>1, <1>2
        <5>2. j' = j /\ j \in Submitted
          BY <4>1
        <5>3. sessions[j].finish # "answered" \/ \E i \in 1..Len(responses) : responses[i].id = j
          BY <5>1 DEF Due, Queued
        <5>4. sessions'[j].finish # "answered" \/ \E i \in 1..Len(responses') : responses'[i].id = j
          BY <1>1, <1>4, <5>2, <5>3
        <5> QED BY <5>2, <5>4 DEF Due, Queued
      <4> QED BY <1>2, <1>4, <2>3, <4>1, <4>2
    <3> QED BY <3>1, <3>2
  <2>6. ASSUME NEW id \in Submitted', Due(id)', sessions'[id].kind \notin Abandoned
        PROVE  asked'[sessions'[id].kind][sessions'[id].agent] = id
    <3>1. CASE id = n
      BY <1>3, <1>4, <2>4, <3>1
    <3>2. CASE id \in Submitted
      <4>1. Due(id) /\ sessions[id].kind \notin Abandoned /\ sessions'[id] = sessions[id]
        BY <1>4, <2>1, <2>6, <3>2
      <4>2. /\ asked[sessions[id].kind][sessions[id].agent] = id
            /\ sessions[id].kind \in Kinds /\ sessions[id].agent \in Agents
        BY <2>3, <3>2, <4>1 DEF Consistent, Registered, Record
      <4>3. sessions[id].kind # k \/ sessions[id].agent # a
        BY <1>1, <1>2, <3>2, <4>2
      <4> QED BY <2>4, <4>1, <4>2, <4>3
    <3> QED BY <1>4, <3>1, <3>2
  <2>7. \A b \in Agents : choice'[b] # 0 => "recovery" \in Kinds /\ choice'[b] = asked'["recovery"][b]
    BY <1>1, <2>3, <2>4
  <2> QED BY <1>1, <2>3, <2>4, <2>5, <2>6, <2>7 DEF Expected
<1> QED BY <1>5, <1>6, <1>8, <1>9 DEF Consistent

\* The world forgets what it waits for, of a kind it may give up.
LEMMA GiveUpStep ==
  ASSUME Consistent, NEW k \in Abandoned \cap Kinds, NEW a \in Agents,
         asked' = [asked EXCEPT ![k][a] = 0],
         choice' = IF k = "recovery" THEN [choice EXCEPT ![a] = 0] ELSE choice,
         UNCHANGED client
  PROVE  Consistent'
<1>1. sessions' = sessions /\ slots' = slots /\ responses' = responses /\ answers' = answers
  BY DEF client
<1>2. Registered' /\ SlotsHeld' /\ Replies'
  BY <1>1 DEF Consistent, Registered, SlotsHeld, Replies, Submitted, Held, Of
<1>3. \A j : Due(j)' <=> Due(j)
  BY <1>1 DEF Due, Queued
<1>4. Submitted' = Submitted
  BY <1>1 DEF Submitted
<1>5. /\ asked \in [Kinds -> [Agents -> Nat]] /\ choice \in [Agents -> Nat]
      /\ \A q \in Kinds, b \in Agents :
           asked[q][b] # 0 => /\ asked[q][b] \in Submitted
                              /\ sessions[asked[q][b]].kind = q /\ sessions[asked[q][b]].agent = b
                              /\ q \notin Abandoned => Due(asked[q][b])
      /\ \A id \in Submitted :
           Due(id) /\ sessions[id].kind \notin Abandoned
             => asked[sessions[id].kind][sessions[id].agent] = id
      /\ \A b \in Agents : choice[b] # 0 => "recovery" \in Kinds /\ choice[b] = asked["recovery"][b]
  BY DEF Consistent, Expected
<1>6. /\ asked' \in [Kinds -> [Agents -> Nat]] /\ asked'[k][a] = 0
      /\ \A q \in Kinds, b \in Agents : q # k \/ b # a => asked'[q][b] = asked[q][b]
  BY <1>5
<1>7. /\ choice' \in [Agents -> Nat]
      /\ k = "recovery" => choice'[a] = 0
      /\ \A b \in Agents : choice'[b] # 0 => choice'[b] = choice[b]
  BY <1>5
<1>8. \A q \in Kinds, b \in Agents :
        asked'[q][b] # 0 => /\ asked'[q][b] \in Submitted'
                            /\ sessions'[asked'[q][b]].kind = q /\ sessions'[asked'[q][b]].agent = b
                            /\ q \notin Abandoned => Due(asked'[q][b])
  BY <1>1, <1>4, <1>5, <1>6
<1>9. \A id \in Submitted' :
        Due(id)' /\ sessions'[id].kind \notin Abandoned
          => asked'[sessions'[id].kind][sessions'[id].agent] = id
  <2>1. \A id \in Submitted : sessions[id].kind \in Kinds /\ sessions[id].agent \in Agents
    BY DEF Consistent, Registered, Record
  <2> QED BY <1>1, <1>3, <1>4, <1>5, <1>6, <2>1
<1>10. \A b \in Agents : choice'[b] # 0 => "recovery" \in Kinds /\ choice'[b] = asked'["recovery"][b]
  BY <1>5, <1>6, <1>7
<1>11. \A q \in Kinds, b \in Agents : Due(asked[q][b])' <=> Due(asked'[q][b])
  BY <1>1 DEF Due, Queued
<1>12. Expected'
  <2>1. ASSUME NEW q \in Kinds, NEW b \in Agents, asked'[q][b] # 0
        PROVE  /\ asked'[q][b] \in Submitted'
               /\ sessions'[asked'[q][b]].kind = q /\ sessions'[asked'[q][b]].agent = b
               /\ q \notin Abandoned => Due(asked[q][b])'
    BY <1>8, <1>11, <2>1
  <2>2. ASSUME NEW id \in Submitted', Due(id)', sessions'[id].kind \notin Abandoned
        PROVE  asked'[sessions'[id].kind][sessions'[id].agent] = id
    BY <1>9, <2>2
  <2>3. asked' \in [Kinds -> [Agents -> Nat]] /\ choice' \in [Agents -> Nat]
    BY <1>6, <1>7
  <2> QED BY <1>10, <2>1, <2>2, <2>3 DEF Expected
<1> QED BY <1>2, <1>12 DEF Consistent

LEMMA AdviceStep ==
  ASSUME Consistent, NEW a \in Agents, UseAdvice(a)
  PROVE  Consistent'
<1>1. "recovery" \in Kinds
  BY DEF UseAdvice, Consistent, Expected
<1> QED BY <1>1, GiveUpStep DEF UseAdvice, Abandoned

\* Draining a response: what is left of the queue has no other of that session.
LEMMA Drained ==
  ASSUME Replies, responses # <<>>, responses' = Tail(responses),
         UNCHANGED <<sessions, answers>>
  PROVE  /\ Replies'
         /\ Head(responses).id \in Submitted /\ Head(responses).good \in BOOLEAN
         /\ Queued(Head(responses).id) /\ sessions[Head(responses).id].finish = "answered"
         /\ \A j : Queued(j)' <=> Queued(j) /\ j # Head(responses).id
<1> DEFINE R == [id : Ids, good : BOOLEAN]
           n == Len(responses)
<1>1. responses \in Seq(R)
  BY DEF Replies
<1>2. /\ n \in Nat /\ n > 0 /\ Head(responses) = responses[1] /\ responses[1] \in R
      /\ responses' \in Seq(R) /\ Len(responses') = n - 1
      /\ \A i \in 1..(n - 1) : responses'[i] = responses[i + 1]
  <2> HIDE DEF R
  <2>1. n \in Nat /\ n > 0 /\ Head(responses) = responses[1]
    BY <1>1
  <2>2. responses[1] \in R
    BY <1>1, <2>1
  <2>3. responses' \in Seq(R) /\ Len(responses') = n - 1
    BY <1>1
  <2>4. \A i \in 1..(n - 1) : responses'[i] = responses[i + 1]
    BY <1>1
  <2> QED BY <2>1, <2>2, <2>3, <2>4
<1>3. /\ responses[1].id \in Submitted /\ sessions[responses[1].id].finish = "answered"
      /\ responses[1].good \in BOOLEAN
  BY <1>2 DEF Replies
<1>4. \A i, j \in 1..n : responses[i].id = responses[j].id => i = j
  BY DEF Replies
<1>5. Submitted' = Submitted
  BY DEF Submitted
<1>6. ASSUME NEW j PROVE Queued(j)' <=> Queued(j) /\ j # responses[1].id
  <2>1. ASSUME NEW i \in 1..(n - 1), responses'[i].id = j PROVE Queued(j) /\ j # responses[1].id
    <3>1. i + 1 \in 1..n /\ 1 \in 1..n /\ responses[i + 1].id = j /\ i + 1 # 1
      BY <1>2, <2>1
    <3>2. j # responses[1].id
      BY <1>4, <3>1
    <3> QED BY <3>1, <3>2 DEF Queued
  <2>2. ASSUME NEW i \in 1..n, responses[i].id = j, j # responses[1].id
        PROVE  i - 1 \in 1..(n - 1) /\ responses'[i - 1].id = j
    <3>1. i # 1
      BY <2>2
    <3>2. i - 1 \in 1..(n - 1) /\ (i - 1) + 1 = i
      BY <1>2, <3>1
    <3> QED BY <1>2, <2>2, <3>2
  <2> QED BY <1>2, <2>1, <2>2 DEF Queued
<1>7. Replies'
  <2>1. ASSUME NEW i \in 1..(n - 1)
        PROVE  i + 1 \in 1..n /\ responses'[i] = responses[i + 1]
    BY <1>2
  <2>2. \A i \in 1..(n - 1) : /\ responses'[i].id \in Submitted
                              /\ sessions[responses'[i].id].finish = "answered"
    BY <2>1 DEF Replies
  <2>3. \A i, j \in 1..(n - 1) : responses'[i].id = responses'[j].id => i = j
    <3> TAKE i, j \in 1..(n - 1)
    <3>1. responses'[i].id = responses'[j].id => i + 1 = j + 1
      BY <1>4, <2>1
    <3> QED BY <1>2, <3>1
  <2> QED BY <1>2, <1>5, <2>2, <2>3 DEF Replies
<1>8. Queued(responses[1].id)
  BY <1>2 DEF Queued
<1> QED BY <1>2, <1>3, <1>6, <1>7, <1>8

LEMMA HandleStep ==
  ASSUME Consistent, Handle
  PROVE  Consistent'
<1> DEFINE r == Head(responses)
           i == r.id
           k == sessions[i].kind
           a == sessions[i].agent
<1>1. /\ responses # <<>> /\ responses' = Tail(responses)
      /\ sessions' = sessions /\ slots' = slots /\ answers' = answers
  BY DEF Handle
<1>2. /\ Replies' /\ i \in Submitted /\ r.good \in BOOLEAN /\ Queued(i)
      /\ sessions[i].finish = "answered"
      /\ \A j : Queued(j)' <=> Queued(j) /\ j # i
  BY <1>1, Drained DEF Consistent
<1>3. \/ /\ k = "decision" \/ asked[k][a] = i
         /\ asked' = [asked EXCEPT ![k][a] = 0]
         /\ choice' = IF k = "recovery" THEN [choice EXCEPT ![a] = 0] ELSE choice
      \/ /\ k = "recovery" /\ asked[k][a] = i
         /\ choice' = [choice EXCEPT ![a] = i] /\ asked' = asked
      \/ k # "decision" /\ asked[k][a] # i /\ asked' = asked /\ choice' = choice
  BY DEF Handle, world
<1>4. k \in Kinds /\ a \in Agents /\ \A j \in Submitted : sessions[j].kind \in Kinds /\ sessions[j].agent \in Agents
  BY <1>2 DEF Consistent, Registered, Record
<1>5. i # 0
  BY <1>2, IdsInOrder DEF Consistent
<1>6. k = sessions[i].kind /\ a = sessions[i].agent
  OBVIOUS
<1> HIDE DEF i, k, a
<1>7. /\ asked \in [Kinds -> [Agents -> Nat]] /\ choice \in [Agents -> Nat]
      /\ \A q \in Kinds, b \in Agents :
           asked[q][b] # 0 => /\ asked[q][b] \in Submitted
                              /\ sessions[asked[q][b]].kind = q /\ sessions[asked[q][b]].agent = b
                              /\ q \notin Abandoned => Due(asked[q][b])
      /\ \A id \in Submitted :
           Due(id) /\ sessions[id].kind \notin Abandoned
             => asked[sessions[id].kind][sessions[id].agent] = id
      /\ \A b \in Agents : choice[b] # 0 => "recovery" \in Kinds /\ choice[b] = asked["recovery"][b]
  BY DEF Consistent, Expected
<1>8. Submitted' = Submitted /\ Registered' /\ SlotsHeld'
  BY <1>1 DEF Consistent, Registered, SlotsHeld, Submitted, Held, Of
<1>9. ASSUME NEW j \in Submitted
      PROVE  /\ Due(j)' => Due(j) /\ j # i
             /\ Due(j) /\ j # i => Due(j)'
  BY <1>1, <1>2 DEF Due
<1>10. Due(i)
  BY <1>2 DEF Due
<1>11. k \notin Abandoned => asked[k][a] = i
  BY <1>2, <1>6, <1>7, <1>10
<1>12. \A q \in Kinds, b \in Agents : asked[q][b] = i => q = k /\ b = a
  BY <1>5, <1>6, <1>7
\* The mark of k and a is gone, or it is advice, or it never was of this session.
<1>13. /\ asked' \in [Kinds -> [Agents -> Nat]]
       /\ \A q \in Kinds, b \in Agents : q # k \/ b # a => asked'[q][b] = asked[q][b]
       /\ \/ asked[k][a] = i /\ asked'[k][a] = 0
          \/ asked'[k][a] = asked[k][a] /\ k \in Abandoned
  <2>1. "decision" \notin Abandoned /\ "recovery" \in Abandoned
    BY DEF Abandoned
  <2>2. asked \in [Kinds -> [Agents -> Nat]] /\ (k = "decision" => asked[k][a] = i)
    BY <1>7, <1>11, <2>1
  <2>3. CASE asked[k][a] = i /\ asked' = [asked EXCEPT ![k][a] = 0]
    BY <1>4, <2>2, <2>3
  <2>4. CASE asked' = asked /\ (k = "recovery" \/ (k # "decision" /\ asked[k][a] # i))
    BY <1>11, <2>1, <2>2, <2>4
  <2> QED BY <1>3, <2>2, <2>3, <2>4
<1>14. /\ choice' \in [Agents -> Nat]
       /\ \A b \in Agents : choice'[b] # 0 => "recovery" \in Kinds /\ choice'[b] = asked'["recovery"][b]
  <2>1. i \in Nat
    BY <1>2, IdsInOrder DEF Consistent, Ids
  <2>2. CASE /\ k = "decision" \/ asked[k][a] = i
             /\ asked' = [asked EXCEPT ![k][a] = 0]
             /\ choice' = IF k = "recovery" THEN [choice EXCEPT ![a] = 0] ELSE choice
    <3>1. CASE k = "recovery"
      <4>1. /\ choice' \in [Agents -> Nat] /\ choice'[a] = 0
            /\ \A b \in Agents \ {a} : choice'[b] = choice[b]
        BY <1>4, <1>7, <2>2, <3>1
      <4> QED BY <1>4, <1>7, <1>13, <3>1, <4>1
    <3>2. CASE k # "recovery"
      BY <1>7, <1>13, <2>2, <3>2
    <3> QED BY <3>1, <3>2
  <2>3. CASE /\ k = "recovery" /\ asked[k][a] = i
             /\ choice' = [choice EXCEPT ![a] = i] /\ asked' = asked
    <3>1. /\ choice' \in [Agents -> Nat] /\ choice'[a] = i
          /\ \A b \in Agents \ {a} : choice'[b] = choice[b]
      BY <1>4, <1>7, <2>1, <2>3
    <3> QED BY <1>4, <1>7, <2>3, <3>1
  <2>4. CASE k # "decision" /\ asked[k][a] # i /\ asked' = asked /\ choice' = choice
    BY <1>7, <2>4
  <2> QED BY <1>3, <2>2, <2>3, <2>4
<1>15. Expected'
  <2>1. ASSUME NEW q \in Kinds, NEW b \in Agents, asked'[q][b] # 0
        PROVE  /\ asked'[q][b] = asked[q][b]
               /\ q \notin Abandoned => asked[q][b] # i
    <3>1. CASE q = k /\ b = a
      BY <1>13, <2>1, <3>1
    <3>2. CASE q # k \/ b # a
      BY <1>12, <1>13, <3>2
    <3> QED BY <3>1, <3>2
  <2>2. ASSUME NEW q \in Kinds, NEW b \in Agents, asked'[q][b] # 0
        PROVE  /\ asked'[q][b] \in Submitted'
               /\ sessions'[asked'[q][b]].kind = q /\ sessions'[asked'[q][b]].agent = b
               /\ q \notin Abandoned => Due(asked[q][b])'
    <3> DEFINE j == asked[q][b]
    <3>1. asked'[q][b] = j /\ j \in Submitted /\ sessions[j].kind = q /\ sessions[j].agent = b
      BY <1>7, <2>1, <2>2
    <3>2. ASSUME q \notin Abandoned PROVE Due(asked[q][b])'
      <4>1. Due(j) /\ j # i /\ asked'[q][b] = asked[q][b]
        BY <1>7, <2>1, <2>2, <3>2
      <4>2. sessions[j].finish # "answered" \/ Queued(j)
        BY <4>1 DEF Due
      <4>3. Queued(j) => \E m \in 1..Len(responses') : responses'[m].id = asked[q][b]
        <5> DEFINE w == asked[q][b]
        <5> SUFFICES ASSUME Queued(w) PROVE \E m \in 1..Len(responses') : responses'[m].id = w
          OBVIOUS
        <5>1. \A v : v # i /\ (\E m \in 1..Len(responses) : responses[m].id = v)
                  => \E m \in 1..Len(responses') : responses'[m].id = v
          BY <1>2 DEF Queued
        <5> QED BY <4>1, <5>1 DEF Queued
      <4> QED BY <1>1, <4>1, <4>2, <4>3 DEF Due, Queued
    <3> QED BY <1>1, <1>8, <3>1, <3>2
  <2>3. ASSUME NEW id \in Submitted', Due(id)', sessions'[id].kind \notin Abandoned
        PROVE  asked'[sessions'[id].kind][sessions'[id].agent] = id
    <3>1. id \in Submitted /\ sessions' = sessions
      BY <1>1, <1>8, <2>3
    <3>2. Due(id) /\ id # i
      BY <1>9, <2>3, <3>1
    <3>3. asked[sessions[id].kind][sessions[id].agent] = id
      BY <1>7, <2>3, <3>1, <3>2
    <3>4. sessions[id].kind # k \/ sessions[id].agent # a
      BY <1>11, <2>3, <3>1, <3>2, <3>3
    <3> QED BY <1>4, <1>13, <3>1, <3>3, <3>4
  <2> QED BY <1>13, <1>14, <2>2, <2>3 DEF Expected
<1> QED BY <1>2, <1>8, <1>15 DEF Consistent

---------------------------------------------------------------------------
(* The invariant, and the properties that follow from it *)

LEMMA InitConsistent == ASSUME Init PROVE Consistent
<1>1. Submitted = {} /\ Len(responses) = 0
  BY DEF Init, Submitted
<1>2. Registered
  <2>1. MaxId \in Nat /\ {} = 1..0
    BY InferenceConstants
  <2>2. sessions \in [Submitted -> Record]
    BY <1>1 DEF Init, Submitted
  <2> QED BY <1>1, <2>1, <2>2 DEF Registered
<1>3. SlotsHeld
  <2>1. \A k : Held(k) = {}
    BY <1>1 DEF Held, Of
  <2> QED BY <2>1, FS_EmptySet DEF Init, SlotsHeld
<1>4. Replies
  BY <1>1 DEF Init, Replies
<1>5. Expected
  BY <1>1 DEF Init, Expected
<1> QED BY <1>2, <1>3, <1>4, <1>5 DEF Consistent

LEMMA NextConsistent == ASSUME Consistent, [Next]_vars PROVE Consistent'
<1>1. ASSUME NEW k \in Kinds, NEW a \in Agents, Submit(k, a) PROVE Consistent'
  BY <1>1, SubmitStep
<1>2. ASSUME NEW k \in Kinds, NEW a \in Agents, GiveUp(k, a) PROVE Consistent'
  BY <1>2, GiveUpStep DEF GiveUp
<1>3. ASSUME NEW a \in Agents, UseAdvice(a) PROVE Consistent'
  BY <1>3, AdviceStep
<1>4. CASE Handle
  BY <1>4, HandleStep
<1>5. ASSUME NEW id \in Submitted, Session(id) PROVE Consistent'
  BY <1>5, SessionStep
<1>6. CASE UNCHANGED vars
  <2>1. \A k : Held(k)' = Held(k)
    BY <1>6 DEF vars, client, Held, Of, Submitted
  <2> QED BY <1>6, <2>1 DEF vars, client, world, Consistent, Registered, SlotsHeld, Replies, Expected,
                        Submitted, Due, Queued
<1> QED BY <1>1, <1>2, <1>3, <1>4, <1>5, <1>6 DEF Next

\* The counters, the queue of responses and the marks of the world thread agree
\* with the sessions, whatever timers, operations and threads do.
THEOREM InferenceConsistent == Spec => []Consistent
<1>1. Init => Consistent
  BY InitConsistent
<1>2. Consistent /\ [Next]_vars => Consistent'
  BY NextConsistent
<1> QED BY <1>1, <1>2, PTL DEF Spec

\* A sequence whose elements lie in a set is a sequence over that set.
LEMMA SeqOver ==
  ASSUME NEW S, NEW T, NEW s \in Seq(S), \A i \in 1..Len(s) : s[i] \in T
  PROVE  s \in Seq(T)
<1>1. Len(s) \in Nat /\ s \in [1..Len(s) -> S]
  OBVIOUS
<1>2. s \in [1..Len(s) -> T]
  BY <1>1
<1>3. Seq(T) = UNION {[1..n -> T] : n \in Nat}
  OBVIOUS
<1> QED BY <1>1, <1>2, <1>3

\* A kind's waiting agents are finitely many: each waits for a session of its own.
LEMMA WaitingFinite ==
  ASSUME Consistent, NEW k \in Kinds
  PROVE  IsFiniteSet(Waiting(k)) /\ Cardinality(Waiting(k)) \in Nat
<1> DEFINE f == [a \in Waiting(k) |-> asked[k][a]]
<1>1. \A a \in Waiting(k) : asked[k][a] \in Submitted /\ sessions[asked[k][a]].agent = a
  BY DEF Consistent, Expected, Waiting
<1>2. f \in Injection(Waiting(k), Submitted)
  BY <1>1 DEF Injection, IsInjective
<1> QED BY <1>2, FS_Injection, FS_CardinalityType, IdsInOrder DEF Consistent

\* Of a kind the world never gives up, each held slot has a waiting agent of its own.
LEMMA HeldWaited ==
  ASSUME Consistent, NEW k \in Kinds \ Abandoned
  PROVE  Cardinality(Held(k)) <= Cardinality(Waiting(k))
<1> DEFINE f == [id \in Held(k) |-> sessions[id].agent]
<1>1. ASSUME NEW id \in Held(k)
      PROVE  sessions[id].agent \in Waiting(k) /\ asked[k][sessions[id].agent] = id
  <2>1. id \in Submitted /\ sessions[id].kind = k /\ Due(id) /\ sessions[id].agent \in Agents
    BY DEF Held, Of, Due, Consistent, Registered, Record
  <2>2. asked[k][sessions[id].agent] = id /\ id # 0
    BY <2>1, IdsInOrder DEF Consistent, Expected
  <2> QED BY <2>1, <2>2 DEF Waiting
<1>2. f \in Injection(Held(k), Waiting(k))
  BY <1>1 DEF Injection, IsInjective
<1> QED BY <1>2, FS_Injection, WaitingFinite

\* A slot is held from the submission to the end of its session, given back
\* once, and the scheduler's own count is never below the client's
\* (FinishRequest and the completion handlers of AIClient).
THEOREM InferenceSlots == Spec => []SlotsExact
<1>1. Consistent => SlotsExact
  <2> SUFFICES ASSUME Consistent PROVE SlotsExact
    OBVIOUS
  <2>1. Submitted \subseteq Ids /\ IsFiniteSet(Submitted) /\ MaxId \in Nat
    BY IdsInOrder, InferenceConstants DEF Consistent
  <2>2. \A k \in Kinds : slots[k] = Cardinality(Held(k)) /\ slots[k] \in Nat
    BY DEF Consistent, SlotsHeld
  <2>3. \A k \in Kinds : slots[k] \in 0..MaxId
    <3> TAKE k \in Kinds
    <3>1. IsFiniteSet(1..MaxId) /\ Cardinality(1..MaxId) <= MaxId
      BY <2>1, FS_Interval
    <3>2. Held(k) \in SUBSET (1..MaxId)
      BY <2>1, HeldFinite DEF Consistent, Ids
    <3>3. Cardinality(Held(k)) <= Cardinality(1..MaxId) /\ Cardinality(1..MaxId) \in Nat
      BY <3>1, <3>2, FS_Subset, FS_CardinalityType
    <3> QED BY <2>1, <2>2, <3>1, <3>3
  <2>4. TypeOK
    <3>1. \A id \in Submitted : sessions[id] \in Record
      BY DEF Consistent, Registered
    <3>2. slots \in [Kinds -> 0..MaxId]
      BY <2>3 DEF Consistent, SlotsHeld
    <3>3. responses \in Seq([id : Submitted, good : BOOLEAN])
      <4>1. responses \in Seq([id : Ids, good : BOOLEAN])
            /\ \A i \in 1..Len(responses) : responses[i].id \in Submitted
        BY DEF Consistent, Replies
      <4>2. \A i \in 1..Len(responses) : responses[i] \in [id : Submitted, good : BOOLEAN]
        <5> TAKE i \in 1..Len(responses)
        <5> DEFINE R == [id : Ids, good : BOOLEAN]
        <5>1. responses[i] \in R
          <6> HIDE DEF R
          <6>1. responses \in Seq(R)
            BY <4>1 DEF R
          <6> QED BY <6>1
        <5>2. responses[i].id \in Submitted
          BY <4>1
        <5> QED BY <5>1, <5>2
      <4> QED BY <4>1, <4>2, SeqOver
    <3>4. answers \in [Ids -> Nat]
      BY DEF Consistent, Replies
    <3>5. /\ asked \in [Kinds -> [Agents -> Nat]] /\ choice \in [Agents -> Nat]
          /\ \A k \in Kinds, a \in Agents : asked[k][a] = 0 \/ asked[k][a] \in Submitted
          /\ \A a \in Agents : choice[a] # 0 => "recovery" \in Kinds /\ choice[a] = asked["recovery"][a]
      BY DEF Consistent, Expected
    <3>6. \A k \in Kinds, a \in Agents : asked[k][a] \in 0..MaxId
      BY <2>1, <3>5 DEF Ids
    <3>7. asked \in [Kinds -> [Agents -> 0..MaxId]]
      <4>1. \A k \in Kinds : asked[k] \in [Agents -> 0..MaxId]
        BY <3>5, <3>6
      <4> QED BY <3>5, <4>1
    <3>8. choice \in [Agents -> 0..MaxId]
      <4>1. \A a \in Agents : choice[a] \in 0..MaxId
        BY <2>1, <3>5, <3>6
      <4> QED BY <3>5, <4>1
    <3> QED BY <3>1, <3>2, <3>3, <3>4, <3>7, <3>8 DEF TypeOK, Record
  <2>5. \A k \in Kinds \ Abandoned : slots[k] <= Cardinality(Waiting(k))
    BY <2>2, HeldWaited
  <2> QED BY <2>2, <2>4, <2>5 DEF SlotsExact, Held
<1> QED BY <1>1, InferenceConsistent, PTL

\* A request has one response, and has it as soon as its session says so (the
\* exchange of _completed in every session class).
THEOREM InferenceOneAnswer == Spec => []OneAnswer
<1>1. Consistent => OneAnswer
  BY IdsInOrder DEF Consistent, Replies, OneAnswer
<1> QED BY <1>1, InferenceConsistent, PTL

\* What the world thread waits for is what is still to come (AwaitingResponse,
\* the pending dynamic tasks and the recovery advice of an agent).
THEOREM InferenceWaits == Spec => []WaitsForWhatComes
<1>1. Consistent => WaitsForWhatComes
  <2> SUFFICES ASSUME Consistent PROVE WaitsForWhatComes
    OBVIOUS
  <2>1. ASSUME NEW k \in Kinds \ Abandoned, NEW a \in Agents
        PROVE  Open(k, a) = IF asked[k][a] = 0 THEN {} ELSE {asked[k][a]}
    <3>1. \A id : id \in Open(k, a) <=> id \in Submitted /\ sessions[id].kind = k /\ sessions[id].agent = a /\ Due(id)
      BY DEF Open, Of, Due, Queued
    <3>2. \A id \in Open(k, a) : asked[k][a] = id /\ id # 0
      BY <3>1, IdsInOrder DEF Consistent, Expected
    <3>3. asked[k][a] # 0 => asked[k][a] \in Open(k, a)
      BY <3>1 DEF Consistent, Expected
    <3> QED BY <3>2, <3>3
  <2>2. "recovery" \in Kinds => \A a \in Agents : choice[a] # 0 => choice[a] = asked["recovery"][a]
    BY DEF Consistent, Expected
  <2> QED BY <2>1, <2>2 DEF WaitsForWhatComes
<1> QED BY <1>1, InferenceConsistent, PTL

---------------------------------------------------------------------------
(* Connections *)

\* Complete() has closed the socket of a session whose handlers share one strand.
CutOff(s) == s.kind \in OneStrand /\ s.finish # "open" => s.shut

Admissions ==
  /\ \A id \in Submitted : CutOff(sessions[id])
  /\ \A k \in Kinds : slots[k] <= Limit[k]

\* Nothing a handler does to a session opens its socket again.
LEMMA StaysCutOff ==
  ASSUME NEW s \in Record, CutOff(s)
  PROVE  /\ CutOff(Over(s))
         /\ \A stage : CutOff(Begin(s, stage))
         /\ \A io : CutOff([s EXCEPT !.io = io])
         /\ \A timer : CutOff([s EXCEPT !.timer = timer])
         /\ \A timer, io : CutOff([s EXCEPT !.timer = timer, !.io = io])
         /\ \A f \in {"closed", "freed", "answered"} : s.finish # "open" => CutOff([s EXCEPT !.finish = f])
BY DEF CutOff, Over, Begin, Record

\* The end of a session closes its socket.
LEMMA CompletedCutOff ==
  ASSUME NEW s \in Record, CutOff(s), NEW good \in BOOLEAN
  PROVE  CutOff(Completed(s, good)) /\ CutOff(Over(Completed(s, good)))
<1>1. CutOff(Completed(s, good))
  <2>1. CASE s.finish # "open"
    BY <2>1 DEF Completed
  <2>2. CASE s.finish = "open" /\ s.kind \in OneStrand
    BY <2>2 DEF Completed, Closed, CutOff, Record
  <2>3. CASE s.finish = "open" /\ s.kind \notin OneStrand
    BY <2>3 DEF Completed, Closed, CutOff, Record
  <2> QED BY <2>1, <2>2, <2>3
<1>2. Completed(s, good) \in Record
  BY RecordParts DEF Unseen
<1> QED BY <1>1, <1>2, StaysCutOff

\* A handler of a session leaves its socket closed once the request is over.
LEMMA HandlerCutOff ==
  ASSUME NEW id \in Submitted, sessions[id] \in Record, CutOff(sessions[id]),
         Run(id) \/ IoEnds(id) \/ TimerExpires(id) \/ OnResolveTimeout(id)
           \/ OnResolve(id) \/ OnConnect(id) \/ OnWrite(id) \/ OnRead(id)
  PROVE  \E new : Becomes(id, new) /\ CutOff(new)
<1> DEFINE s == sessions[id]
<1>0. s \in Record /\ CutOff(s)
  OBVIOUS
<1>1. CASE Run(id)
  <2> DEFINE b == Begin(s, "resolving")
  <2>1. b \in Record /\ CutOff(b)
    BY <1>0, RecordParts, StaysCutOff DEF Unseen
  <2>2. Becomes(id, [b EXCEPT !.timer = "armed"])
    BY <1>1 DEF Run
  <2> HIDE DEF b
  <2> QED BY <2>1, <2>2, StaysCutOff
<1>2. CASE IoEnds(id)
  BY <1>0, <1>2, StaysCutOff DEF IoEnds
<1>3. CASE TimerExpires(id)
  BY <1>0, <1>3, StaysCutOff DEF TimerExpires
<1>4. CASE OnResolveTimeout(id)
  <2> DEFINE c == [s EXCEPT !.timer = "off",
                     !.io = IF s.stage = "resolving" /\ @ = "running" THEN "failed" ELSE @]
  <2>1. c \in Record /\ CutOff(c)
    BY <1>0 DEF Record, CutOff
  <2>2. Becomes(id, Completed(c, FALSE))
    BY <1>4 DEF OnResolveTimeout
  <2> HIDE DEF c
  <2> QED BY <2>1, <2>2, CompletedCutOff
<1>5. CASE OnResolve(id)
  <2> DEFINE d == IF s.timer = "armed" /\ s.kind \notin TotalDeadline
                  THEN [s EXCEPT !.timer = "off"] ELSE s
  <2>1. d \in Record /\ CutOff(d)
    BY <1>0 DEF Record, CutOff
  <2>2. Becomes(id, IF s.io = "failed" THEN Over(Completed(d, FALSE))
                    ELSE IF s.finish # "open" THEN Over(d)
                    ELSE Begin(d, "connecting"))
    BY <1>5 DEF OnResolve
  <2> HIDE DEF d
  <2> QED BY <2>1, <2>2, StaysCutOff, CompletedCutOff
<1>6. CASE OnConnect(id)
  <2>1. Becomes(id, IF s.io = "failed" THEN Over(Completed(s, FALSE))
                    ELSE IF Stops(s) THEN Over(s) ELSE Begin(s, "writing"))
    BY <1>6 DEF OnConnect
  <2> QED BY <1>0, <2>1, StaysCutOff, CompletedCutOff
<1>7. CASE OnWrite(id)
  <2>1. Becomes(id, IF s.io = "failed" THEN Over(Completed(s, FALSE))
                    ELSE IF Stops(s) THEN Over(s) ELSE Begin(s, "reading"))
    BY <1>7 DEF OnWrite
  <2> QED BY <1>0, <2>1, StaysCutOff, CompletedCutOff
<1>8. CASE OnRead(id)
  <2>1. PICK good \in {FALSE, s.io = "ok"} : Becomes(id, Over(Completed(s, good)))
    BY <1>8 DEF OnRead
  <2>2. good \in BOOLEAN
    BY <2>1, Zenon
  <2> QED BY <1>0, <2>1, <2>2, CompletedCutOff
<1> QED BY <1>1, <1>2, <1>3, <1>4, <1>5, <1>6, <1>7, <1>8

LEMMA AdmissionsStep ==
  ASSUME Consistent, Admissions, [Next]_vars
  PROVE  Admissions'
<1>0. /\ sessions \in [Submitted -> Record] /\ \A k \in Kinds : slots[k] \in Nat /\ Limit[k] \in Nat
      /\ slots \in [Kinds -> Nat]
  BY InferenceConstants DEF Consistent, Registered, SlotsHeld
<1>1. ASSUME sessions' = sessions, slots' = slots PROVE Admissions'
  BY <1>1 DEF Admissions, Submitted
<1>2. ASSUME NEW k \in Kinds, NEW a \in Agents, Submit(k, a) PROVE Admissions'
  <2> DEFINE n == NextRequestId
             t == [kind |-> k, agent |-> a, stage |-> "posted", io |-> "none", timer |-> "off",
                   finish |-> "open", good |-> FALSE, shut |-> FALSE]
  <2>1. /\ slots[k] < Limit[k] /\ slots' = [slots EXCEPT ![k] = @ + 1]
        /\ sessions' = [id \in Submitted \cup {n} |-> IF id \in Submitted THEN sessions[id] ELSE t]
    BY <1>2 DEF Submit
  <2>2. CutOff(t)
    BY DEF CutOff
  <2> HIDE DEF n, t
  <2>3. \A id \in Submitted' : CutOff(sessions'[id])
    BY <2>1, <2>2 DEF Submitted, Admissions
  <2>4. \A l \in Kinds : slots'[l] <= Limit[l]
    BY <1>0, <2>1 DEF Admissions
  <2> QED BY <2>3, <2>4 DEF Admissions
<1>3. ASSUME NEW id \in Submitted, Session(id) PROVE Admissions'
  <2>1. CASE FinishStep(id)
    <3>1. PICK f \in {"freed", "answered"} :
            sessions[id].finish # "open" /\ sessions' = [sessions EXCEPT ![id].finish = f]
      BY <2>1 DEF FinishStep
    <3>2. CutOff([sessions[id] EXCEPT !.finish = f])
      BY <1>0, <3>1, StaysCutOff DEF Admissions
    <3>3. sessions' = [sessions EXCEPT ![id] = [sessions[id] EXCEPT !.finish = f]]
      BY <3>1
    <3>4. \A j \in Submitted' : CutOff(sessions'[j])
      BY <1>0, <3>2, <3>3 DEF Submitted, Admissions
    <3>5. slots' = slots \/ slots' = [slots EXCEPT ![sessions[id].kind] = @ - 1]
      BY <2>1 DEF FinishStep
    <3>6. \A l \in Kinds : slots'[l] <= Limit[l]
      BY <1>0, <3>5 DEF Admissions
    <3> QED BY <3>4, <3>6 DEF Admissions
  <2>2. CASE ~ FinishStep(id)
    <3>1. PICK new : Becomes(id, new) /\ CutOff(new)
      BY <1>0, <1>3, <2>2, HandlerCutOff DEF Session, Admissions
    <3>2. \A j \in Submitted' : CutOff(sessions'[j])
      BY <1>0, <3>1 DEF Becomes, Submitted, Admissions
    <3> QED BY <3>1, <3>2 DEF Becomes, Admissions
  <2> QED BY <2>1, <2>2
<1>4. ASSUME NEW k \in Kinds, NEW a \in Agents, GiveUp(k, a) PROVE Admissions'
  BY <1>1, <1>4 DEF GiveUp, client
<1>5. ASSUME NEW a \in Agents, UseAdvice(a) PROVE Admissions'
  BY <1>1, <1>5 DEF UseAdvice, client
<1>6. CASE Handle
  BY <1>1, <1>6 DEF Handle
<1>7. CASE UNCHANGED vars
  BY <1>1, <1>7 DEF vars, client
<1> QED BY <1>2, <1>3, <1>4, <1>5, <1>6, <1>7 DEF Next

\* What ConnectionsBounded says, of the kinds whose stream runs on the strand of
\* the resolver.
OneStrandBounded == \A k \in Kinds \cap OneStrand : Cardinality(Talking(k)) <= Limit[k]

\* The server never has more task, recovery or npc requests than their limit,
\* although the slot of a request is given back before its session's last handlers
\* have run.  ConnectionsBounded fails only where a session has a second strand.
THEOREM InferenceConnections == Spec => []OneStrandBounded
<1>1. ASSUME Init PROVE Admissions
  <2>1. Submitted = {} /\ \A k \in Kinds : slots[k] = 0 /\ Limit[k] \in Nat
    BY <1>1, InferenceConstants DEF Init, Submitted
  <2> QED BY <2>1 DEF Admissions
<1>2. ASSUME Consistent, Admissions PROVE OneStrandBounded
  <2> SUFFICES ASSUME NEW k \in Kinds \cap OneStrand PROVE Cardinality(Talking(k)) <= Limit[k]
    BY DEF OneStrandBounded
  <2>1. ASSUME NEW id \in Talking(k) PROVE id \in Held(k)
    <3>1. id \in Submitted /\ sessions[id].kind = k /\ ~ sessions[id].shut
      BY <2>1 DEF Talking, Of
    <3>2. sessions[id].finish = "open"
      BY <1>2, <3>1 DEF Admissions, CutOff
    <3> QED BY <3>1, <3>2 DEF Held, Of
  <2>2. IsFiniteSet(Held(k)) /\ Talking(k) \in SUBSET Held(k)
    BY <1>2, <2>1, HeldFinite DEF Consistent
  <2>3. Cardinality(Talking(k)) <= Cardinality(Held(k)) /\ Cardinality(Talking(k)) \in Nat
    BY <2>2, FS_Subset, FS_CardinalityType
  <2>4. Cardinality(Held(k)) = slots[k] /\ slots[k] \in Nat /\ slots[k] <= Limit[k] /\ Limit[k] \in Nat
    BY <1>2, InferenceConstants DEF Consistent, SlotsHeld, Admissions
  <2> QED BY <2>3, <2>4
<1>3. Consistent /\ Admissions /\ [Next]_vars => Admissions'
  BY AdmissionsStep
<1> QED BY <1>1, <1>2, <1>3, InferenceConsistent, PTL DEF Spec
=============================================================================
