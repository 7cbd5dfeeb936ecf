------------------------------ MODULE Inference ------------------------------
(***************************************************************************)
(* Requests to the external ai-server: the sessions that AIClient runs on  *)
(* the threads of the io_context, and what the world thread remembers of   *)
(* its requests until their responses are drained.                         *)
(*                                                                         *)
(* A session resolves, connects, writes and reads, one asynchronous        *)
(* operation at a time, each with a deadline; its handlers run on strands. *)
(* The handlers of a dynamic-task, recovery or npc-agent request share one *)
(* strand; those of a decision are split over the strand of the resolver,  *)
(* with its timer, and the strand of the stream.  A timer or an operation  *)
(* that is over may have its handler queued already when it is cancelled.  *)
(*                                                                         *)
(* What is asked and answered is left out; a health check is a decision    *)
(* nobody waits for, with a limit of one.                                  *)
(***************************************************************************)
EXTENDS Integers, Sequences, FiniteSets

CONSTANTS
    Agents,
    Kinds,      \* AIRequestType: a subset of AllKinds
    Limit,      \* sessions of each kind AIClient admits at a time
    MaxId       \* bound: requests submitted

AllKinds == {"decision", "task", "recovery", "npc"}

\* Kinds whose stream runs on the strand of the resolver.
OneStrand == {"task", "recovery", "npc"}

\* Kinds whose resolve timer goes on as the deadline of the whole request.
TotalDeadline == {"recovery", "npc"}

\* Kinds the world thread gives up before they are answered.
Abandoned == {"recovery", "npc"}

ASSUME InferenceConstants ==
    /\ Kinds \subseteq AllKinds
    /\ Limit \in [Kinds -> Nat \ {0}]
    /\ MaxId \in Nat

Ids == 1..MaxId

VARIABLES
    sessions,   \* the session of every request submitted so far
    slots,      \* DecisionsInFlight, DynamicTasksInFlight, ...
    responses,  \* ResponseQueue
    answers,    \* responses ever queued for an id (history, read by no action)
    asked,      \* id the world thread waits for, of each kind and agent, or 0
    choice      \* id of the request whose reply the advice of an agent holds, or 0

client == <<sessions, slots, responses, answers>>
world == <<asked, choice>>
vars == <<client, world>>

Submitted == DOMAIN sessions

Of(k) == {id \in Submitted : sessions[id].kind = k}

NextRequestId == Cardinality(Submitted) + 1

(***************************************************************************)
(* Requests of the world thread.                                           *)
(***************************************************************************)
Waiting(k) == {a \in Agents : asked[k][a] # 0}

\* The world's own admission: decisions are counted by AwaitingResponse, tasks
\* by their pending entries, the others are admitted by the client alone.
\* A definition named ..._BadXyz is a plausible slip in the definition after it.
\* Slip: an agent that waits already is not left out.
Admitted_BadTwice(k, a) == k \in {"decision", "task"} => Cardinality(Waiting(k)) < Limit[k]

Admitted(k, a) ==
    /\ asked[k][a] = 0
    /\ k \in {"decision", "task"} => Cardinality(Waiting(k)) < Limit[k]

Submit(k, a) ==
    /\ Admitted(k, a) /\ slots[k] < Limit[k] /\ NextRequestId \in Ids
    /\ slots' = [slots EXCEPT ![k] = @ + 1]
    /\ sessions' = [id \in Submitted \union {NextRequestId} |->
           IF id \in Submitted THEN sessions[id]
           ELSE [kind |-> k, agent |-> a, stage |-> "posted", io |-> "none", timer |-> "off",
                 finish |-> "open", good |-> FALSE, shut |-> FALSE]]
    /\ asked' = [asked EXCEPT ![k][a] = NextRequestId]
    /\ UNCHANGED <<responses, answers, choice>>

\* The advice is not fresh any more, or the NPC became unavailable.
GiveUp(k, a) ==
    /\ k \in Abandoned /\ asked[k][a] # 0
    /\ asked' = [asked EXCEPT ![k][a] = 0]
    /\ choice' = IF k = "recovery" THEN [choice EXCEPT ![a] = 0] ELSE choice
    /\ UNCHANGED client

\* FinishChoice: the candidate the reply names is taken or declined.
UseAdvice(a) ==
    /\ choice[a] # 0
    /\ asked' = [asked EXCEPT !["recovery"][a] = 0]
    /\ choice' = [choice EXCEPT ![a] = 0]
    /\ UNCHANGED client

\* The next response in the drain loop of an update.
\* Slip: a response is matched by its agent alone.
Handle_BadAgent ==
    LET r == Head(responses) s == sessions[r.id] k == s.kind a == s.agent IN
    /\ responses # <<>>
    /\ responses' = Tail(responses)
    /\ \/ /\ k # "recovery" \/ ~ r.good
          /\ asked' = [asked EXCEPT ![k][a] = 0]
          /\ choice' = IF k = "recovery" THEN [choice EXCEPT ![a] = 0] ELSE choice
       \/ /\ k = "recovery" /\ r.good /\ asked[k][a] # 0
          /\ choice' = [choice EXCEPT ![a] = r.id]
          /\ UNCHANGED asked
    /\ UNCHANGED <<sessions, slots, answers>>

Handle ==
    LET r == Head(responses) s == sessions[r.id] k == s.kind a == s.agent IN
    /\ responses # <<>>
    /\ responses' = Tail(responses)
    /\ \/ /\ k = "decision" \/ asked[k][a] = r.id     \* answered, or refused as advice
          /\ asked' = [asked EXCEPT ![k][a] = 0]
          /\ choice' = IF k = "recovery" THEN [choice EXCEPT ![a] = 0] ELSE choice
       \/ /\ k = "recovery" /\ asked[k][a] = r.id /\ r.good
          /\ choice' = [choice EXCEPT ![a] = r.id]
          /\ UNCHANGED asked
       \/ /\ k # "decision" /\ asked[k][a] # r.id     \* a late answer
          /\ UNCHANGED world
    /\ UNCHANGED <<sessions, slots, answers>>

(***************************************************************************)
(* The end of a session: whoever wins the exchange of _completed closes    *)
(* the socket, gives the slot back and queues the one response.            *)
(***************************************************************************)
Connected(s) == s.stage \in {"writing", "reading"} \/ (s.stage = "connecting" /\ s.io = "ok")

\* What Complete() does to the socket and timer of the session.  Shutting down
\* a socket that is still connecting need not stop it: the error is ignored, and
\* the next address of the host is tried; IoEnds then chooses the outcome.
Closed(s) ==
    IF s.kind \in OneStrand
    THEN [s EXCEPT !.shut = TRUE,
                   !.timer = IF @ = "armed" THEN "off" ELSE @,
                   !.io = IF @ = "running" THEN "failed" ELSE @]
    ELSE [s EXCEPT !.shut = Connected(s)]

\* Slip: the exchange is missing.
Completed_BadAgain(s, good) == [Closed(s) EXCEPT !.finish = "closed", !.good = good]

Completed(s, good) ==
    IF s.finish = "open" THEN [Closed(s) EXCEPT !.finish = "closed", !.good = good] ELSE s

\* The rest of Complete(): first the slot, then the response.
\* Slip: the response is queued while the slot is still held.
FinishStep_BadOrder(id) ==
    LET s == sessions[id] IN
    \/ /\ s.finish = "closed"
       /\ sessions' = [sessions EXCEPT ![id].finish = "freed"]
       /\ responses' = Append(responses, [id |-> id, good |-> s.good])
       /\ answers' = [answers EXCEPT ![id] = @ + 1]
       /\ UNCHANGED <<slots, world>>
    \/ /\ s.finish = "freed"
       /\ sessions' = [sessions EXCEPT ![id].finish = "answered"]
       /\ slots' = [slots EXCEPT ![s.kind] = @ - 1]
       /\ UNCHANGED <<responses, answers, world>>

FinishStep(id) ==
    LET s == sessions[id] IN
    \/ /\ s.finish = "closed"
       /\ sessions' = [sessions EXCEPT ![id].finish = "freed"]
       /\ slots' = [slots EXCEPT ![s.kind] = @ - 1]
       /\ UNCHANGED <<responses, answers, world>>
    \/ /\ s.finish = "freed"
       /\ sessions' = [sessions EXCEPT ![id].finish = "answered"]
       /\ responses' = Append(responses, [id |-> id, good |-> s.good])
       /\ answers' = [answers EXCEPT ![id] = @ + 1]
       /\ UNCHANGED <<slots, world>>

(***************************************************************************)
(* The stages of a session.                                                *)
(***************************************************************************)
Becomes(id, s) ==
    /\ sessions' = [sessions EXCEPT ![id] = s]
    /\ UNCHANGED <<slots, responses, answers, world>>

Begin(s, stage) == [s EXCEPT !.stage = stage, !.io = "running"]

Over(s) == [s EXCEPT !.stage = "over", !.io = "none"]

\* A handler may run: the operation of its stage is over.
Ready(s, stage) == s.stage = stage /\ s.io \in {"ok", "failed"}

Run(id) ==
    LET s == sessions[id] IN
    /\ s.stage = "posted"
    /\ Becomes(id, [Begin(s, "resolving") EXCEPT !.timer = "armed"])

\* The network answers, an error occurs, or the deadline of the stream passes.
IoEnds(id) ==
    LET s == sessions[id] IN
    /\ s.io = "running"
    /\ \E outcome \in {"ok", "failed"} :
        /\ s.shut => outcome = "failed"
        /\ Becomes(id, [s EXCEPT !.io = outcome])

TimerExpires(id) ==
    /\ sessions[id].timer = "armed"
    /\ Becomes(id, [sessions[id] EXCEPT !.timer = "fired"])

OnResolveTimeout(id) ==
    LET s == sessions[id]
        cancelled == [s EXCEPT !.timer = "off",
            !.io = IF s.stage = "resolving" /\ @ = "running" THEN "failed" ELSE @]
    IN  /\ s.timer = "fired"
        /\ Becomes(id, Completed(cancelled, FALSE))

OnResolve(id) ==
    LET s == sessions[id]
        disarmed == IF s.timer = "armed" /\ s.kind \notin TotalDeadline
                    THEN [s EXCEPT !.timer = "off"] ELSE s
    IN  /\ Ready(s, "resolving")
        /\ Becomes(id, IF s.io = "failed" THEN Over(Completed(disarmed, FALSE))
                       ELSE IF s.finish # "open" THEN Over(disarmed)
                       ELSE Begin(disarmed, "connecting"))

\* Only the handlers on one strand look whether the request is over.
Stops(s) == s.kind \in OneStrand /\ s.finish # "open"

\* Slip: a connection that cannot be made is forgotten.
OnConnect_BadSilent(id) ==
    LET s == sessions[id] IN
    /\ Ready(s, "connecting")
    /\ Becomes(id, IF s.io = "failed" \/ Stops(s) THEN Over(s) ELSE Begin(s, "writing"))

OnConnect(id) ==
    LET s == sessions[id] IN
    /\ Ready(s, "connecting")
    /\ Becomes(id, IF s.io = "failed" THEN Over(Completed(s, FALSE))
                   ELSE IF Stops(s) THEN Over(s) ELSE Begin(s, "writing"))

OnWrite(id) ==
    LET s == sessions[id] IN
    /\ Ready(s, "writing")
    /\ Becomes(id, IF s.io = "failed" THEN Over(Completed(s, FALSE))
                   ELSE IF Stops(s) THEN Over(s) ELSE Begin(s, "reading"))

\* A body that is read may still be refused.
OnRead(id) ==
    LET s == sessions[id] IN
    /\ Ready(s, "reading")
    /\ \E good \in {FALSE, s.io = "ok"} : Becomes(id, Over(Completed(s, good)))

Init ==
    /\ sessions = <<>> /\ slots = [k \in Kinds |-> 0]
    /\ responses = <<>> /\ answers = [id \in Ids |-> 0]
    /\ asked = [k \in Kinds |-> [a \in Agents |-> 0]]
    /\ choice = [a \in Agents |-> 0]

Session(id) ==
    \/ Run(id) \/ IoEnds(id) \/ TimerExpires(id) \/ OnResolveTimeout(id)
    \/ OnResolve(id) \/ OnConnect(id) \/ OnWrite(id) \/ OnRead(id) \/ FinishStep(id)

Next ==
    \/ \E k \in Kinds, a \in Agents : Submit(k, a) \/ GiveUp(k, a)
    \/ \E a \in Agents : UseAdvice(a)
    \/ Handle
    \/ \E id \in Submitted : Session(id)

Spec == Init /\ [][Next]_vars

\* The threads of the io_context run every handler that is ready, every
\* operation has a deadline, and every update drains responses.
FairSpec ==
    /\ Spec
    /\ WF_vars(Handle)
    /\ \A id \in Ids : WF_vars(id \in Submitted /\ Session(id))

-----------------------------------------------------------------------------
(***************************************************************************)
(* Properties.                                                             *)
(***************************************************************************)
\* The shape of the state; no counter ever wraps below zero.
TypeOK ==
    /\ \A id \in Submitted : sessions[id] \in
           [kind : Kinds, agent : Agents,
            stage : {"posted", "resolving", "connecting", "writing", "reading", "over"},
            io : {"none", "running", "ok", "failed"}, timer : {"off", "armed", "fired"},
            finish : {"open", "closed", "freed", "answered"}, good : BOOLEAN, shut : BOOLEAN]
    /\ slots \in [Kinds -> 0..MaxId]
    /\ responses \in Seq([id : Submitted, good : BOOLEAN])
    /\ answers \in [Ids -> Nat]
    /\ asked \in [Kinds -> [Agents -> 0..MaxId]]
    /\ choice \in [Agents -> 0..MaxId]

\* A slot is held from the submission to the end of the session: none is lost
\* when a timer, a cancelled operation and an answer meet, and none is freed twice.
\* The world's own estimate is never below the client's counter, so a request
\* the scheduler admits is never skipped by the client.
SlotsExact ==
    /\ TypeOK
    /\ \A k \in Kinds : slots[k] = Cardinality({id \in Of(k) : sessions[id].finish \in {"open", "closed"}})
    /\ \A k \in Kinds \ Abandoned : slots[k] <= Cardinality(Waiting(k))

\* However its timers and operations race, a request has at most one response,
\* and has it as soon as its session says so.
OneAnswer ==
    \A id \in Submitted : answers[id] = IF sessions[id].finish = "answered" THEN 1 ELSE 0

\* The requests of a kind and an agent that are not yet drained.
Open(k, a) ==
    {id \in Of(k) : sessions[id].agent = a /\
        (sessions[id].finish # "answered" \/ \E i \in 1..Len(responses) : responses[i].id = id)}

\* What the world thread waits for is exactly what is still to come, so that
\* a decision may clear the mark of its agent without looking at its id; and the
\* choice that will be looked up among the candidates of an agent is the reply
\* to the request these candidates were sent with.
WaitsForWhatComes ==
    /\ \A k \in Kinds \ Abandoned, a \in Agents :
           Open(k, a) = IF asked[k][a] = 0 THEN {} ELSE {asked[k][a]}
    /\ "recovery" \in Kinds =>
           \A a \in Agents : choice[a] # 0 => choice[a] = asked["recovery"][a]

\* The sessions of a kind that occupy a connection to the server.
Talking(k) == {id \in Of(k) : sessions[id].stage \in {"writing", "reading"} /\ ~ sessions[id].shut}

\* The server never has more requests of a kind than its limit, although a
\* slot is given back before the session's last handlers have run.
ConnectionsBounded == \A k \in Kinds : Cardinality(Talking(k)) <= Limit[k]

\* Every request of the world is answered: no slot, no agent and no quest
\* source waits for ever, whatever the network does.
EveryRequestEnds ==
    /\ \A k \in Kinds, a \in Agents : k \notin Abandoned => (asked[k][a] # 0 ~> asked[k][a] = 0)
    /\ \A id \in Ids : id \in Submitted ~> answers[id] = 1

=============================================================================
