------------------------ MODULE GroupLifecycleProofs ------------------------
(***************************************************************************)
(* What holds of agent groups for any agents, workers, profiles and ids,   *)
(* as long as no connection is lost inside a transaction (lost = 0; a lost *)
(* one breaks it, see NoOrphanMembership).                                 *)
(*                                                                         *)
(* The invariant has two halves.  Executing: a transaction submitted once  *)
(* is queued, with one worker, or has its one result, and a worker has     *)
(* executed the statements that precede those it has still to execute.     *)
(* Then queue and workers matter only by the set of their operations,      *)
(* Unfinished, and the rest speaks of that set, of the results that wait   *)
(* for the world thread, and of what they say about the difference between *)
(* the tables and the registry.                                            *)
(***************************************************************************)
EXTENDS GroupLifecycle, TLAPS

IsSave(op) == op.do = "save"

Queued == {queue[i] : i \in 1..Len(queue)}
Running == {worker[w].op : w \in {v \in Workers : Busy(v)}}
Unfinished == Queued \cup Running

Succeeded == {r.op : r \in {q \in results : q.ok}}

\* What waits to be told to the registry.
IsCreated(g) == \E op \in Succeeded : op.do = "create" /\ op.group = g
IsDissolved(g) == \E op \in Succeeded : op.do = "dissolve" /\ op.group = g
IsAdopted(g) == \E op \in Succeeded : op.do = "adopt" /\ op.group = g
HasJoined(g, a) == \E op \in Succeeded : op.do = "join" /\ op.group = g /\ op.arg = a
HasLeft(g, a) == \E op \in Succeeded : op.do = "leave" /\ op.group = g /\ op.arg = a

\* Operations of calls that claim their group.
Guarded == {"join", "leave", "dissolve"}

\* A transaction on its way through its statements.
InOrder(op, todo, done) ==
  \/ /\ op.do = "create"
     /\ \/ todo = <<"reserve", "insert group">> /\ done = {}
        \/ todo = <<"insert group">> /\ done = {"reserve"}
        \/ todo = <<>> /\ done = {"reserve", "insert group"}
  \/ /\ op.do = "dissolve"
     /\ \/ todo = <<"delete members", "delete group">> /\ done = {}
        \/ todo = <<"delete group">> /\ done = {"delete members"}
        \/ todo = <<>> /\ done = {"delete members", "delete group"}
  \/ /\ op.do \in {"join", "leave", "adopt"}
     /\ \/ todo = <<op.do>> /\ done = {}
        \/ todo = <<>> /\ done = {op.do}
  \/ op.do = "save" /\ todo \in {<<"save">>, <<>>} /\ done = {}

Runs == [op : Operations \cup Saves, todo : Seq(StatementNames), done : SUBSET StatementNames, auto : BOOLEAN]

Started(run) ==
  /\ run \in Runs
  /\ run.auto <=> IsSave(run.op)
  /\ InOrder(run.op, run.todo, run.done)

Executing ==
  /\ queue \in Seq(Operations \cup Saves)
  /\ worker \in [Workers -> Runs \cup {Idle}]
  /\ \A w \in Workers : Busy(w) => Started(worker[w])
  /\ results \subseteq [op : Operations, ok : BOOLEAN]
  /\ \A i, j \in 1..Len(queue) : queue[i] = queue[j] => i = j \/ IsSave(queue[i])
  /\ \A v, w \in Workers :
       Busy(v) /\ Busy(w) /\ worker[v].op = worker[w].op => v = w \/ IsSave(worker[v].op)
  /\ \A op \in Queued \cap Running : IsSave(op)
  /\ \A r \in results : r.op \notin Unfinished /\ r.op \in calls
  /\ \A q, r \in results : q.op = r.op => q = r
  /\ \A op \in Unfinished : IsSave(op) \/ op \in calls

Rows == [profile : Profiles, version : 0..MaxVersion]

Tables ==
  /\ rows \in [DOMAIN rows -> Rows] /\ DOMAIN rows \subseteq ever
  /\ edges \subseteq (DOMAIN rows) \X Agents
  /\ sequence \in Ids /\ \A g \in ever : g \in Ids /\ g < sequence

Registry ==
  /\ phase \in {"down", "init", "running"} /\ agents \subseteq Agents
  /\ nextId \in Ids /\ valid \in BOOLEAN
  /\ Up => valid /\ sequence <= nextId
  /\ refused \subseteq Ids \X Agents
  /\ groups \in [DOMAIN groups -> [profile : Profiles, members : SUBSET agents, version : 0..MaxVersion]]
  /\ DOMAIN groups \subseteq ever
  /\ memberOf \in [Agents -> SUBSET Ids] /\ IndexAgrees
  /\ pending \subseteq DOMAIN groups /\ adopting \subseteq DOMAIN groups
  /\ calls \subseteq Operations

\* Nothing survives a stop but the tables.
Stopped ==
  phase = "down" => /\ groups = <<>> /\ pending = {} /\ adopting = {} /\ calls = {}
                    /\ Unfinished = {} /\ results = {} /\ queue = <<>>
                    /\ \A w \in Workers : ~ Busy(w)

\* Which operations may be on their way at the same time.
Created ==
  /\ \A op \in calls \cup Unfinished : op.group < nextId
  /\ \A op \in calls : op.do = "create" =>
       /\ op.group \notin DOMAIN groups
       /\ op \notin Succeeded => op.group \notin ever
       /\ op \in Succeeded =>
            /\ op.group \in DOMAIN rows /\ rows[op.group].profile = op.arg
            /\ \A a \in Agents : <<op.group, a>> \notin edges
       /\ \A other \in calls \cup Unfinished : other.group = op.group => other = op

Claims ==
  /\ \A op \in calls : op.do \in Guarded => op.group \in pending
  /\ \A op, other \in calls :
       op.do \in Guarded /\ other.do \in Guarded /\ op.group = other.group => op = other
  /\ \A op \in calls : op.do = "join" => op.arg \in agents

Adoptions ==
  /\ \A op, other \in calls : op.do = "adopt" /\ other.do = "adopt" => op = other
  /\ \A op \in calls : op.do = "adopt" =>
       op.group \in adopting \/ (phase = "running" /\ op.group \notin DOMAIN groups \cup DOMAIN rows)

\* The difference between the registry and the tables is what the results
\* that wait say.
Settled ==
  Up =>
  /\ \A g \in DOMAIN rows \ DOMAIN groups : IsCreated(g)
  /\ \A g \in DOMAIN groups \ DOMAIN rows : IsDissolved(g)
  /\ \A op \in Succeeded : op.do = "dissolve" => op.group \notin DOMAIN rows
  /\ \A op \in calls : op.do \in {"join", "leave"} => op.group \in DOMAIN rows

Membership ==
  /\ \A op \in Succeeded : op.do = "join" => <<op.group, op.arg>> \in edges
  /\ \A op \in Succeeded : op.do = "leave" => <<op.group, op.arg>> \notin edges
  /\ \A g \in DOMAIN groups : \A a \in groups[g].members : 
       <<g, a>> \in edges \/ IsDissolved(g) \/ HasLeft(g, a)
  /\ \A g \in DOMAIN groups : \A a \in agents \ groups[g].members :
       <<g, a>> \notin edges \/ <<g, a>> \in refused \/ HasJoined(g, a)

\* A save on its way, and a confirmed adoption, say what the row's profile is.
ProfilesAgree ==
  /\ \A op \in Unfinished : IsSave(op) =>
       /\ phase = "running" /\ op.group \notin adopting /\ op.group \in ever
       /\ op.group \in DOMAIN groups => op.arg.profile = groups[op.group].profile
  /\ \A g \in DOMAIN groups \cap DOMAIN rows :
       rows[g].profile = groups[g].profile \/ IsAdopted(g)
  /\ \A op \in Succeeded : op.do = "adopt" /\ op.group \in DOMAIN rows => rows[op.group].profile = op.arg

Orderly ==
  /\ Executing /\ Tables /\ Registry /\ Stopped
  /\ Created /\ Claims /\ Adoptions /\ Settled /\ Membership /\ ProfilesAgree

Inv == lost \in 0..MaxLost /\ (lost = 0 => Orderly)

---------------------------------------------------------------------------
(* The queue, the workers and the results *)

LEMMA TailOf ==
  ASSUME NEW S, NEW s \in Seq(S), s # <<>>
  PROVE  /\ Len(s) \in Nat /\ Len(s) > 0 /\ Head(s) = s[1] /\ s[1] \in S
         /\ Tail(s) \in Seq(S) /\ Len(Tail(s)) = Len(s) - 1
         /\ \A i \in 1..(Len(s) - 1) : Tail(s)[i] = s[i + 1]
<1>1. Len(s) \in Nat /\ Len(s) > 0 /\ Head(s) = s[1]
  OBVIOUS
<1>2. s[1] \in S
  BY <1>1
<1>3. Tail(s) \in Seq(S) /\ Len(Tail(s)) = Len(s) - 1
  OBVIOUS
<1>4. \A i \in 1..(Len(s) - 1) : Tail(s)[i] = s[i + 1]
  OBVIOUS
<1> QED BY <1>1, <1>2, <1>3, <1>4

LEMMA AppendTo ==
  ASSUME NEW S, NEW s \in Seq(S), NEW e \in S
  PROVE  /\ Len(s) \in Nat /\ Append(s, e) \in Seq(S) /\ Len(Append(s, e)) = Len(s) + 1
         /\ Append(s, e)[Len(s) + 1] = e
         /\ \A i \in 1..Len(s) : Append(s, e)[i] = s[i]
OBVIOUS

LEMMA OneAndTwo ==
  ASSUME NEW S, NEW x \in S, NEW y \in S
  PROVE  <<x>> \in Seq(S) /\ <<x, y>> \in Seq(S)
OBVIOUS

LEMMA HeadOfTwo ==
  ASSUME NEW x, NEW y
  PROVE  /\ Head(<<x, y>>) = x /\ Tail(<<x, y>>) = <<y>>
         /\ Head(<<x>>) = x /\ Tail(<<x>>) = <<>>
OBVIOUS

\* A worker with a transaction is busy.
LEMMA RunNotIdle == \A run \in Runs : run # Idle
<1> SUFFICES ASSUME NEW run \in Runs, run = Idle PROVE FALSE
  OBVIOUS
<1>1. DOMAIN run = {"op", "todo", "done", "auto"}
  BY DEF Runs
<1>2. DOMAIN Idle = {"op"}
  BY DEF Idle
<1> QED BY <1>1, <1>2

\* The operations on their way, one by one.
LEMMA OnTheWay ==
  /\ \A op : op \in Queued <=> \E i \in 1..Len(queue) : queue[i] = op
  /\ \A op : op \in Running <=> \E w \in Workers : Busy(w) /\ worker[w].op = op
  /\ \A op : op \in Unfinished <=> op \in Queued \/ op \in Running
BY DEF Queued, Running, Unfinished

\* What a save is not.
LEMMA OperationKinds ==
  /\ \A op \in Operations : /\ ~ IsSave(op) /\ op.group \in Ids
                            /\ op.do \in {"create", "adopt", "join", "leave", "dissolve"}
                            /\ op.do \in {"create", "adopt"} => op.arg \in Profiles
                            /\ op.do \in {"join", "leave"} => op.arg \in Agents
  /\ \A op \in Saves : IsSave(op) /\ op.group \in Ids /\ op.arg \in Rows
BY DEF Operations, Saves, Rows, IsSave

\* A worker takes the head of the queue: the operation stays on its way.
LEMMA TakeMoves ==
  ASSUME Executing, NEW w \in Workers, Take(w)
  PROVE  Executing' /\ Unfinished' = Unfinished
<1> DEFINE h == Head(queue)
           run == [op |-> h, todo |-> Statements(h), done |-> {}, auto |-> h.do = "save"]
           n == Len(queue)
<1>1. /\ ~ Busy(w) /\ queue # <<>> /\ worker' = [worker EXCEPT ![w] = run]
      /\ queue' = Tail(queue) /\ results' = results /\ calls' = calls
  BY DEF Take
<1>2. /\ n \in Nat /\ n > 0 /\ h = queue[1] /\ h \in Operations \cup Saves
      /\ queue' \in Seq(Operations \cup Saves) /\ Len(queue') = n - 1
      /\ \A i \in 1..(n - 1) : queue'[i] = queue[i + 1]
  BY <1>1, TailOf DEF Executing
<1>3. Started(run)
  <2> HIDE DEF h
  <2>1. h.do \in {"create", "adopt", "join", "leave", "dissolve", "save"}
    BY <1>2, OperationKinds DEF IsSave
  <2>2. Statements(h) \in Seq(StatementNames)
    <3>1. \A x \in StatementNames : <<x>> \in Seq(StatementNames)
      BY OneAndTwo
    <3>2. \A x, y \in StatementNames : <<x, y>> \in Seq(StatementNames)
      BY OneAndTwo
    <3>4. CASE h.do = "create"
      BY <3>2, <3>4 DEF Statements, StatementNames
    <3>5. CASE h.do = "dissolve"
      BY <3>2, <3>5 DEF Statements, StatementNames
    <3>6. CASE h.do \notin {"create", "dissolve"}
      BY <2>1, <3>1, <3>6 DEF Statements, StatementNames
    <3> QED BY <3>4, <3>5, <3>6
  <2>3. run \in Runs
    BY <1>2, <2>1, <2>2 DEF Runs
  <2>4. InOrder(h, Statements(h), {})
    BY <2>1 DEF InOrder, Statements
  <2> QED BY <2>3, <2>4 DEF Started, IsSave
<1>4. run # Idle /\ run \in Runs /\ run.op = h
  BY <1>3, RunNotIdle DEF Started
<1> HIDE DEF h, run, n
<1>5. /\ worker' \in [Workers -> Runs \cup {Idle}] /\ worker'[w] = run /\ Busy(w)'
      /\ \A v \in Workers \ {w} : worker'[v] = worker[v] /\ (Busy(v)' <=> Busy(v))
  BY <1>1, <1>4 DEF Executing, Busy
<1>6. \A op : op \in Running' <=> op \in Running \/ op = h
  <2>1. \A op : op \in Running' <=> \E v \in Workers : Busy(v)' /\ worker'[v].op = op
    BY DEF Running
  <2> QED BY <1>1, <1>4, <1>5, <2>1, OnTheWay
<1>7. \A op : op \in Queued' <=> \E i \in 1..(n - 1) : queue[i + 1] = op
  BY <1>2 DEF Queued
<1>8. \A op : op \in Queued <=> op \in Queued' \/ op = h
  <2>1. ASSUME NEW op, op \in Queued PROVE op \in Queued' \/ op = h
    <3>1. PICK i \in 1..n : queue[i] = op
      BY <2>1 DEF Queued, n
    <3>2. CASE i = 1
      BY <1>2, <3>1, <3>2
    <3>3. CASE i # 1
      <4>1. i - 1 \in 1..(n - 1) /\ (i - 1) + 1 = i
        BY <1>2, <3>3
      <4> QED BY <1>7, <3>1, <4>1
    <3> QED BY <3>2, <3>3
  <2>2. ASSUME NEW op, op \in Queued' PROVE op \in Queued
    <3>1. PICK i \in 1..(n - 1) : queue[i + 1] = op
      BY <1>7, <2>2
    <3>2. i + 1 \in 1..n
      BY <1>2
    <3> QED BY <3>1, <3>2 DEF Queued, n
  <2>3. h \in Queued
    BY <1>2 DEF Queued, n
  <2> QED BY <2>1, <2>2, <2>3
<1>9. Unfinished' = Unfinished
  BY <1>6, <1>8 DEF Unfinished
<1>10. \A i, j \in 1..Len(queue') : queue'[i] = queue'[j] => i = j \/ IsSave(queue'[i])
  <2>1. \A i, j \in 1..n : queue[i] = queue[j] => i = j \/ IsSave(queue[i])
    BY DEF Executing, n
  <2> TAKE i, j \in 1..Len(queue')
  <2>2. i + 1 \in 1..n /\ j + 1 \in 1..n /\ queue'[i] = queue[i + 1] /\ queue'[j] = queue[j + 1]
    BY <1>2
  <2>3. queue[i + 1] = queue[j + 1] => i + 1 = j + 1 \/ IsSave(queue[i + 1])
    BY <2>1, <2>2
  <2> QED BY <1>2, <2>2, <2>3
<1>11. ASSUME NEW op, op \in Queued', op \in Running' PROVE IsSave(op)
  <2>1. CASE op \in Running
    BY <1>8, <1>11, <2>1 DEF Executing
  <2>2. CASE op = h
    <3>1. PICK i \in 1..(n - 1) : queue[i + 1] = h
      BY <1>7, <1>11, <2>2
    <3>2. i + 1 \in 1..n /\ 1 \in 1..n /\ i + 1 # 1
      BY <1>2
    <3>3. queue[i + 1] = queue[1]
      BY <1>2, <3>1
    <3> QED BY <1>2, <2>2, <3>2, <3>3 DEF Executing, n
  <2> QED BY <1>6, <1>11, <2>1, <2>2
<1>12. ASSUME NEW v \in Workers, NEW u \in Workers, Busy(v)', Busy(u)', worker'[v].op = worker'[u].op, v # u
       PROVE  IsSave(worker'[v].op)
  <2>1. \A x \in Workers \ {w} : Busy(x)' => worker'[x].op \in Running
    BY <1>5, OnTheWay
  <2>2. h \in Running => IsSave(h)
    BY <1>8 DEF Executing
  <2>3. CASE v = w
    BY <1>4, <1>5, <1>12, <2>1, <2>2, <2>3
  <2>4. CASE u = w
    BY <1>4, <1>5, <1>12, <2>1, <2>2, <2>4
  <2>5. CASE u # w /\ v # w
    BY <1>5, <1>12, <2>5 DEF Executing
  <2> QED BY <2>3, <2>4, <2>5
<1>13. \A v \in Workers : Busy(v)' => Started(worker'[v])
  BY <1>3, <1>5 DEF Executing
<1>14. Executing'
  BY <1>1, <1>2, <1>5, <1>9, <1>10, <1>11, <1>12, <1>13 DEF Executing
<1> QED BY <1>9, <1>14

\* A worker whose operation stays the same changes nothing for the others.
LEMMA SameOperation ==
  ASSUME Executing, NEW w \in Workers, Busy(w), NEW run, Started(run), run.op = worker[w].op,
         worker' = [worker EXCEPT ![w] = run], queue' = queue, results' = results, calls' = calls
  PROVE  Executing' /\ Unfinished' = Unfinished
<1>1. run \in Runs /\ run # Idle
  BY RunNotIdle DEF Started
<1>2. /\ worker' \in [Workers -> Runs \cup {Idle}] /\ worker'[w] = run
      /\ \A v \in Workers : worker'[v].op = worker[v].op /\ (Busy(v)' <=> Busy(v))
      /\ \A v \in Workers \ {w} : worker'[v] = worker[v]
  BY <1>1 DEF Executing, Busy
<1>3. Queued' = Queued /\ Running' = Running
  <2>1. \A op : op \in Running' <=> \E v \in Workers : Busy(v)' /\ worker'[v].op = op
    BY DEF Running
  <2>2. \A op : op \in Running' <=> op \in Running
    BY <1>2, <2>1, OnTheWay
  <2> QED BY <2>2 DEF Queued
<1>4. Unfinished' = Unfinished
  BY <1>3 DEF Unfinished
<1>5. \A v \in Workers : Busy(v)' => Started(worker'[v])
  BY <1>2 DEF Executing
<1>6. Executing'
  BY <1>2, <1>3, <1>4, <1>5 DEF Executing
<1> QED BY <1>4, <1>6

\* The next statement of a transaction, or the one of a save.
LEMMA NextStatement ==
  ASSUME NEW run, Started(run), run.todo # <<>>
  PROVE  /\ ~ run.auto => Started([run EXCEPT !.todo = Tail(@), !.done = @ \cup {Head(run.todo)}])
         /\ run.auto => Head(run.todo) = "save" /\ Started([run EXCEPT !.todo = Tail(@)])
<1>1. run \in Runs /\ InOrder(run.op, run.todo, run.done) /\ (run.auto <=> run.op.do = "save")
  BY DEF Started, IsSave
<1>2. Tail(run.todo) \in Seq(StatementNames) /\ Head(run.todo) \in StatementNames
  <2>1. run.todo \in Seq(StatementNames)
    BY <1>1 DEF Runs
  <2> QED BY <2>1, TailOf
<1>3. ASSUME ~ run.auto
      PROVE  Started([run EXCEPT !.todo = Tail(@), !.done = @ \cup {Head(run.todo)}])
  <2> DEFINE next == [run EXCEPT !.todo = Tail(@), !.done = @ \cup {Head(run.todo)}]
  <2>1. /\ next \in Runs /\ next.op = run.op /\ next.auto = run.auto
        /\ next.todo = Tail(run.todo) /\ next.done = run.done \cup {Head(run.todo)}
    BY <1>1, <1>2 DEF Runs
  <2>2. InOrder(run.op, Tail(run.todo), run.done \cup {Head(run.todo)})
    <3> DEFINE op == run.op todo == run.todo done == run.done
    <3>4. todo # <<>> /\ InOrder(op, todo, done)
      BY <1>1
    <3> HIDE DEF op, todo, done
    <3>1. CASE op.do = "create"
      <4>1. CASE todo = <<"reserve", "insert group">> /\ done = {}
        <5>1. Tail(todo) = <<"insert group">> /\ done \cup {Head(todo)} = {"reserve"}
          BY <4>1, HeadOfTwo
        <5> QED BY <3>1, <5>1 DEF InOrder, op, todo, done
      <4>2. CASE todo = <<"insert group">> /\ done = {"reserve"}
        <5>1. Tail(todo) = <<>> /\ done \cup {Head(todo)} = {"reserve", "insert group"}
          BY <4>2, HeadOfTwo
        <5> QED BY <3>1, <5>1 DEF InOrder, op, todo, done
      <4> QED BY <3>1, <3>4, <4>1, <4>2 DEF InOrder
    <3>2. CASE op.do = "dissolve"
      <4>1. CASE todo = <<"delete members", "delete group">> /\ done = {}
        <5>1. Tail(todo) = <<"delete group">> /\ done \cup {Head(todo)} = {"delete members"}
          BY <4>1, HeadOfTwo
        <5> QED BY <3>2, <5>1 DEF InOrder, op, todo, done
      <4>2. CASE todo = <<"delete group">> /\ done = {"delete members"}
        <5>1. Tail(todo) = <<>> /\ done \cup {Head(todo)} = {"delete members", "delete group"}
          BY <4>2, HeadOfTwo
        <5> QED BY <3>2, <5>1 DEF InOrder, op, todo, done
      <4> QED BY <3>2, <3>4, <4>1, <4>2 DEF InOrder
    <3>3. CASE op.do \in {"join", "leave", "adopt"}
      <4>1. todo = <<op.do>> /\ done = {}
        BY <3>3, <3>4 DEF InOrder
      <4>2. Tail(todo) = <<>> /\ done \cup {Head(todo)} = {op.do}
        BY <4>1, HeadOfTwo
      <4> QED BY <3>3, <4>2 DEF InOrder, op, todo, done
    <3>5. op.do \in {"create", "dissolve", "join", "leave", "adopt"}
      BY <1>1, <1>3, <3>4 DEF InOrder, op
    <3> QED BY <3>1, <3>2, <3>3, <3>5 DEF op, todo, done
  <2> HIDE DEF next
  <2> QED BY <1>1, <1>3, <2>1, <2>2 DEF Started, IsSave, next
<1>4. ASSUME run.auto
      PROVE  Head(run.todo) = "save" /\ Started([run EXCEPT !.todo = Tail(@)])
  <2>1. run.todo = <<"save">> /\ run.done = {} /\ run.op.do = "save"
    BY <1>1, <1>4 DEF InOrder
  <2>2. Head(run.todo) = "save" /\ Tail(run.todo) = <<>>
    BY <2>1
  <2> DEFINE next == [run EXCEPT !.todo = Tail(@)]
  <2>3. /\ next \in Runs /\ next.op = run.op /\ next.auto = run.auto
        /\ next.todo = Tail(run.todo) /\ next.done = run.done
    BY <1>1, <1>2 DEF Runs
  <2>4. InOrder(run.op, <<>>, {})
    BY <2>1 DEF InOrder
  <2> HIDE DEF next
  <2> QED BY <1>1, <2>1, <2>2, <2>3, <2>4 DEF Started, IsSave, next
<1> QED BY <1>3, <1>4

\* One statement: nothing of a transaction is seen before its commit.
LEMMA ExecuteMoves ==
  ASSUME Executing, NEW w \in Workers, Execute(w)
  PROVE  /\ Executing' /\ Unfinished' = Unfinished
         /\ \/ UNCHANGED tables
            \/ worker[w].op \in Saves \cap Unfinished /\ Write(worker[w].op, {"save"})
<1> DEFINE run == worker[w]
           next == [run EXCEPT !.todo = Tail(@),
                               !.done = IF run.auto THEN @ ELSE @ \cup {Head(run.todo)}]
<1>1. /\ Busy(w) /\ run.todo # <<>>
      /\ worker' = [worker EXCEPT ![w].todo = Tail(@),
                                  ![w].done = IF run.auto THEN @ ELSE @ \cup {Head(run.todo)}]
      /\ IF run.auto THEN Write(run.op, {Head(run.todo)}) ELSE UNCHANGED tables
      /\ queue' = queue /\ results' = results /\ calls' = calls
  BY DEF Execute
<1>2. Started(run) /\ run \in Runs /\ worker \in [Workers -> Runs \cup {Idle}]
  BY <1>1 DEF Executing, Started
<1>3. worker' = [worker EXCEPT ![w] = next]
  BY <1>1, <1>2
<1>4. Started(next) /\ next.op = run.op
  <2>1. CASE run.auto
    <3>1. next = [run EXCEPT !.todo = Tail(@)]
      BY <1>2, <2>1 DEF Runs
    <3> QED BY <1>1, <1>2, <2>1, <3>1, NextStatement DEF Runs
  <2>2. CASE ~ run.auto
    <3>1. next = [run EXCEPT !.todo = Tail(@), !.done = @ \cup {Head(run.todo)}]
      BY <2>2
    <3> QED BY <1>1, <1>2, <2>2, <3>1, NextStatement DEF Runs
  <2> QED BY <2>1, <2>2
<1>5. run.auto => run.op \in Saves \cap Unfinished /\ Head(run.todo) = "save"
  <2>1. run.auto => Head(run.todo) = "save"
    BY <1>1, <1>2, NextStatement
  <2>2. run.op \in Operations \cup Saves /\ (run.auto <=> IsSave(run.op)) /\ run.op \in Unfinished
    BY <1>1, <1>2, OnTheWay DEF Started, Runs
  <2> QED BY <2>1, <2>2, OperationKinds
<1> HIDE DEF next
<1>6. Executing' /\ Unfinished' = Unfinished
  BY <1>1, <1>3, <1>4, SameOperation
<1> QED BY <1>1, <1>5, <1>6

\* A worker is done: its operation has its result, a save has none.
LEMMA FinishMoves ==
  ASSUME Executing, NEW w \in Workers, Busy(w), NEW ok \in BOOLEAN, Finish(w, ok),
         queue' = queue, calls' = calls
  PROVE  /\ Executing' /\ Unfinished' \subseteq Unfinished /\ worker[w].op \in Unfinished
         /\ Started(worker[w])
         /\ IF ok /\ ~ IsSave(worker[w].op) THEN Succeeded' = Succeeded \cup {worker[w].op}
                                            ELSE Succeeded' = Succeeded
         /\ ~ IsSave(worker[w].op) => worker[w].op \in calls \ Succeeded
<1> DEFINE op == worker[w].op
           r == [op |-> op, ok |-> ok]
<1>1. /\ worker' = [worker EXCEPT ![w] = Idle]
      /\ results' = IF IsSave(op) THEN results ELSE results \cup {r}
  BY DEF Finish, IsSave
<1>2. /\ worker' \in [Workers -> Runs \cup {Idle}] /\ ~ Busy(w)'
      /\ \A v \in Workers \ {w} : worker'[v] = worker[v] /\ (Busy(v)' <=> Busy(v))
  BY <1>1 DEF Executing, Busy
<1>3. Started(worker[w]) /\ op \in Operations \cup Saves /\ op \in Running /\ op \in Unfinished
  BY OnTheWay DEF Executing, Started, Runs
<1>4. ~ IsSave(op) => op \in Operations /\ op \in calls
  BY <1>3, OperationKinds DEF Executing
<1>5. \A q \in results : q.op # op
  BY <1>3 DEF Executing
<1>6. r.op = op /\ r.ok = ok
  OBVIOUS
<1> HIDE DEF op, r
<1>7. \A x : x \in Running' => x \in Running /\ (x = op => IsSave(op))
  <2>1. \A x : x \in Running' => \E v \in Workers : Busy(v)' /\ worker'[v].op = x
    BY DEF Running
  <2>2. \A v \in Workers \ {w} : Busy(v) /\ worker[v].op = op => IsSave(op)
    BY DEF Executing, op
  <2> QED BY <1>2, <2>1, <2>2, OnTheWay
<1>8. Queued' = Queued
  BY DEF Queued
<1>9. op \in Queued => IsSave(op)
  BY <1>3 DEF Executing
<1>10. Unfinished' \subseteq Unfinished /\ (~ IsSave(op) => op \notin Unfinished')
  BY <1>7, <1>8, <1>9 DEF Unfinished
<1>11. \A x : x \in Succeeded <=> \E q \in results : q.ok /\ q.op = x
  BY DEF Succeeded
<1>12. \A x : x \in Succeeded' <=> \E q \in results' : q.ok /\ q.op = x
  BY DEF Succeeded
<1>13. op \notin Succeeded
  BY <1>5, <1>11
<1>14. IF ok /\ ~ IsSave(op) THEN Succeeded' = Succeeded \cup {op} ELSE Succeeded' = Succeeded
  <2>1. CASE IsSave(op)
    BY <1>1, <2>1 DEF Succeeded
  <2>2. CASE ~ IsSave(op)
    <3>1. \A x : x \in Succeeded' <=> x \in Succeeded \/ (ok /\ x = op)
      BY <1>1, <1>6, <1>11, <1>12, <2>2
    <3> QED BY <2>2, <3>1
  <2> QED BY <2>1, <2>2
<1>15. Executing'
  <2>1. \A v \in Workers : Busy(v)' => Started(worker'[v])
    BY <1>2 DEF Executing
  <2>2. results' \subseteq [op : Operations, ok : BOOLEAN]
    <3>1. ~ IsSave(op) => r \in [op : Operations, ok : BOOLEAN]
      BY <1>4 DEF r
    <3> QED BY <1>1, <3>1 DEF Executing
  <2>3. \A u, v \in Workers :
          Busy(u)' /\ Busy(v)' /\ worker'[u].op = worker'[v].op => u = v \/ IsSave(worker'[u].op)
    BY <1>2 DEF Executing
  <2>4. \A x \in Queued' \cap Running' : IsSave(x)
    BY <1>7, <1>8 DEF Executing
  <2>5. \A q \in results' : q.op \notin Unfinished' /\ q.op \in calls'
    BY <1>1, <1>4, <1>6, <1>10 DEF Executing
  <2>6. \A p, q \in results' : p.op = q.op => p = q
    BY <1>1, <1>5, <1>6 DEF Executing
  <2>7. \A x \in Unfinished' : IsSave(x) \/ x \in calls'
    BY <1>10 DEF Executing
  <2> QED BY <1>2, <2>1, <2>2, <2>3, <2>4, <2>5, <2>6, <2>7 DEF Executing
<1> QED BY <1>3, <1>4, <1>10, <1>13, <1>14, <1>15 DEF op

\* An operation is submitted: a new one, or a save.
LEMMA SubmitMoves ==
  ASSUME Executing, NEW op, queue' = Append(queue, op), worker' = worker, results' = results,
         \/ op \in Operations \ calls /\ calls' = calls \cup {op}
         \/ op \in Saves /\ calls' = calls
  PROVE  Executing' /\ Unfinished' = Unfinished \cup {op} /\ Succeeded' = Succeeded
<1> DEFINE n == Len(queue)
<1>1. /\ n \in Nat /\ queue' \in Seq(Operations \cup Saves) /\ Len(queue') = n + 1
      /\ queue'[n + 1] = op /\ \A i \in 1..n : queue'[i] = queue[i]
  <2>1. queue \in Seq(Operations \cup Saves) /\ op \in Operations \cup Saves
    BY DEF Executing
  <2> QED BY <2>1, AppendTo
<1>2. IsSave(op) \/ op \notin Unfinished
  BY OperationKinds DEF Executing
<1>3. \A x \in calls : x \in calls'
  OBVIOUS
<1>4. \A q \in results : q.op # op
  <2>1. \A q \in results : q.op \in calls /\ q.op \in Operations
    BY DEF Executing
  <2> QED BY <2>1, OperationKinds
<1>5. op \in calls' \/ IsSave(op)
  BY OperationKinds
<1> HIDE DEF n
<1>6. \A x : x \in Queued' <=> x \in Queued \/ x = op
  <2>1. \A x : x \in Queued' <=> \E i \in 1..(n + 1) : queue'[i] = x
    BY <1>1 DEF Queued
  <2>2. \A x : x \in Queued <=> \E i \in 1..n : queue[i] = x
    BY DEF Queued, n
  <2>3. \A i \in 1..(n + 1) : i \in 1..n \/ i = n + 1
    BY <1>1
  <2>4. \A i \in 1..n : i \in 1..(n + 1)
    BY <1>1
  <2>5. n + 1 \in 1..(n + 1)
    BY <1>1
  <2> QED BY <1>1, <2>1, <2>2, <2>3, <2>4, <2>5
<1>7. Running' = Running /\ \A w : Busy(w)' <=> Busy(w)
  BY DEF Running, Busy
<1>8. Unfinished' = Unfinished \cup {op}
  BY <1>6, <1>7 DEF Unfinished
<1>9. Succeeded' = Succeeded
  BY DEF Succeeded
<1>10. Executing'
  <2>1. \A i, j \in 1..Len(queue') : queue'[i] = queue'[j] => i = j \/ IsSave(queue'[i])
    <3> TAKE i, j \in 1..Len(queue')
    <3>1. \A k \in 1..n : queue[k] = op => IsSave(op)
      BY <1>2 DEF Unfinished, Queued, n
    <3>2. \A k, l \in 1..n : queue[k] = queue[l] => k = l \/ IsSave(queue[k])
      BY DEF Executing, n
    <3>3. (i \in 1..n \/ i = n + 1) /\ (j \in 1..n \/ j = n + 1)
      BY <1>1
    <3> QED BY <1>1, <3>1, <3>2, <3>3
  <2>2. \A x \in Queued' \cap Running' : IsSave(x)
    BY <1>2, <1>6, <1>7 DEF Executing, Unfinished
  <2>3. \A q \in results' : q.op \notin Unfinished' /\ q.op \in calls'
    BY <1>3, <1>4, <1>8 DEF Executing
  <2>4. \A x \in Unfinished' : IsSave(x) \/ x \in calls'
    BY <1>3, <1>5, <1>8 DEF Executing
  <2> QED BY <1>1, <1>7, <2>1, <2>2, <2>3, <2>4 DEF Executing
<1> QED BY <1>8, <1>9, <1>10

\* A result is taken: the operation is over.
LEMMA CompleteMoves ==
  ASSUME Executing, NEW r \in results, calls' = calls \ {r.op}, results' = results \ {r},
         queue' = queue, worker' = worker
  PROVE  /\ Executing' /\ Unfinished' = Unfinished
         /\ Succeeded' = Succeeded \ {r.op} /\ r.op \in calls
         /\ r.op \in Succeeded <=> r.ok
<1>1. Queued' = Queued /\ Running' = Running /\ \A w : Busy(w)' <=> Busy(w)
  BY DEF Queued, Running, Busy
<1>2. Unfinished' = Unfinished
  BY <1>1 DEF Unfinished
<1>3. \A q \in results : q.op = r.op => q = r
  BY DEF Executing
<1>4. r.op \in calls /\ r.op \in Operations /\ r.op \notin Unfinished
  BY DEF Executing
<1>5. Executing'
  BY <1>1, <1>2, <1>3, <1>4 DEF Executing
<1>6. Succeeded' = Succeeded \ {r.op} /\ (r.op \in Succeeded <=> r.ok)
  <2>1. \A x : x \in Succeeded <=> \E q \in results : q.ok /\ q.op = x
    BY DEF Succeeded
  <2>2. \A x : x \in Succeeded' <=> \E q \in results \ {r} : q.ok /\ q.op = x
    BY DEF Succeeded
  <2>3. r.ok \in BOOLEAN
    BY DEF Executing
  <2>4. \A x : x \in Succeeded' <=> x \in Succeeded /\ x # r.op
    BY <1>3, <2>1, <2>2
  <2>5. r.op \in Succeeded <=> r.ok
    BY <1>3, <2>1, <2>3
  <2> QED BY <2>4, <2>5
<1> QED BY <1>2, <1>4, <1>5, <1>6

---------------------------------------------------------------------------
(* Steps that change neither the tables nor the registry *)

\* Operations move on, or fail, or the first update begins.
LEMMA Still ==
  ASSUME Orderly, Executing', Unfinished' \subseteq Unfinished, Succeeded' = Succeeded, Up,
         UNCHANGED <<tables, registry, guards, calls, agents, refused, nextId, valid>>,
         phase' = phase \/ phase' = "running"
  PROVE  Orderly'
<1>1. /\ rows' = rows /\ edges' = edges /\ sequence' = sequence /\ ever' = ever
      /\ groups' = groups /\ memberOf' = memberOf /\ pending' = pending /\ adopting' = adopting
      /\ calls' = calls /\ agents' = agents /\ refused' = refused /\ nextId' = nextId /\ valid' = valid
  BY DEF tables, registry, guards
<1>2. Up' /\ phase' \in {"init", "running"} /\ (phase = "running" => phase' = "running")
  BY DEF Up, Orderly, Registry
<1>11. \A g, a : /\ IsCreated(g)' <=> IsCreated(g)
                 /\ IsDissolved(g)' <=> IsDissolved(g)
                 /\ IsAdopted(g)' <=> IsAdopted(g)
                 /\ HasJoined(g, a)' <=> HasJoined(g, a)
                 /\ HasLeft(g, a)' <=> HasLeft(g, a)
  BY DEF IsCreated, IsDissolved, IsAdopted, HasJoined, HasLeft
<1>3. Tables'
  BY <1>1 DEF Orderly, Tables
<1>4. Registry'
  BY <1>1, <1>2 DEF Orderly, Registry, IndexAgrees
<1>5. Stopped'
  BY <1>2 DEF Stopped
<1>6. Created'
  BY <1>1 DEF Orderly, Created
<1>7. Claims' /\ Adoptions'
  BY <1>1, <1>2 DEF Orderly, Claims, Adoptions
<1>8. Settled'
  BY <1>1, <1>11 DEF Orderly, Settled
<1>9. Membership'
  BY <1>1, <1>11 DEF Orderly, Membership
<1>10. ProfilesAgree'
  BY <1>1, <1>2, <1>11 DEF Orderly, ProfilesAgree
<1> QED BY <1>3, <1>4, <1>5, <1>6, <1>7, <1>8, <1>9, <1>10 DEF Orderly

LEMMA BusyUp ==
  ASSUME Orderly
  PROVE  /\ \A w \in Workers : Busy(w) => Up
         /\ queue # <<>> => Up
         /\ results # {} => Up
BY DEF Orderly, Stopped, Up

LEMMA TakeStep ==
  ASSUME Orderly, NEW w \in Workers, Take(w)
  PROVE  Orderly'
<1>1. Executing' /\ Unfinished' = Unfinished
  BY TakeMoves DEF Orderly
<1>2. Succeeded' = Succeeded /\ Up
  BY BusyUp DEF Take, Succeeded
<1> QED BY <1>1, <1>2, Still DEF Take, process

LEMMA FailStep ==
  ASSUME Orderly, NEW w \in Workers, Fail(w)
  PROVE  Orderly'
<1>1. Busy(w) /\ Finish(w, FALSE) /\ queue' = queue /\ calls' = calls
  BY DEF Fail, Abort
<1>2. Executing' /\ Unfinished' \subseteq Unfinished /\ Succeeded' = Succeeded
  BY <1>1, FinishMoves DEF Orderly
<1> QED BY <1>1, <1>2, BusyUp, Still DEF Fail, Abort, process

LEMMA FirstUpdateStep ==
  ASSUME Orderly, FirstUpdate
  PROVE  Orderly'
<1>1. queue' = queue /\ worker' = worker /\ results' = results /\ calls' = calls
  BY DEF FirstUpdate, executor
<1>2. Queued' = Queued /\ Running' = Running /\ Succeeded' = Succeeded /\ \A w : Busy(w)' <=> Busy(w)
  BY <1>1 DEF Queued, Running, Busy, Succeeded
<1>3. Executing' /\ Unfinished' = Unfinished
  BY <1>1, <1>2 DEF Orderly, Executing, Unfinished
<1> QED BY <1>2, <1>3, Still DEF FirstUpdate, Up

---------------------------------------------------------------------------
(* Commits *)

\* What the statements of each kind of operation do to the tables.
LEMMA CreateWrites ==
  ASSUME Tables, NEW op \in Operations, op.do = "create", Write(op, {"reserve", "insert group"})
  PROVE  /\ DOMAIN rows' = DOMAIN rows \cup {op.group} /\ rows' \in [DOMAIN rows' -> Rows \cup {[profile |-> op.arg, version |-> 0]}]
         /\ rows'[op.group] = [profile |-> op.arg, version |-> 0]
         /\ \A g \in DOMAIN rows \ {op.group} : rows'[g] = rows[g]
         /\ edges' = edges /\ ever' = ever \cup {op.group}
         /\ sequence' = IF op.group + 1 > sequence THEN op.group + 1 ELSE sequence
<1>1. rows' = RowsAfter(op, {"reserve", "insert group"})
  BY DEF Write
<1>2. /\ DOMAIN rows' = DOMAIN rows \cup {op.group}
      /\ rows'[op.group] = [profile |-> op.arg, version |-> 0]
      /\ \A g \in DOMAIN rows \ {op.group} : rows'[g] = rows[g]
      /\ rows' = [g \in DOMAIN rows' |-> rows'[g]]
  BY <1>1 DEF RowsAfter
<1>3. \A g \in DOMAIN rows : rows[g] \in Rows
  BY DEF Tables
<1>4. edges' = edges
  BY DEF Write, EdgesAfter
<1>5. ever' = ever \cup {op.group}
  BY <1>2 DEF Write, Tables
<1>6. sequence' = IF op.group + 1 > sequence THEN op.group + 1 ELSE sequence
  BY DEF Write, Reserved
<1>7. rows' \in [DOMAIN rows' -> Rows \cup {[profile |-> op.arg, version |-> 0]}]
  BY <1>2, <1>3
<1> QED BY <1>2, <1>4, <1>5, <1>6, <1>7

LEMMA DissolveWrites ==
  ASSUME Tables, NEW op, Write(op, {"delete members", "delete group"})
  PROVE  /\ DOMAIN rows' = DOMAIN rows \ {op.group} /\ rows' \in [DOMAIN rows' -> Rows]
         /\ \A g \in DOMAIN rows \ {op.group} : rows'[g] = rows[g]
         /\ edges' = {e \in edges : e[1] # op.group} /\ ever' = ever /\ sequence' = sequence
<1>1. rows' = RowsAfter(op, {"delete members", "delete group"})
  BY DEF Write
<1>2. /\ DOMAIN rows' = DOMAIN rows \ {op.group}
      /\ \A g \in DOMAIN rows \ {op.group} : rows'[g] = rows[g]
      /\ rows' = [g \in DOMAIN rows' |-> rows'[g]]
  BY <1>1 DEF RowsAfter
<1>3. \A g \in DOMAIN rows : rows[g] \in Rows
  BY DEF Tables
<1>4. edges' = {e \in edges : e[1] # op.group}
  BY DEF Write, EdgesAfter
<1>5. ever' = ever /\ sequence' = sequence
  BY <1>2 DEF Write, Tables, Reserved
<1> QED BY <1>2, <1>3, <1>4, <1>5

\* An operation on a row that is there, or on none.
LEMMA UpdateWrites ==
  ASSUME Tables, NEW op \in Operations \cup Saves,
         NEW done \in {{}, {"join"}, {"leave"}, {"adopt"}, {"save"}}, Write(op, done)
  PROVE  /\ DOMAIN rows' = DOMAIN rows /\ rows' = [g \in DOMAIN rows |-> rows'[g]]
         /\ \A g \in DOMAIN rows \ {op.group} : rows'[g] = rows[g]
         /\ op.group \in DOMAIN rows =>
              rows'[op.group] = CASE done = {"adopt"} -> [rows[op.group] EXCEPT !.profile = op.arg]
                                  [] done = {"save"} /\ rows[op.group].version < op.arg.version -> op.arg
                                  [] OTHER -> rows[op.group]
         /\ edges' = IF done = {"join"} THEN edges \cup {<<op.group, op.arg>>}
                     ELSE IF done = {"leave"} THEN edges \ {<<op.group, op.arg>>} ELSE edges
         /\ ever' = ever /\ sequence' = sequence
<1>1. rows' = RowsAfter(op, done)
  BY DEF Write
<1>2. "insert group" \notin done /\ "delete group" \notin done /\ "reserve" \notin done /\ "delete members" \notin done
  OBVIOUS
<1>3. /\ "adopt" \in done <=> done = {"adopt"}
      /\ "save" \in done <=> done = {"save"}
      /\ "join" \in done <=> done = {"join"}
      /\ "leave" \in done <=> done = {"leave"}
  OBVIOUS
<1>4. rows' = [g \in DOMAIN rows |->
        CASE g = op.group /\ "insert group" \in done -> [profile |-> op.arg, version |-> 0]
              [] g = op.group /\ "adopt" \in done -> [rows[g] EXCEPT !.profile = op.arg]
              [] g = op.group /\ "save" \in done /\ rows[g].version < op.arg.version -> op.arg
              [] OTHER -> rows[g]]
  BY <1>1, <1>2 DEF RowsAfter
<1>5. /\ DOMAIN rows' = DOMAIN rows /\ rows' = [g \in DOMAIN rows |-> rows'[g]]
      /\ \A g \in DOMAIN rows \ {op.group} : rows'[g] = rows[g]
  BY <1>4
<1>6. op.group \in DOMAIN rows =>
              rows'[op.group] = CASE done = {"adopt"} -> [rows[op.group] EXCEPT !.profile = op.arg]
                                  [] done = {"save"} /\ rows[op.group].version < op.arg.version -> op.arg
                                  [] OTHER -> rows[op.group]
  BY <1>2, <1>3, <1>4
<1>7. edges' = IF done = {"join"} THEN edges \cup {<<op.group, op.arg>>}
               ELSE IF done = {"leave"} THEN edges \ {<<op.group, op.arg>>} ELSE edges
  BY <1>2, <1>3 DEF Write, EdgesAfter
<1>8. ever' = ever
  BY <1>5 DEF Write, Tables
<1>9. sequence' = sequence
  BY <1>2 DEF Write, Reserved
<1> QED BY <1>5, <1>6, <1>7, <1>8, <1>9

\* What is told by one more success.
LEMMA MoreSucceeded ==
  ASSUME NEW op, Succeeded' = Succeeded \cup {op}
  PROVE  \A g, a :
           /\ IsCreated(g)' <=> IsCreated(g) \/ (op.do = "create" /\ op.group = g)
           /\ IsDissolved(g)' <=> IsDissolved(g) \/ (op.do = "dissolve" /\ op.group = g)
           /\ IsAdopted(g)' <=> IsAdopted(g) \/ (op.do = "adopt" /\ op.group = g)
           /\ HasJoined(g, a)' <=> HasJoined(g, a) \/ (op.do = "join" /\ op.group = g /\ op.arg = a)
           /\ HasLeft(g, a)' <=> HasLeft(g, a) \/ (op.do = "leave" /\ op.group = g /\ op.arg = a)
BY DEF IsCreated, IsDissolved, IsAdopted, HasJoined, HasLeft

LEMMA IdRange ==
  /\ TopId \in Int
  /\ \A x \in Ids : x \in Int /\ x >= 1 /\ x <= TopId
  /\ \A x \in Int : x >= 1 /\ x <= TopId => x \in Ids
<1>1. TopId \in Int
  BY GroupConstants
<1> QED BY <1>1 DEF Ids

\* The sequence row after a reservation is above every id that has ever been used.
LEMMA SequenceRaised ==
  ASSUME NEW g \in Ids, sequence \in Ids, nextId \in Ids, g < nextId, sequence <= nextId,
         \A x \in ever : x \in Ids /\ x < sequence,
         sequence' = IF g + 1 > sequence THEN g + 1 ELSE sequence
  PROVE  /\ sequence' \in Ids /\ sequence' <= nextId
         /\ \A x \in ever \cup {g} : x \in Ids /\ x < sequence'
<1>1. /\ g \in Int /\ g >= 1 /\ sequence \in Int /\ sequence >= 1
      /\ nextId \in Int /\ nextId <= TopId /\ TopId \in Int
  BY IdRange
<1>2. sequence' \in Int /\ sequence' <= nextId /\ sequence' > g /\ sequence' >= sequence
  BY <1>1
<1>3. sequence' \in Ids
  <2>1. sequence' >= 1 /\ sequence' <= TopId
    BY <1>1, <1>2
  <2> QED BY <1>2, <2>1, IdRange
<1>4. ASSUME NEW x \in ever PROVE x \in Ids /\ x < sequence'
  <2>1. x \in Ids /\ x < sequence
    OBVIOUS
  <2>2. x \in Int
    BY <2>1, IdRange
  <2> QED BY <1>1, <1>2, <2>1, <2>2
<1> QED BY <1>2, <1>3, <1>4

LEMMA NewRow ==
  ASSUME NEW p \in Profiles
  PROVE  [profile |-> p, version |-> 0] \in Rows
<1>1. 0 \in 0..MaxVersion
  BY GroupConstants
<1> QED BY <1>1 DEF Rows

LEMMA SucceededCalls ==
  ASSUME Executing
  PROVE  Succeeded \subseteq calls
BY DEF Executing, Succeeded

\* A worker commits op: what the executor and the world thread see of it.
Settling(op) ==
  /\ op \in (Operations \cap calls) \ Succeeded /\ Up
  /\ Executing' /\ Unfinished' \subseteq Unfinished /\ Succeeded' = Succeeded \cup {op}
  /\ UNCHANGED <<process, registry, guards, calls>>

\* What a commit of any kind leaves as it was.
LEMMA SettlingKeeps ==
  ASSUME Orderly, NEW op, Settling(op)
  PROVE  /\ phase' = phase /\ agents' = agents /\ refused' = refused /\ nextId' = nextId /\ valid' = valid
         /\ groups' = groups /\ memberOf' = memberOf /\ pending' = pending /\ adopting' = adopting
         /\ calls' = calls /\ Up'
         /\ Stopped' /\ Claims'
         /\ sequence' = sequence /\ ever' = ever => Registry'
<1>1. /\ phase' = phase /\ agents' = agents /\ refused' = refused /\ nextId' = nextId /\ valid' = valid
      /\ groups' = groups /\ memberOf' = memberOf /\ pending' = pending /\ adopting' = adopting
      /\ calls' = calls
  BY DEF Settling, process, registry, guards
<1>2. Up' /\ Up
  BY <1>1 DEF Settling, Up
<1>3. Stopped'
  BY <1>2 DEF Stopped, Up
<1>4. Claims'
  BY <1>1 DEF Orderly, Claims
<1>5. sequence' = sequence /\ ever' = ever => Registry'
  BY <1>1, <1>2 DEF Orderly, Registry, IndexAgrees
<1> QED BY <1>1, <1>2, <1>3, <1>4, <1>5

LEMMA CommitCreate ==
  ASSUME Orderly, NEW op, Settling(op), op.do = "create", Write(op, {"reserve", "insert group"})
  PROVE  Orderly'
<1> DEFINE g == op.group
           row == [profile |-> op.arg, version |-> 0]
<1>1. /\ phase' = phase /\ agents' = agents /\ refused' = refused /\ nextId' = nextId /\ valid' = valid
      /\ groups' = groups /\ memberOf' = memberOf /\ pending' = pending /\ adopting' = adopting
      /\ calls' = calls /\ Up' /\ Stopped' /\ Claims' /\ Up
  BY SettlingKeeps DEF Settling
<1>2. /\ op \in Operations /\ op \in calls /\ op \notin Succeeded
      /\ Executing' /\ Unfinished' \subseteq Unfinished /\ Succeeded' = Succeeded \cup {op}
  BY DEF Settling
<1>3. /\ DOMAIN rows' = DOMAIN rows \cup {g} /\ rows' \in [DOMAIN rows' -> Rows \cup {row}]
      /\ rows'[g] = row
      /\ \A x \in DOMAIN rows \ {g} : rows'[x] = rows[x]
      /\ edges' = edges /\ ever' = ever \cup {g}
      /\ sequence' = IF g + 1 > sequence THEN g + 1 ELSE sequence
  BY <1>2, CreateWrites DEF Orderly
<1>4. g \in Ids /\ op.arg \in Profiles /\ MaxVersion \in Nat /\ TopId \in Nat
  BY <1>2, OperationKinds, GroupConstants
<1>5. row \in Rows /\ row.profile = op.arg
  BY <1>4, NewRow
<1>6. /\ g \notin ever /\ g \notin DOMAIN groups /\ g < nextId
      /\ \A other \in calls \cup Unfinished : other.group = g => other = op
  BY <1>2 DEF Orderly, Created
<1>7. Succeeded \subseteq calls
  BY SucceededCalls DEF Orderly
<1> HIDE DEF g, row
<1>8. /\ rows \in [DOMAIN rows -> Rows] /\ DOMAIN rows \subseteq ever
      /\ edges \subseteq (DOMAIN rows) \X Agents /\ sequence \in Ids /\ nextId \in Ids /\ sequence <= nextId
      /\ \A x \in ever : x \in Ids /\ x < sequence
  BY <1>1 DEF Orderly, Tables, Registry
<1>9. g \notin DOMAIN rows /\ \A a : <<g, a>> \notin edges
  BY <1>6, <1>8
<1>17. /\ sequence' \in Ids /\ sequence' <= nextId
       /\ \A x \in ever \cup {g} : x \in Ids /\ x < sequence'
  <2>1. sequence' = IF g + 1 > sequence THEN g + 1 ELSE sequence
    BY <1>3
  <2> QED BY <1>4, <1>6, <1>8, <2>1, SequenceRaised
<1>18. \A x, a : /\ IsCreated(x)' <=> IsCreated(x) \/ x = g
                 /\ IsDissolved(x)' <=> IsDissolved(x)
                 /\ IsAdopted(x)' <=> IsAdopted(x)
                 /\ HasJoined(x, a)' <=> HasJoined(x, a)
                 /\ HasLeft(x, a)' <=> HasLeft(x, a)
  BY <1>2, MoreSucceeded DEF g
<1>10. Tables'
  <2>1. rows' \in [DOMAIN rows' -> Rows]
    BY <1>3, <1>5
  <2> QED BY <1>3, <1>8, <1>17, <2>1 DEF Tables
<1>11. Registry'
  <2> QED BY <1>1, <1>3, <1>17 DEF Orderly, Registry, IndexAgrees
<1>12. Created'
  <2>1. \A x \in calls \cup Unfinished : x.group < nextId
    BY DEF Orderly, Created
  <2>2. ASSUME NEW c \in calls, c.do = "create"
        PROVE  /\ c.group \notin DOMAIN groups
               /\ c \notin Succeeded' => c.group \notin ever'
               /\ c \in Succeeded' => /\ c.group \in DOMAIN rows' /\ rows'[c.group].profile = c.arg
                                      /\ \A a \in Agents : <<c.group, a>> \notin edges'
               /\ \A other \in calls \cup Unfinished : other.group = c.group => other = c
    <3>1. CASE c = op
      BY <1>2, <1>3, <1>5, <1>6, <1>9, <3>1 DEF g
    <3>2. CASE c # op
      <4>1. c.group # g
        BY <1>6, <3>2
      <4>2. c \in Succeeded' <=> c \in Succeeded
        BY <1>2, <3>2
      <4>3. /\ c.group \notin DOMAIN groups
            /\ c \notin Succeeded => c.group \notin ever
            /\ c \in Succeeded => /\ c.group \in DOMAIN rows /\ rows[c.group].profile = c.arg
                                  /\ \A a \in Agents : <<c.group, a>> \notin edges
            /\ \A other \in calls \cup Unfinished : other.group = c.group => other = c
        BY <2>2 DEF Orderly, Created
      <4> QED BY <1>3, <4>1, <4>2, <4>3
    <3> QED BY <3>1, <3>2
  <2> QED BY <1>1, <1>2, <2>1, <2>2 DEF Created
<1>13. Adoptions'
  <2>1. \A x \in calls : x.do = "adopt" => x.group # g
    BY <1>6
  <2> QED BY <1>1, <1>3, <2>1 DEF Orderly, Adoptions
<1>14. Settled'
  <2>1. /\ \A x \in DOMAIN rows \ DOMAIN groups : IsCreated(x)
        /\ \A x \in DOMAIN groups \ DOMAIN rows : IsDissolved(x)
        /\ \A c \in Succeeded : c.do = "dissolve" => c.group \notin DOMAIN rows
        /\ \A c \in calls : c.do \in {"join", "leave"} => c.group \in DOMAIN rows
    BY <1>1 DEF Orderly, Settled
  <2>2. \A x \in DOMAIN rows' \ DOMAIN groups : IsCreated(x)'
    BY <1>3, <1>18, <2>1
  <2>3. \A x \in DOMAIN groups \ DOMAIN rows' : IsDissolved(x)'
    BY <1>3, <1>18, <2>1
  <2>4. \A c \in Succeeded' : c.do = "dissolve" => c.group \notin DOMAIN rows'
    BY <1>2, <1>3, <1>6, <1>7, <2>1
  <2> QED BY <1>1, <1>3, <2>1, <2>2, <2>3, <2>4 DEF Settled
<1>15. Membership'
  <2>1. \A c \in Succeeded' : c.do \in {"join", "leave"} => c \in Succeeded
    BY <1>2
  <2> QED BY <1>1, <1>3, <1>18, <2>1 DEF Orderly, Membership
<1>16. ProfilesAgree'
  <2>1. \A x \in DOMAIN groups \cap DOMAIN rows' : x \in DOMAIN rows /\ rows'[x] = rows[x]
    BY <1>3, <1>6
  <2>2. \A c \in Succeeded' : c.do = "adopt" /\ c.group \in DOMAIN rows'
          => c \in Succeeded /\ c.group \in DOMAIN rows /\ rows'[c.group] = rows[c.group]
    BY <1>2, <1>3, <1>6, <1>7
  <2> QED BY <1>1, <1>2, <1>3, <1>18, <2>1, <2>2 DEF Orderly, ProfilesAgree
<1> QED BY <1>1, <1>2, <1>10, <1>11, <1>12, <1>13, <1>14, <1>15, <1>16 DEF Orderly

LEMMA CommitDissolve ==
  ASSUME Orderly, NEW op, Settling(op), op.do = "dissolve", Write(op, {"delete members", "delete group"})
  PROVE  Orderly'
<1> DEFINE g == op.group
<1>1. /\ phase' = phase /\ agents' = agents /\ refused' = refused /\ nextId' = nextId /\ valid' = valid
      /\ groups' = groups /\ memberOf' = memberOf /\ pending' = pending /\ adopting' = adopting
      /\ calls' = calls /\ Up' /\ Stopped' /\ Claims' /\ Up
  BY SettlingKeeps DEF Settling
<1>2. /\ op \in Operations /\ op \in calls /\ op \notin Succeeded
      /\ Executing' /\ Unfinished' \subseteq Unfinished /\ Succeeded' = Succeeded \cup {op}
  BY DEF Settling
<1>3. /\ DOMAIN rows' = DOMAIN rows \ {g} /\ rows' \in [DOMAIN rows' -> Rows]
      /\ \A x \in DOMAIN rows \ {g} : rows'[x] = rows[x]
      /\ edges' = {e \in edges : e[1] # g} /\ ever' = ever /\ sequence' = sequence
  BY DissolveWrites DEF Orderly
<1>4. \A c \in calls : c.group = g => c = op \/ c.do = "adopt"
  <2>1. \A c \in calls : c.do \in {"create", "adopt", "join", "leave", "dissolve"}
    BY OperationKinds DEF Orderly, Registry
  <2>2. \A c \in calls : c.group = g /\ c.do = "create" => op = c
    BY <1>2 DEF Orderly, Created
  <2>3. \A c \in calls : c.group = g /\ c.do \in {"join", "leave", "dissolve"} => op = c
    BY <1>2 DEF Orderly, Claims, Guarded
  <2> QED BY <2>1, <2>2, <2>3
<1>5. Succeeded \subseteq calls
  BY SucceededCalls DEF Orderly
<1> HIDE DEF g
<1>6. /\ rows \in [DOMAIN rows -> Rows] /\ DOMAIN rows \subseteq ever
      /\ edges \subseteq (DOMAIN rows) \X Agents /\ sequence \in Ids
      /\ \A x \in ever : x \in Ids /\ x < sequence
  BY DEF Orderly, Tables
<1>18. \A x, a : /\ IsCreated(x)' <=> IsCreated(x)
                 /\ IsDissolved(x)' <=> IsDissolved(x) \/ x = g
                 /\ IsAdopted(x)' <=> IsAdopted(x)
                 /\ HasJoined(x, a)' <=> HasJoined(x, a)
                 /\ HasLeft(x, a)' <=> HasLeft(x, a)
  BY <1>2, MoreSucceeded DEF g
<1>7. Tables'
  <2>1. edges' \subseteq (DOMAIN rows') \X Agents
    BY <1>3, <1>6
  <2> QED BY <1>3, <1>6, <2>1 DEF Tables
<1>8. Registry'
  BY <1>3, SettlingKeeps
<1>9. \A x, a : x # g => (<<x, a>> \in edges' <=> <<x, a>> \in edges)
  BY <1>3
<1>10. \A x, a : <<x, a>> \in edges' => <<x, a>> \in edges /\ x # g
  BY <1>3
<1>11. Created'
  <2>1. \A c \in calls : c.do = "create" => c.group # g
    BY <1>4, <1>2
  <2>2. \A c \in calls : c.do = "create" =>
          /\ c.group \notin DOMAIN groups
          /\ c \notin Succeeded => c.group \notin ever
          /\ c \in Succeeded => /\ c.group \in DOMAIN rows /\ rows[c.group].profile = c.arg
                                /\ \A a \in Agents : <<c.group, a>> \notin edges
          /\ \A other \in calls \cup Unfinished : other.group = c.group => other = c
    BY DEF Orderly, Created
  <2>3. \A c \in calls : c.do = "create" => (c \in Succeeded' <=> c \in Succeeded)
    BY <1>2
  <2>4. \A x \in calls \cup Unfinished : x.group < nextId
    BY DEF Orderly, Created
  <2>5. ASSUME NEW c \in calls, c.do = "create"
        PROVE  /\ c.group \notin DOMAIN groups
               /\ c \notin Succeeded' => c.group \notin ever'
               /\ c \in Succeeded' => /\ c.group \in DOMAIN rows' /\ rows'[c.group].profile = c.arg
                                      /\ \A a \in Agents : <<c.group, a>> \notin edges'
               /\ \A other \in calls \cup Unfinished : other.group = c.group => other = c
    BY <1>3, <1>10, <2>1, <2>2, <2>3, <2>5
  <2> QED BY <1>1, <1>2, <2>4, <2>5 DEF Created
<1>12. Adoptions'
  BY <1>1, <1>3 DEF Orderly, Adoptions
<1>13. Settled'
  <2>1. /\ \A x \in DOMAIN rows \ DOMAIN groups : IsCreated(x)
        /\ \A x \in DOMAIN groups \ DOMAIN rows : IsDissolved(x)
        /\ \A c \in Succeeded : c.do = "dissolve" => c.group \notin DOMAIN rows
        /\ \A c \in calls : c.do \in {"join", "leave"} => c.group \in DOMAIN rows
    BY <1>1 DEF Orderly, Settled
  <2>2. \A x \in DOMAIN rows' \ DOMAIN groups : IsCreated(x)'
    BY <1>3, <1>18, <2>1
  <2>3. \A x \in DOMAIN groups \ DOMAIN rows' : IsDissolved(x)'
    BY <1>3, <1>18, <2>1
  <2>4. \A c \in Succeeded' : c.do = "dissolve" => c.group \notin DOMAIN rows'
    BY <1>2, <1>3, <2>1 DEF g
  <2>5. \A c \in calls : c.do \in {"join", "leave"} => c.group \in DOMAIN rows'
    BY <1>3, <1>4, <2>1
  <2> QED BY <1>1, <2>2, <2>3, <2>4, <2>5 DEF Settled
<1>14. Membership'
  <2>1. /\ \A c \in Succeeded : c.do = "join" => <<c.group, c.arg>> \in edges
        /\ \A c \in Succeeded : c.do = "leave" => <<c.group, c.arg>> \notin edges
        /\ \A x \in DOMAIN groups : \A a \in groups[x].members :
             <<x, a>> \in edges \/ IsDissolved(x) \/ HasLeft(x, a)
        /\ \A x \in DOMAIN groups : \A a \in agents \ groups[x].members :
             <<x, a>> \notin edges \/ <<x, a>> \in refused \/ HasJoined(x, a)
    BY DEF Orderly, Membership
  <2>2. \A c \in Succeeded' : c.do = "join" => <<c.group, c.arg>> \in edges'
    BY <1>2, <1>4, <1>5, <1>9, <2>1
  <2>3. \A c \in Succeeded' : c.do = "leave" => <<c.group, c.arg>> \notin edges'
    BY <1>2, <1>10, <2>1
  <2>4. \A x \in DOMAIN groups : \A a \in groups[x].members :
          <<x, a>> \in edges' \/ IsDissolved(x)' \/ HasLeft(x, a)'
    BY <1>9, <1>18, <2>1
  <2>5. \A x \in DOMAIN groups : \A a \in agents \ groups[x].members :
          <<x, a>> \notin edges' \/ <<x, a>> \in refused \/ HasJoined(x, a)'
    BY <1>10, <1>18, <2>1
  <2> QED BY <1>1, <2>2, <2>3, <2>4, <2>5 DEF Membership
<1>15. ProfilesAgree'
  <2>1. \A c \in Succeeded' : c.do = "adopt" => c \in Succeeded
    BY <1>2
  <2> QED BY <1>1, <1>2, <1>3, <1>18, <2>1 DEF Orderly, ProfilesAgree
<1> QED BY <1>1, <1>2, <1>7, <1>8, <1>11, <1>12, <1>13, <1>14, <1>15 DEF Orderly

\* A claimed group has no other operation that changes its members or its row.
LEMMA ClaimedAlone ==
  ASSUME Orderly, NEW op \in calls, op.do \in Guarded
  PROVE  \A c \in calls : c.group = op.group => c = op \/ c.do = "adopt"
<1>1. \A c \in calls : c.do \in {"create", "adopt", "join", "leave", "dissolve"}
  BY OperationKinds DEF Orderly, Registry
<1>2. \A c \in calls : c.group = op.group /\ c.do = "create" => op = c
  BY DEF Orderly, Created
<1>3. \A c \in calls : c.group = op.group /\ c.do \in {"join", "leave", "dissolve"} => op = c
  BY DEF Orderly, Claims, Guarded
<1> QED BY <1>1, <1>2, <1>3

\* A membership row is added or deleted.
LEMMA CommitMembership ==
  ASSUME Orderly, NEW op, Settling(op), op.do \in {"join", "leave"}, Write(op, {op.do})
  PROVE  Orderly'
<1> DEFINE g == op.group
           m == op.arg
<1>1. /\ phase' = phase /\ agents' = agents /\ refused' = refused /\ nextId' = nextId /\ valid' = valid
      /\ groups' = groups /\ memberOf' = memberOf /\ pending' = pending /\ adopting' = adopting
      /\ calls' = calls /\ Up' /\ Stopped' /\ Claims' /\ Up
  BY SettlingKeeps DEF Settling
<1>2. /\ op \in Operations /\ op \in calls /\ op \notin Succeeded /\ m \in Agents
      /\ Executing' /\ Unfinished' \subseteq Unfinished /\ Succeeded' = Succeeded \cup {op}
  BY OperationKinds DEF Settling
<1>3. /\ DOMAIN rows' = DOMAIN rows /\ rows' = [x \in DOMAIN rows |-> rows'[x]]
      /\ \A x \in DOMAIN rows : rows'[x] = rows[x]
      /\ edges' = IF op.do = "join" THEN edges \cup {<<g, m>>} ELSE edges \ {<<g, m>>}
      /\ ever' = ever /\ sequence' = sequence
  <2> DEFINE done == {op.do}
  <2>1. done \in {{}, {"join"}, {"leave"}, {"adopt"}, {"save"}} /\ op \in Operations \cup Saves
    BY <1>2
  <2>2. /\ done = {"join"} <=> op.do = "join"
        /\ done = {"leave"} <=> op.do = "leave"
        /\ done # {"adopt"} /\ done # {"save"}
    OBVIOUS
  <2>3. Write(op, done)
    OBVIOUS
  <2> HIDE DEF done
  <2>4. /\ DOMAIN rows' = DOMAIN rows /\ rows' = [x \in DOMAIN rows |-> rows'[x]]
        /\ \A x \in DOMAIN rows \ {g} : rows'[x] = rows[x]
        /\ g \in DOMAIN rows => rows'[g] = rows[g]
        /\ edges' = IF done = {"join"} THEN edges \cup {<<g, m>>}
                     ELSE IF done = {"leave"} THEN edges \ {<<g, m>>} ELSE edges
        /\ ever' = ever /\ sequence' = sequence
    BY <2>1, <2>2, <2>3, UpdateWrites DEF Orderly
  <2> QED BY <2>2, <2>4
<1>4. \A c \in calls : c.group = g => c = op \/ c.do = "adopt"
  BY <1>2, ClaimedAlone DEF Guarded
<1>5. Succeeded \subseteq calls /\ g \in DOMAIN rows
  BY <1>1, <1>2, SucceededCalls DEF Orderly, Settled
<1>6. \A x, a : /\ IsCreated(x)' <=> IsCreated(x)
                /\ IsDissolved(x)' <=> IsDissolved(x)
                /\ IsAdopted(x)' <=> IsAdopted(x)
                /\ HasJoined(x, a)' <=> HasJoined(x, a) \/ (op.do = "join" /\ x = g /\ a = m)
                /\ HasLeft(x, a)' <=> HasLeft(x, a) \/ (op.do = "leave" /\ x = g /\ a = m)
  BY <1>2, MoreSucceeded
<1> HIDE DEF g, m
<1>7. rows' = rows
  BY <1>3 DEF Orderly, Tables
<1>8. \A x, a : x # g \/ a # m => (<<x, a>> \in edges' <=> <<x, a>> \in edges)
  BY <1>3
<1>9. /\ op.do = "join" => <<g, m>> \in edges'
      /\ op.do = "leave" => <<g, m>> \notin edges'
  BY <1>3
<1>10. Tables'
  <2>1. edges' \subseteq (DOMAIN rows) \X Agents
    BY <1>2, <1>3, <1>5 DEF Orderly, Tables
  <2> QED BY <1>3, <1>7, <2>1 DEF Orderly, Tables
<1>11. Registry'
  BY <1>3, SettlingKeeps
<1>12. Created'
  <2>1. \A c \in calls : c.do = "create" => c.group # g /\ (c \in Succeeded' <=> c \in Succeeded)
    BY <1>2, <1>4
  <2>2. \A c \in calls : c.do = "create" =>
          /\ c.group \notin DOMAIN groups
          /\ c \notin Succeeded => c.group \notin ever
          /\ c \in Succeeded => /\ c.group \in DOMAIN rows /\ rows[c.group].profile = c.arg
                                /\ \A a \in Agents : <<c.group, a>> \notin edges
          /\ \A other \in calls \cup Unfinished : other.group = c.group => other = c
    BY DEF Orderly, Created
  <2>3. \A x \in calls \cup Unfinished : x.group < nextId
    BY DEF Orderly, Created
  <2>4. ASSUME NEW c \in calls, c.do = "create"
        PROVE  /\ c.group \notin DOMAIN groups
               /\ c \notin Succeeded' => c.group \notin ever'
               /\ c \in Succeeded' => /\ c.group \in DOMAIN rows' /\ rows'[c.group].profile = c.arg
                                      /\ \A a \in Agents : <<c.group, a>> \notin edges'
               /\ \A other \in calls \cup Unfinished : other.group = c.group => other = c
    BY <1>3, <1>7, <1>8, <2>1, <2>2, <2>4
  <2> QED BY <1>1, <1>2, <2>3, <2>4 DEF Created
<1>13. Adoptions'
  BY <1>1, <1>7 DEF Orderly, Adoptions
<1>14. Settled'
  <2>1. \A c \in Succeeded' : c.do = "dissolve" => c \in Succeeded
    BY <1>2
  <2> QED BY <1>1, <1>6, <1>7, <2>1 DEF Orderly, Settled
<1>15. Membership'
  <2>1. /\ \A c \in Succeeded : c.do = "join" => <<c.group, c.arg>> \in edges
        /\ \A c \in Succeeded : c.do = "leave" => <<c.group, c.arg>> \notin edges
        /\ \A x \in DOMAIN groups : \A a \in groups[x].members :
             <<x, a>> \in edges \/ IsDissolved(x) \/ HasLeft(x, a)
        /\ \A x \in DOMAIN groups : \A a \in agents \ groups[x].members :
             <<x, a>> \notin edges \/ <<x, a>> \in refused \/ HasJoined(x, a)
    BY DEF Orderly, Membership
  <2>2. \A c \in Succeeded : c.do \in {"join", "leave"} => c.group # g
    BY <1>2, <1>4, <1>5
  <2>3. \A c \in Succeeded' : c.do = "join" => <<c.group, c.arg>> \in edges'
    BY <1>2, <1>8, <1>9, <2>1, <2>2 DEF g, m
  <2>4. \A c \in Succeeded' : c.do = "leave" => <<c.group, c.arg>> \notin edges'
    BY <1>2, <1>8, <1>9, <2>1, <2>2 DEF g, m
  <2>5. \A x \in DOMAIN groups : \A a \in groups[x].members :
          <<x, a>> \in edges' \/ IsDissolved(x)' \/ HasLeft(x, a)'
    BY <1>6, <1>8, <1>9, <2>1
  <2>6. \A x \in DOMAIN groups : \A a \in agents \ groups[x].members :
          <<x, a>> \notin edges' \/ <<x, a>> \in refused \/ HasJoined(x, a)'
    BY <1>6, <1>8, <1>9, <2>1
  <2> QED BY <1>1, <2>3, <2>4, <2>5, <2>6 DEF Membership
<1>16. ProfilesAgree'
  <2>1. \A c \in Succeeded' : c.do = "adopt" => c \in Succeeded
    BY <1>2
  <2> QED BY <1>1, <1>2, <1>3, <1>6, <1>7, <2>1 DEF Orderly, ProfilesAgree
<1> QED BY <1>1, <1>2, <1>10, <1>11, <1>12, <1>13, <1>14, <1>15, <1>16 DEF Orderly

\* The profile of a row is changed.
LEMMA CommitAdopt ==
  ASSUME Orderly, NEW op, Settling(op), op.do = "adopt", Write(op, {"adopt"})
  PROVE  Orderly'
<1> DEFINE g == op.group
           p == op.arg
<1>1. /\ phase' = phase /\ agents' = agents /\ refused' = refused /\ nextId' = nextId /\ valid' = valid
      /\ groups' = groups /\ memberOf' = memberOf /\ pending' = pending /\ adopting' = adopting
      /\ calls' = calls /\ Up' /\ Stopped' /\ Claims' /\ Up
  BY SettlingKeeps DEF Settling
<1>2. /\ op \in Operations /\ op \in calls /\ op \notin Succeeded /\ p \in Profiles
      /\ Executing' /\ Unfinished' \subseteq Unfinished /\ Succeeded' = Succeeded \cup {op}
  BY OperationKinds DEF Settling
<1>3. /\ DOMAIN rows' = DOMAIN rows /\ rows' = [x \in DOMAIN rows |-> rows'[x]]
      /\ \A x \in DOMAIN rows \ {g} : rows'[x] = rows[x]
      /\ g \in DOMAIN rows => rows'[g] = [rows[g] EXCEPT !.profile = p]
      /\ edges' = edges /\ ever' = ever /\ sequence' = sequence
  <2> DEFINE done == {"adopt"}
  <2>1. done \in {{}, {"join"}, {"leave"}, {"adopt"}, {"save"}} /\ op \in Operations \cup Saves
    BY <1>2
  <2>2. done # {"join"} /\ done # {"leave"} /\ done = {"adopt"}
    OBVIOUS
  <2>3. Write(op, done)
    OBVIOUS
  <2> HIDE DEF done
  <2> QED BY <2>1, <2>2, <2>3, UpdateWrites DEF Orderly
<1>4. \A c \in calls : c.do = "create" => c.group # g
  BY <1>2 DEF Orderly, Created
<1>5. \A c \in calls : c.do = "adopt" => c = op
  BY <1>2 DEF Orderly, Adoptions
<1>6. Succeeded \subseteq calls
  BY SucceededCalls DEF Orderly
<1>7. \A x, a : /\ IsCreated(x)' <=> IsCreated(x)
                /\ IsDissolved(x)' <=> IsDissolved(x)
                /\ IsAdopted(x)' <=> IsAdopted(x) \/ x = g
                /\ HasJoined(x, a)' <=> HasJoined(x, a)
                /\ HasLeft(x, a)' <=> HasLeft(x, a)
  BY <1>2, MoreSucceeded
<1> HIDE DEF g, p
<1>8. rows \in [DOMAIN rows -> Rows]
  BY DEF Orderly, Tables
<1>9. g \in DOMAIN rows => rows'[g] \in Rows /\ rows'[g].profile = p
  BY <1>2, <1>3, <1>8 DEF Rows
<1>10. Tables'
  <2>1. rows' \in [DOMAIN rows -> Rows]
    BY <1>3, <1>8, <1>9
  <2> QED BY <1>3, <2>1 DEF Orderly, Tables
<1>11. Registry'
  BY <1>3, SettlingKeeps
<1>12. Created'
  <2>1. \A c \in calls : c.do = "create" => c.group # g /\ (c \in Succeeded' <=> c \in Succeeded)
    BY <1>2, <1>4
  <2> QED BY <1>1, <1>2, <1>3, <2>1 DEF Orderly, Created
<1>13. Adoptions'
  BY <1>1, <1>3 DEF Orderly, Adoptions
<1>14. Settled'
  <2>1. \A c \in Succeeded' : c.do = "dissolve" => c \in Succeeded
    BY <1>2
  <2> QED BY <1>1, <1>3, <1>7, <2>1 DEF Orderly, Settled
<1>15. Membership'
  <2>1. \A c \in Succeeded' : c.do \in {"join", "leave"} => c \in Succeeded
    BY <1>2
  <2> QED BY <1>1, <1>3, <1>7, <2>1 DEF Orderly, Membership
<1>16. ProfilesAgree'
  <2>1. \A c \in Succeeded' : c.do = "adopt" => c = op
    BY <1>2, <1>5, <1>6
  <2>2. \A x \in DOMAIN groups \cap DOMAIN rows : rows'[x].profile = groups[x].profile \/ IsAdopted(x)'
    BY <1>3, <1>7 DEF Orderly, ProfilesAgree
  <2>3. \A c \in Succeeded' : c.do = "adopt" /\ c.group \in DOMAIN rows' => rows'[c.group].profile = c.arg
    BY <1>3, <1>9, <2>1 DEF g, p
  <2> QED BY <1>1, <1>2, <1>3, <2>2, <2>3 DEF Orderly, ProfilesAgree
<1> QED BY <1>1, <1>2, <1>10, <1>11, <1>12, <1>13, <1>14, <1>15, <1>16 DEF Orderly

\* A save writes the profile the row already has, unless the row is gone.
LEMMA SaveKeepsProfile ==
  ASSUME Orderly, NEW op \in Saves \cap Unfinished, op.group \in DOMAIN rows
  PROVE  op.arg.profile = rows[op.group].profile
<1> DEFINE g == op.group
<1>1. /\ phase = "running" /\ g \notin adopting /\ g \in ever
      /\ g \in DOMAIN groups => op.arg.profile = groups[g].profile
  BY OperationKinds DEF Orderly, ProfilesAgree
<1>2. Up /\ Succeeded \subseteq calls
  BY <1>1, SucceededCalls DEF Up, Orderly
<1>3. \A c \in calls : c.do = "create" => c.group # g
  <2>1. \A c \in calls : c \in Operations
    BY DEF Orderly, Registry
  <2>2. \A c \in calls : c.do = "create" => \A other \in Unfinished : other.group = c.group => other = c
    BY DEF Orderly, Created
  <2> QED BY <2>1, <2>2, OperationKinds
<1>4. g \in DOMAIN groups
  BY <1>2, <1>3 DEF Orderly, Settled, IsCreated
<1>5. ~ IsAdopted(g)
  BY <1>1, <1>2, <1>4 DEF Orderly, Adoptions, IsAdopted
<1> QED BY <1>1, <1>4, <1>5 DEF Orderly, ProfilesAgree

\* The transactions in one piece: what is executed of one at its commit.
LEMMA InOnePiece ==
  ASSUME NEW run, Started(run), run.todo = <<>>
  PROVE  /\ run.op \in Operations \cup Saves
         /\ \/ run.op.do = "create" /\ run.done = {"reserve", "insert group"}
            \/ run.op.do = "dissolve" /\ run.done = {"delete members", "delete group"}
            \/ run.op.do \in {"join", "leave", "adopt"} /\ run.done = {run.op.do}
            \/ IsSave(run.op) /\ run.done = {}
<1> DEFINE op == run.op
           todo == run.todo
           done == run.done
<1>1. InOrder(op, todo, done) /\ op \in Operations \cup Saves /\ todo = <<>>
  BY DEF Started, Runs
<1> HIDE DEF op, todo, done
<1>2. \A x, y : <<x, y>> # <<>> /\ <<x>> # <<>>
  OBVIOUS
<1>3. todo # <<"reserve", "insert group">> /\ todo # <<"insert group">>
      /\ todo # <<"delete members", "delete group">> /\ todo # <<"delete group">> /\ todo # <<op.do>>
  BY <1>1, <1>2
<1>4. \/ op.do = "create" /\ done = {"reserve", "insert group"}
      \/ op.do = "dissolve" /\ done = {"delete members", "delete group"}
      \/ op.do \in {"join", "leave", "adopt"} /\ done = {op.do}
      \/ op.do = "save" /\ done = {}
  BY <1>1, <1>3 DEF InOrder
<1> QED BY <1>1, <1>4 DEF op, done, IsSave

LEMMA CommitStep ==
  ASSUME Orderly, NEW w \in Workers, Commit(w)
  PROVE  Orderly'
<1> DEFINE op == worker[w].op
           done == worker[w].done
<1>1. /\ Busy(w) /\ worker[w].todo = <<>> /\ Write(op, done) /\ Finish(w, TRUE)
      /\ UNCHANGED <<process, registry, guards, calls, queue, lost>>
  BY DEF Commit
<1>2. /\ Executing' /\ Unfinished' \subseteq Unfinished /\ Started(worker[w])
      /\ IF ~ IsSave(op) THEN Succeeded' = Succeeded \cup {op} ELSE Succeeded' = Succeeded
      /\ ~ IsSave(op) => op \in calls \ Succeeded
  BY <1>1, FinishMoves DEF Orderly
<1>3. op \in Operations \cup Saves
      /\ \/ op.do = "create" /\ done = {"reserve", "insert group"}
         \/ op.do = "dissolve" /\ done = {"delete members", "delete group"}
         \/ op.do \in {"join", "leave", "adopt"} /\ done = {op.do}
         \/ IsSave(op) /\ done = {}
  BY <1>1, <1>2, InOnePiece
<1>4. Up
  BY <1>1, BusyUp
<1> HIDE DEF op, done
<1>5. CASE IsSave(op)
  <2>1. op \in Saves /\ done = {}
    BY <1>3, <1>5, OperationKinds DEF IsSave
  <2>2. /\ DOMAIN rows' = DOMAIN rows /\ rows' = [x \in DOMAIN rows |-> rows'[x]]
        /\ \A x \in DOMAIN rows : rows'[x] = rows[x]
        /\ edges' = edges /\ ever' = ever /\ sequence' = sequence
    <3>1. done \in {{}, {"join"}, {"leave"}, {"adopt"}, {"save"}}
          /\ done # {"join"} /\ done # {"leave"} /\ done # {"adopt"} /\ done # {"save"}
      BY <2>1
    <3> QED BY <1>1, <1>3, <3>1, UpdateWrites DEF Orderly
  <2>3. UNCHANGED tables
    BY <2>2 DEF tables, Orderly, Tables
  <2> QED BY <1>1, <1>2, <1>4, <1>5, <2>3, Still DEF process
<1>6. CASE ~ IsSave(op)
  <2>1. Settling(op)
    BY <1>1, <1>2, <1>3, <1>4, <1>6, OperationKinds DEF Settling
  <2>2. /\ op.do = "create" => done = {"reserve", "insert group"}
        /\ op.do = "dissolve" => done = {"delete members", "delete group"}
        /\ op.do \in {"join", "leave", "adopt"} => done = {op.do}
        /\ op.do \in {"create", "dissolve", "join", "leave", "adopt"}
    BY <1>3, <1>6 DEF IsSave
  <2>3. CASE op.do = "create"
    BY <1>1, <2>1, <2>2, <2>3, CommitCreate
  <2>4. CASE op.do = "dissolve"
    BY <1>1, <2>1, <2>2, <2>4, CommitDissolve
  <2>5. CASE op.do \in {"join", "leave"}
    BY <1>1, <2>1, <2>2, <2>5, CommitMembership
  <2>6. CASE op.do = "adopt"
    <3>1. done = {"adopt"}
      BY <2>2, <2>6
    <3> QED BY <1>1, <2>1, <2>6, <3>1, CommitAdopt
  <2> QED BY <2>2, <2>3, <2>4, <2>5, <2>6
<1> QED BY <1>5, <1>6

\* A save is the one write outside a transaction.
LEMMA ExecuteStep ==
  ASSUME Orderly, NEW w \in Workers, Execute(w)
  PROVE  Orderly'
<1> DEFINE op == worker[w].op
           g == op.group
<1>1. /\ Busy(w) /\ phase' = phase /\ agents' = agents /\ refused' = refused /\ nextId' = nextId
      /\ valid' = valid /\ groups' = groups /\ memberOf' = memberOf /\ pending' = pending
      /\ adopting' = adopting /\ calls' = calls /\ results' = results
  BY DEF Execute, process, registry, guards
<1>2. /\ Executing' /\ Unfinished' = Unfinished
      /\ \/ UNCHANGED tables
         \/ op \in Saves \cap Unfinished /\ Write(op, {"save"})
  BY ExecuteMoves DEF Orderly
<1>3. Succeeded' = Succeeded /\ Up
  BY <1>1, BusyUp DEF Succeeded
<1> HIDE DEF op, g
<1>4. CASE UNCHANGED tables
  BY <1>1, <1>2, <1>3, <1>4, Still DEF registry, guards
<1>5. CASE op \in Saves \cap Unfinished /\ Write(op, {"save"})
  <2>1. /\ DOMAIN rows' = DOMAIN rows /\ rows' = [x \in DOMAIN rows |-> rows'[x]]
        /\ \A x \in DOMAIN rows \ {g} : rows'[x] = rows[x]
        /\ g \in DOMAIN rows => rows'[g] \in {op.arg, rows[g]}
        /\ edges' = edges /\ ever' = ever /\ sequence' = sequence
    <3> DEFINE done == {"save"}
    <3>1. done \in {{}, {"join"}, {"leave"}, {"adopt"}, {"save"}} /\ op \in Operations \cup Saves
      BY <1>5
    <3>2. done # {"join"} /\ done # {"leave"} /\ done # {"adopt"} /\ done = {"save"}
      OBVIOUS
    <3>3. Write(op, done)
      BY <1>5
    <3> HIDE DEF done
    <3> QED BY <3>1, <3>2, <3>3, UpdateWrites DEF Orderly, g
  <2>2. \A x \in DOMAIN rows : rows'[x] \in Rows /\ rows'[x].profile = rows[x].profile
    <3>1. op.arg \in Rows
      BY <1>5, OperationKinds
    <3>2. g \in DOMAIN rows => op.arg.profile = rows[g].profile
      BY <1>5, SaveKeepsProfile DEF g
    <3>3. rows \in [DOMAIN rows -> Rows]
      BY DEF Orderly, Tables
    <3> QED BY <2>1, <3>1, <3>2, <3>3
  <2>3. Up' /\ Stopped'
    BY <1>1, <1>3 DEF Up, Stopped
  <2>4. Tables' /\ Registry'
    <3>1. rows' \in [DOMAIN rows -> Rows]
      BY <2>1, <2>2
    <3>2. Tables'
      BY <2>1, <3>1 DEF Orderly, Tables
    <3>3. Registry'
      BY <1>1, <2>1, <2>3 DEF Orderly, Registry, IndexAgrees, Up
    <3> QED BY <3>2, <3>3
  <2>5. Created' /\ Claims' /\ Adoptions'
    BY <1>1, <1>2, <1>3, <2>1, <2>2 DEF Orderly, Created, Claims, Adoptions
  <2>6. \A x, a : /\ IsCreated(x)' <=> IsCreated(x)
                  /\ IsDissolved(x)' <=> IsDissolved(x)
                  /\ IsAdopted(x)' <=> IsAdopted(x)
                  /\ HasJoined(x, a)' <=> HasJoined(x, a)
                  /\ HasLeft(x, a)' <=> HasLeft(x, a)
    BY <1>3 DEF IsCreated, IsDissolved, IsAdopted, HasJoined, HasLeft
  <2>7. Settled' /\ Membership'
    BY <1>1, <1>3, <2>1, <2>6 DEF Orderly, Settled, Membership
  <2>8. ProfilesAgree'
    BY <1>1, <1>2, <1>3, <2>1, <2>2, <2>6 DEF Orderly, ProfilesAgree
  <2> QED BY <1>2, <2>3, <2>4, <2>5, <2>7, <2>8 DEF Orderly
<1> QED BY <1>2, <1>4, <1>5

---------------------------------------------------------------------------
(* Completions *)

\* The world thread takes the result of op.
Over(op) ==
  /\ op \in (Operations \cap calls) \ Unfinished /\ phase = "running"
  /\ Executing' /\ Unfinished' = Unfinished /\ Succeeded' = Succeeded \ {op}
  /\ calls' = calls \ {op}
  /\ UNCHANGED <<tables, process>>

LEMMA CompleteIsOver ==
  ASSUME Orderly, NEW r \in results, Complete(r)
  PROVE  Over(r.op) /\ Release(r.op, r.op \in Succeeded) /\ (r.op \in Succeeded <=> r.ok)
<1>1. /\ phase = "running" /\ r.op \in calls /\ calls' = calls \ {r.op} /\ results' = results \ {r}
      /\ UNCHANGED <<tables, process>> /\ queue' = queue /\ worker' = worker
      /\ Release(r.op, r.ok)
  BY DEF Complete
<1>2. /\ Executing' /\ Unfinished' = Unfinished
      /\ Succeeded' = Succeeded \ {r.op} /\ r.op \in calls
      /\ r.op \in Succeeded <=> r.ok
  BY <1>1, CompleteMoves DEF Orderly
<1>3. r.op \in Operations /\ r.op \notin Unfinished /\ r.ok \in BOOLEAN
  BY DEF Orderly, Executing
<1>4. Over(r.op)
  BY <1>1, <1>2, <1>3 DEF Over
<1>5. Release(r.op, r.op \in Succeeded)
  BY <1>1, <1>2, <1>3 DEF Release
<1> QED BY <1>2, <1>4, <1>5

\* What is no longer told when one success is taken.
LEMMA LessSucceeded ==
  ASSUME NEW op, Succeeded' = Succeeded \ {op}
  PROVE  \A g, a :
           /\ IsCreated(g)' => IsCreated(g)
           /\ IsCreated(g) => IsCreated(g)' \/ (op.do = "create" /\ op.group = g)
           /\ IsDissolved(g)' => IsDissolved(g)
           /\ IsDissolved(g) => IsDissolved(g)' \/ (op.do = "dissolve" /\ op.group = g)
           /\ IsAdopted(g)' => IsAdopted(g)
           /\ IsAdopted(g) => IsAdopted(g)' \/ (op \in Succeeded /\ op.do = "adopt" /\ op.group = g)
           /\ HasJoined(g, a)' => HasJoined(g, a)
           /\ HasJoined(g, a) => HasJoined(g, a)' \/ (op.do = "join" /\ op.group = g /\ op.arg = a)
           /\ HasLeft(g, a)' => HasLeft(g, a)
           /\ HasLeft(g, a) => HasLeft(g, a)' \/ (op.do = "leave" /\ op.group = g /\ op.arg = a)
BY DEF IsCreated, IsDissolved, IsAdopted, HasJoined, HasLeft

\* What a completion of any kind leaves as it was.
LEMMA OverKeeps ==
  ASSUME Orderly, NEW op, Over(op), Release(op, op \in Succeeded)
  PROVE  /\ phase = "running" /\ phase' = phase /\ agents' = agents /\ refused' = refused
         /\ nextId' = nextId /\ valid' = valid
         /\ rows' = rows /\ edges' = edges /\ sequence' = sequence /\ ever' = ever
         /\ Up /\ Up' /\ Tables' /\ Stopped' /\ Claims'
         /\ pending' = IF op.do \in Guarded THEN pending \ {op.group} ELSE pending
         /\ adopting' = IF op.do = "adopt" \/ (op.do = "dissolve" /\ op \in Succeeded)
                        THEN adopting \ {op.group} ELSE adopting
<1>1. /\ phase = "running" /\ phase' = phase /\ agents' = agents /\ refused' = refused
      /\ nextId' = nextId /\ valid' = valid
      /\ rows' = rows /\ edges' = edges /\ sequence' = sequence /\ ever' = ever /\ calls' = calls \ {op}
      /\ op \in calls
  BY DEF Over, tables, process
<1>2. Up /\ Up' /\ Stopped'
  BY <1>1 DEF Up, Stopped
<1>3. /\ pending' = IF op.do \in Guarded THEN pending \ {op.group} ELSE pending
      /\ adopting' = IF op.do = "adopt" \/ (op.do = "dissolve" /\ op \in Succeeded)
                     THEN adopting \ {op.group} ELSE adopting
  BY DEF Release, Guarded
<1>4. Claims'
  <2>1. /\ \A c \in calls : c.do \in Guarded => c.group \in pending
        /\ \A c, other \in calls :
             c.do \in Guarded /\ other.do \in Guarded /\ c.group = other.group => c = other
        /\ \A c \in calls : c.do = "join" => c.arg \in agents
    BY DEF Orderly, Claims
  <2> HIDE DEF Guarded
  <2> QED BY <1>1, <1>3, <2>1 DEF Claims
<1>5. Tables'
  BY <1>1 DEF Orderly, Tables
<1> QED BY <1>1, <1>2, <1>3, <1>4, <1>5

\* A failed operation is forgotten.
LEMMA CompleteFailed ==
  ASSUME Orderly, NEW op, Over(op), Release(op, op \in Succeeded), op \notin Succeeded, UNCHANGED registry
  PROVE  Orderly'
<1>1. /\ phase = "running" /\ phase' = phase /\ agents' = agents /\ refused' = refused
      /\ nextId' = nextId /\ valid' = valid
      /\ rows' = rows /\ edges' = edges /\ sequence' = sequence /\ ever' = ever
      /\ Up /\ Up' /\ Tables' /\ Stopped' /\ Claims'
      /\ pending' = IF op.do \in Guarded THEN pending \ {op.group} ELSE pending
      /\ adopting' = IF op.do = "adopt" \/ (op.do = "dissolve" /\ op \in Succeeded)
                     THEN adopting \ {op.group} ELSE adopting
  BY OverKeeps
<1>2. /\ Executing' /\ Unfinished' = Unfinished /\ Succeeded' = Succeeded /\ calls' = calls \ {op}
      /\ groups' = groups /\ memberOf' = memberOf
  BY DEF Over, registry
<1>3. \A g, a : /\ IsCreated(g)' <=> IsCreated(g)
                /\ IsDissolved(g)' <=> IsDissolved(g)
                /\ IsAdopted(g)' <=> IsAdopted(g)
                /\ HasJoined(g, a)' <=> HasJoined(g, a)
                /\ HasLeft(g, a)' <=> HasLeft(g, a)
  BY <1>2 DEF IsCreated, IsDissolved, IsAdopted, HasJoined, HasLeft
<1>4. Registry'
  BY <1>1, <1>2 DEF Orderly, Registry, IndexAgrees
<1>5. Created'
  BY <1>1, <1>2 DEF Orderly, Created
<1>6. Adoptions'
  <2>1. op \in calls
    BY DEF Over
  <2> QED BY <1>1, <1>2, <2>1 DEF Orderly, Adoptions
<1>7. Settled' /\ Membership'
  BY <1>1, <1>2, <1>3 DEF Orderly, Settled, Membership
<1>8. ProfilesAgree'
  BY <1>1, <1>2, <1>3 DEF Orderly, ProfilesAgree
<1> QED BY <1>1, <1>2, <1>4, <1>5, <1>6, <1>7, <1>8 DEF Orderly

LEMMA CompleteCreate ==
  ASSUME Orderly, NEW op, Over(op), Release(op, op \in Succeeded), op \in Succeeded,
         op.do = "create", Confirm(op)
  PROVE  Orderly'
<1> DEFINE g == op.group
           record == [profile |-> op.arg, members |-> {}, version |-> 0]
<1>1. /\ phase = "running" /\ phase' = phase /\ agents' = agents /\ refused' = refused
      /\ nextId' = nextId /\ valid' = valid
      /\ rows' = rows /\ edges' = edges /\ sequence' = sequence /\ ever' = ever
      /\ Up /\ Up' /\ Tables' /\ Stopped' /\ Claims'
      /\ pending' = pending /\ adopting' = adopting
  BY OverKeeps DEF Guarded
<1>2. /\ Executing' /\ Unfinished' = Unfinished /\ Succeeded' = Succeeded \ {op} /\ calls' = calls \ {op}
      /\ op \in Operations /\ op \in calls /\ op \notin Unfinished
  BY DEF Over
<1>3. /\ g \notin DOMAIN groups /\ g \in DOMAIN rows /\ rows[g].profile = op.arg
      /\ \A a \in Agents : <<g, a>> \notin edges
      /\ \A other \in calls \cup Unfinished : other.group = g => other = op
  BY <1>2 DEF Orderly, Created
<1>4. /\ groups' = [x \in DOMAIN groups \cup {g} |-> IF x = g THEN record ELSE groups[x]]
      /\ memberOf' = memberOf
  BY <1>3 DEF Confirm, Add
<1>5. g \in Ids /\ record \in [profile : Profiles, members : SUBSET agents, version : 0..MaxVersion]
      /\ record.profile = op.arg /\ record.members = {}
  BY <1>2, OperationKinds, GroupConstants
<1>6. Succeeded \subseteq calls
  BY SucceededCalls DEF Orderly
<1>7. \A x, a : /\ IsCreated(x) => IsCreated(x)' \/ x = g
                /\ IsDissolved(x)' <=> IsDissolved(x)
                /\ IsAdopted(x)' <=> IsAdopted(x)
                /\ HasJoined(x, a)' <=> HasJoined(x, a)
                /\ HasLeft(x, a)' <=> HasLeft(x, a)
  BY <1>2, LessSucceeded
<1> HIDE DEF g, record
<1>8. /\ DOMAIN groups' = DOMAIN groups \cup {g} /\ groups'[g] = record
      /\ \A x \in DOMAIN groups : groups'[x] = groups[x]
  BY <1>3, <1>4
<1>9. Registry'
  <2>1. groups' \in [DOMAIN groups' -> [profile : Profiles, members : SUBSET agents, version : 0..MaxVersion]]
    BY <1>4, <1>5 DEF Orderly, Registry
  <2>2. DOMAIN groups' \subseteq ever
    BY <1>3, <1>8 DEF Orderly, Registry, Tables
  <2>3. IndexAgrees'
    BY <1>3, <1>4, <1>5, <1>8 DEF Orderly, Registry, IndexAgrees
  <2> QED BY <1>1, <1>2, <1>4, <1>8, <2>1, <2>2, <2>3 DEF Orderly, Registry
<1>10. Created'
  <2>1. \A c \in calls' : c.group # g
    BY <1>2, <1>3
  <2> QED BY <1>1, <1>2, <1>8, <2>1 DEF Orderly, Created
<1>11. Adoptions'
  BY <1>1, <1>2, <1>3, <1>8 DEF Orderly, Adoptions
<1>12. Settled'
  BY <1>1, <1>2, <1>3, <1>7, <1>8 DEF Orderly, Settled
<1>13. Membership'
  <2>1. \A a \in agents : <<g, a>> \notin edges
    BY <1>3 DEF Orderly, Registry
  <2> QED BY <1>1, <1>2, <1>5, <1>7, <1>8, <2>1 DEF Orderly, Membership
<1>14. ProfilesAgree'
  <2>1. \A other \in Unfinished : other.group # g
    BY <1>2, <1>3
  <2> QED BY <1>1, <1>2, <1>3, <1>5, <1>7, <1>8, <2>1 DEF Orderly, ProfilesAgree
<1> QED BY <1>1, <1>2, <1>9, <1>10, <1>11, <1>12, <1>13, <1>14 DEF Orderly

LEMMA CompleteJoin ==
  ASSUME Orderly, NEW op, Over(op), Release(op, op \in Succeeded), op \in Succeeded,
         op.do = "join", Confirm(op)
  PROVE  Orderly'
<1> DEFINE g == op.group
           m == op.arg
           Shape == [profile : Profiles, members : SUBSET agents, version : 0..MaxVersion]
<1>1. /\ phase = "running" /\ phase' = phase /\ agents' = agents /\ refused' = refused
      /\ nextId' = nextId /\ valid' = valid
      /\ rows' = rows /\ edges' = edges /\ sequence' = sequence /\ ever' = ever
      /\ Up /\ Up' /\ Tables' /\ Stopped' /\ Claims'
      /\ pending' = pending \ {g} /\ adopting' = adopting
  BY OverKeeps DEF Guarded
<1>2. /\ Executing' /\ Unfinished' = Unfinished /\ Succeeded' = Succeeded \ {op} /\ calls' = calls \ {op}
      /\ op \in Operations /\ op \in calls /\ op \notin Unfinished
  BY DEF Over
<1>3. /\ <<g, m>> \in edges /\ g \in DOMAIN groups /\ m \in agents /\ m \in Agents /\ g \in DOMAIN rows
  BY <1>1, <1>2 DEF Orderly, Membership, Claims, Guarded, Registry, Settled
<1>4. IF m \notin groups[g].members
      THEN /\ groups' = [groups EXCEPT ![g].members = @ \cup {m}]
           /\ memberOf' = [memberOf EXCEPT ![m] = @ \cup {g}]
      ELSE groups' = groups /\ memberOf' = memberOf
  BY <1>3 DEF Confirm, AddMember, registry
<1>5. Succeeded \subseteq calls
  BY SucceededCalls DEF Orderly
<1>6. \A x, a : /\ IsCreated(x)' <=> IsCreated(x)
                /\ IsDissolved(x)' <=> IsDissolved(x)
                /\ IsAdopted(x)' <=> IsAdopted(x)
                /\ HasJoined(x, a) => HasJoined(x, a)' \/ (x = g /\ a = m)
                /\ HasLeft(x, a)' <=> HasLeft(x, a)
  BY <1>2, LessSucceeded
<1>16. /\ groups \in [DOMAIN groups -> Shape] /\ memberOf \in [Agents -> SUBSET Ids]
       /\ g \in Ids
  BY <1>2, OperationKinds DEF Orderly, Registry
<1> HIDE DEF g, m
<1>7. /\ DOMAIN groups' = DOMAIN groups /\ groups' \in [DOMAIN groups -> Shape]
      /\ groups'[g].members = groups[g].members \cup {m}
      /\ \A x \in DOMAIN groups : groups'[x].profile = groups[x].profile
      /\ \A x \in DOMAIN groups \ {g} : groups'[x] = groups[x]
  <2>1. CASE m \notin groups[g].members
    <3>1. groups[g] \in Shape
      BY <1>3, <1>16
    <3>2. groups'[g] = [groups[g] EXCEPT !.members = @ \cup {m}]
      BY <1>3, <1>4, <2>1
    <3>3. groups'[g] \in Shape /\ groups'[g].members = groups[g].members \cup {m}
          /\ groups'[g].profile = groups[g].profile
      BY <1>3, <3>1, <3>2
    <3>4. /\ groups' = [x \in DOMAIN groups |-> groups'[x]] /\ DOMAIN groups' = DOMAIN groups
          /\ \A x \in DOMAIN groups \ {g} : groups'[x] = groups[x]
      BY <1>4, <2>1
    <3> HIDE DEF Shape
    <3>5. \A x \in DOMAIN groups : groups'[x] \in Shape
      BY <1>16, <3>3, <3>4
    <3>6. groups' \in [DOMAIN groups -> Shape]
      BY <3>4, <3>5
    <3>7. \A x \in DOMAIN groups : groups'[x].profile = groups[x].profile
      BY <3>3, <3>4
    <3> QED BY <3>3, <3>4, <3>6, <3>7
  <2>2. CASE m \in groups[g].members
    <3>1. groups' = groups
      BY <1>4, <2>2
    <3>2. groups[g].members = groups[g].members \cup {m}
      BY <2>2
    <3> HIDE DEF Shape
    <3> QED BY <1>16, <3>1, <3>2
  <2> QED BY <2>1, <2>2
<1>8. /\ memberOf' \in [Agents -> SUBSET Ids]
      /\ memberOf'[m] = memberOf[m] \cup {g}
      /\ \A a \in Agents \ {m} : memberOf'[a] = memberOf[a]
  <2>1. m \in groups[g].members => g \in memberOf[m]
    BY <1>3 DEF Orderly, Registry, IndexAgrees
  <2> QED BY <1>3, <1>4, <1>16, <2>1
<1>9. Registry'
  <2>1. ASSUME NEW a \in Agents
        PROVE  memberOf'[a] = {x \in DOMAIN groups' : a \in groups'[x].members}
    <3>1. memberOf[a] = {x \in DOMAIN groups : a \in groups[x].members}
      BY DEF Orderly, Registry, IndexAgrees
    <3>2. CASE a = m
      BY <1>3, <1>7, <1>8, <3>1, <3>2
    <3>3. CASE a # m
      BY <1>3, <1>7, <1>8, <3>1, <3>3
    <3> QED BY <3>2, <3>3
  <2>2. IndexAgrees'
    BY <2>1 DEF IndexAgrees
  <2>3. pending' \subseteq DOMAIN groups' /\ adopting' \subseteq DOMAIN groups'
    BY <1>1, <1>7 DEF Orderly, Registry
  <2> QED BY <1>1, <1>2, <1>7, <1>8, <2>2, <2>3 DEF Orderly, Registry
<1>10. Created'
  <2>1. \A c \in calls' : c \in calls /\ (c \in Succeeded' <=> c \in Succeeded)
    BY <1>2
  <2> QED BY <1>1, <1>2, <1>7, <2>1 DEF Orderly, Created
<1>11. Adoptions'
  BY <1>1, <1>2, <1>7 DEF Orderly, Adoptions
<1>12. Settled'
  BY <1>1, <1>2, <1>6, <1>7 DEF Orderly, Settled
<1>13. Membership'
  <2>1. /\ \A c \in Succeeded : c.do = "join" => <<c.group, c.arg>> \in edges
        /\ \A c \in Succeeded : c.do = "leave" => <<c.group, c.arg>> \notin edges
        /\ \A x \in DOMAIN groups : \A a \in groups[x].members :
             <<x, a>> \in edges \/ IsDissolved(x) \/ HasLeft(x, a)
        /\ \A x \in DOMAIN groups : \A a \in agents \ groups[x].members :
             <<x, a>> \notin edges \/ <<x, a>> \in refused \/ HasJoined(x, a)
    BY DEF Orderly, Membership
  <2>2. \A x \in DOMAIN groups : \A a \in groups'[x].members :
          <<x, a>> \in edges \/ IsDissolved(x)' \/ HasLeft(x, a)'
    BY <1>3, <1>6, <1>7, <2>1
  <2>3. \A x \in DOMAIN groups : \A a \in agents \ groups'[x].members :
          <<x, a>> \notin edges \/ <<x, a>> \in refused \/ HasJoined(x, a)'
    BY <1>3, <1>6, <1>7, <2>1
  <2> QED BY <1>1, <1>2, <1>7, <2>1, <2>2, <2>3 DEF Membership
<1>14. ProfilesAgree'
  BY <1>1, <1>2, <1>6, <1>7 DEF Orderly, ProfilesAgree
<1> QED BY <1>1, <1>2, <1>9, <1>10, <1>11, <1>12, <1>13, <1>14 DEF Orderly

LEMMA CompleteLeave ==
  ASSUME Orderly, NEW op, Over(op), Release(op, op \in Succeeded), op \in Succeeded,
         op.do = "leave", Confirm(op)
  PROVE  Orderly'
<1> DEFINE g == op.group
           m == op.arg
           Shape == [profile : Profiles, members : SUBSET agents, version : 0..MaxVersion]
<1>1. /\ phase = "running" /\ phase' = phase /\ agents' = agents /\ refused' = refused
      /\ nextId' = nextId /\ valid' = valid
      /\ rows' = rows /\ edges' = edges /\ sequence' = sequence /\ ever' = ever
      /\ Up /\ Up' /\ Tables' /\ Stopped' /\ Claims'
      /\ pending' = pending \ {g} /\ adopting' = adopting
  BY OverKeeps DEF Guarded
<1>2. /\ Executing' /\ Unfinished' = Unfinished /\ Succeeded' = Succeeded \ {op} /\ calls' = calls \ {op}
      /\ op \in Operations /\ op \in calls /\ op \notin Unfinished
  BY DEF Over
<1>3. /\ <<g, m>> \notin edges /\ g \in DOMAIN groups /\ m \in Agents /\ g \in DOMAIN rows
  BY <1>1, <1>2, OperationKinds DEF Orderly, Membership, Claims, Guarded, Registry, Settled
<1>4. IF m \in groups[g].members
      THEN /\ groups' = [groups EXCEPT ![g].members = @ \ {m}]
           /\ memberOf' = [memberOf EXCEPT ![m] = @ \ {g}]
      ELSE groups' = groups /\ memberOf' = memberOf
  BY <1>3 DEF Confirm, RemoveMember, registry
<1>5. Succeeded \subseteq calls
  BY SucceededCalls DEF Orderly
<1>6. \A x, a : /\ IsCreated(x)' <=> IsCreated(x)
                /\ IsDissolved(x)' <=> IsDissolved(x)
                /\ IsAdopted(x)' <=> IsAdopted(x)
                /\ HasJoined(x, a)' <=> HasJoined(x, a)
                /\ HasLeft(x, a) => HasLeft(x, a)' \/ (x = g /\ a = m)
  BY <1>2, LessSucceeded
<1>16. /\ groups \in [DOMAIN groups -> Shape] /\ memberOf \in [Agents -> SUBSET Ids]
       /\ g \in Ids
  BY <1>2, OperationKinds DEF Orderly, Registry
<1> HIDE DEF g, m
<1>7. /\ DOMAIN groups' = DOMAIN groups /\ groups' \in [DOMAIN groups -> Shape]
      /\ groups'[g].members = groups[g].members \ {m}
      /\ \A x \in DOMAIN groups : groups'[x].profile = groups[x].profile
      /\ \A x \in DOMAIN groups \ {g} : groups'[x] = groups[x]
  <2>1. CASE m \in groups[g].members
    <3>1. groups[g] \in Shape
      BY <1>3, <1>16
    <3>2. groups'[g] = [groups[g] EXCEPT !.members = @ \ {m}]
      BY <1>3, <1>4, <2>1
    <3>3. groups'[g] \in Shape /\ groups'[g].members = groups[g].members \ {m}
          /\ groups'[g].profile = groups[g].profile
      BY <1>3, <3>1, <3>2
    <3>4. /\ groups' = [x \in DOMAIN groups |-> groups'[x]] /\ DOMAIN groups' = DOMAIN groups
          /\ \A x \in DOMAIN groups \ {g} : groups'[x] = groups[x]
      BY <1>4, <2>1
    <3> HIDE DEF Shape
    <3>5. \A x \in DOMAIN groups : groups'[x] \in Shape
      BY <1>16, <3>3, <3>4
    <3>6. groups' \in [DOMAIN groups -> Shape]
      BY <3>4, <3>5
    <3>7. \A x \in DOMAIN groups : groups'[x].profile = groups[x].profile
      BY <3>3, <3>4
    <3> QED BY <3>3, <3>4, <3>6, <3>7
  <2>2. CASE m \notin groups[g].members
    <3>1. groups' = groups
      BY <1>4, <2>2
    <3>2. groups[g].members = groups[g].members \ {m}
      BY <2>2
    <3> HIDE DEF Shape
    <3> QED BY <1>16, <3>1, <3>2
  <2> QED BY <2>1, <2>2
<1>8. /\ memberOf' \in [Agents -> SUBSET Ids]
      /\ memberOf'[m] = memberOf[m] \ {g}
      /\ \A a \in Agents \ {m} : memberOf'[a] = memberOf[a]
  <2>1. m \notin groups[g].members => g \notin memberOf[m]
    BY <1>3 DEF Orderly, Registry, IndexAgrees
  <2> QED BY <1>3, <1>4, <1>16, <2>1
<1>9. Registry'
  <2>1. ASSUME NEW a \in Agents
        PROVE  memberOf'[a] = {x \in DOMAIN groups' : a \in groups'[x].members}
    <3>1. memberOf[a] = {x \in DOMAIN groups : a \in groups[x].members}
      BY DEF Orderly, Registry, IndexAgrees
    <3>2. CASE a = m
      BY <1>3, <1>7, <1>8, <3>1, <3>2
    <3>3. CASE a # m
      BY <1>3, <1>7, <1>8, <3>1, <3>3
    <3> QED BY <3>2, <3>3
  <2>2. IndexAgrees'
    BY <2>1 DEF IndexAgrees
  <2>3. pending' \subseteq DOMAIN groups' /\ adopting' \subseteq DOMAIN groups'
    BY <1>1, <1>7 DEF Orderly, Registry
  <2> QED BY <1>1, <1>2, <1>7, <1>8, <2>2, <2>3 DEF Orderly, Registry
<1>10. Created'
  <2>1. \A c \in calls' : c \in calls /\ (c \in Succeeded' <=> c \in Succeeded)
    BY <1>2
  <2> QED BY <1>1, <1>2, <1>7, <2>1 DEF Orderly, Created
<1>11. Adoptions'
  BY <1>1, <1>2, <1>7 DEF Orderly, Adoptions
<1>12. Settled'
  BY <1>1, <1>2, <1>6, <1>7 DEF Orderly, Settled
<1>13. Membership'
  <2>1. /\ \A c \in Succeeded : c.do = "join" => <<c.group, c.arg>> \in edges
        /\ \A c \in Succeeded : c.do = "leave" => <<c.group, c.arg>> \notin edges
        /\ \A x \in DOMAIN groups : \A a \in groups[x].members :
             <<x, a>> \in edges \/ IsDissolved(x) \/ HasLeft(x, a)
        /\ \A x \in DOMAIN groups : \A a \in agents \ groups[x].members :
             <<x, a>> \notin edges \/ <<x, a>> \in refused \/ HasJoined(x, a)
    BY DEF Orderly, Membership
  <2>2. \A x \in DOMAIN groups : \A a \in groups'[x].members :
          <<x, a>> \in edges \/ IsDissolved(x)' \/ HasLeft(x, a)'
    BY <1>3, <1>6, <1>7, <2>1
  <2>3. \A x \in DOMAIN groups : \A a \in agents \ groups'[x].members :
          <<x, a>> \notin edges \/ <<x, a>> \in refused \/ HasJoined(x, a)'
    BY <1>3, <1>6, <1>7, <2>1
  <2> QED BY <1>1, <1>2, <1>7, <2>1, <2>2, <2>3 DEF Membership
<1>14. ProfilesAgree'
  BY <1>1, <1>2, <1>6, <1>7 DEF Orderly, ProfilesAgree
<1> QED BY <1>1, <1>2, <1>9, <1>10, <1>11, <1>12, <1>13, <1>14 DEF Orderly

LEMMA CompleteDissolve ==
  ASSUME Orderly, NEW op, Over(op), Release(op, op \in Succeeded), op \in Succeeded,
         op.do = "dissolve", Confirm(op)
  PROVE  Orderly'
<1> DEFINE g == op.group
           Shape == [profile : Profiles, members : SUBSET agents, version : 0..MaxVersion]
<1>1. /\ phase = "running" /\ phase' = phase /\ agents' = agents /\ refused' = refused
      /\ nextId' = nextId /\ valid' = valid
      /\ rows' = rows /\ edges' = edges /\ sequence' = sequence /\ ever' = ever
      /\ Up /\ Up' /\ Tables' /\ Stopped' /\ Claims'
      /\ pending' = pending \ {g} /\ adopting' = adopting \ {g}
  BY OverKeeps DEF Guarded
<1>2. /\ Executing' /\ Unfinished' = Unfinished /\ Succeeded' = Succeeded \ {op} /\ calls' = calls \ {op}
      /\ op \in Operations /\ op \in calls /\ op \notin Unfinished
  BY DEF Over
<1>3. g \in DOMAIN groups /\ g \notin DOMAIN rows
  BY <1>1, <1>2 DEF Orderly, Claims, Guarded, Registry, Settled
<1>4. /\ groups' = [x \in DOMAIN groups \ {g} |-> groups[x]]
      /\ memberOf' = [a \in Agents |-> IF a \in groups[g].members THEN memberOf[a] \ {g} ELSE memberOf[a]]
  BY <1>3 DEF Confirm, Remove
<1>5. \A x, a : /\ IsCreated(x)' <=> IsCreated(x)
                /\ IsDissolved(x) => IsDissolved(x)' \/ x = g
                /\ IsAdopted(x)' <=> IsAdopted(x)
                /\ HasJoined(x, a)' <=> HasJoined(x, a)
                /\ HasLeft(x, a)' <=> HasLeft(x, a)
  BY <1>2, LessSucceeded
<1>6. groups \in [DOMAIN groups -> Shape] /\ memberOf \in [Agents -> SUBSET Ids]
  BY DEF Orderly, Registry
<1> HIDE DEF g
<1>7. /\ DOMAIN groups' = DOMAIN groups \ {g}
      /\ \A x \in DOMAIN groups \ {g} : groups'[x] = groups[x]
  BY <1>4
<1>8. groups' \in [DOMAIN groups' -> Shape]
  <2> HIDE DEF Shape
  <2> QED BY <1>4, <1>6
<1>9. Registry'
  <2>1. ASSUME NEW a \in Agents
        PROVE  memberOf'[a] = {x \in DOMAIN groups' : a \in groups'[x].members}
    <3>1. memberOf[a] = {x \in DOMAIN groups : a \in groups[x].members}
      BY DEF Orderly, Registry, IndexAgrees
    <3>2. memberOf'[a] = memberOf[a] \ {g}
      BY <1>3, <1>4, <3>1
    <3> QED BY <1>7, <3>1, <3>2
  <2>2. IndexAgrees'
    BY <2>1 DEF IndexAgrees
  <2>3. pending' \subseteq DOMAIN groups' /\ adopting' \subseteq DOMAIN groups'
    BY <1>1, <1>7 DEF Orderly, Registry
  <2>4. memberOf' \in [Agents -> SUBSET Ids]
    BY <1>4, <1>6
  <2> QED BY <1>1, <1>2, <1>7, <1>8, <2>2, <2>3, <2>4 DEF Orderly, Registry
<1>10. Created'
  <2>1. \A c \in calls' : c \in calls /\ (c \in Succeeded' <=> c \in Succeeded)
    BY <1>2
  <2> QED BY <1>1, <1>2, <1>7, <2>1 DEF Orderly, Created
<1>11. Adoptions'
  BY <1>1, <1>2, <1>3, <1>7 DEF Orderly, Adoptions
<1>12. Settled'
  BY <1>1, <1>2, <1>3, <1>5, <1>7 DEF Orderly, Settled
<1>13. Membership'
  BY <1>1, <1>2, <1>5, <1>7 DEF Orderly, Membership
<1>14. ProfilesAgree'
  BY <1>1, <1>2, <1>5, <1>7 DEF Orderly, ProfilesAgree
<1> QED BY <1>1, <1>2, <1>9, <1>10, <1>11, <1>12, <1>13, <1>14 DEF Orderly

LEMMA CompleteAdopt ==
  ASSUME Orderly, NEW op, Over(op), Release(op, op \in Succeeded), op \in Succeeded,
         op.do = "adopt", Confirm(op)
  PROVE  Orderly'
<1> DEFINE g == op.group
           p == op.arg
           Shape == [profile : Profiles, members : SUBSET agents, version : 0..MaxVersion]
<1>1. /\ phase = "running" /\ phase' = phase /\ agents' = agents /\ refused' = refused
      /\ nextId' = nextId /\ valid' = valid
      /\ rows' = rows /\ edges' = edges /\ sequence' = sequence /\ ever' = ever
      /\ Up /\ Up' /\ Tables' /\ Stopped' /\ Claims'
      /\ pending' = pending /\ adopting' = adopting \ {g}
  BY OverKeeps DEF Guarded
<1>2. /\ Executing' /\ Unfinished' = Unfinished /\ Succeeded' = Succeeded \ {op} /\ calls' = calls \ {op}
      /\ op \in Operations /\ op \in calls /\ op \notin Unfinished
  BY DEF Over
<1>3. /\ p \in Profiles
      /\ g \in DOMAIN groups => g \in adopting
      /\ g \in DOMAIN rows => rows[g].profile = p
      /\ \A c \in calls : c.do = "adopt" => c = op
  BY <1>2, OperationKinds DEF Orderly, Adoptions, ProfilesAgree
<1>4. IF g \in DOMAIN groups
      THEN groups' = [groups EXCEPT ![g].profile = p] /\ memberOf' = memberOf
      ELSE groups' = groups /\ memberOf' = memberOf
  BY DEF Confirm, SetProfile, registry
<1>5. \A x, a : /\ IsCreated(x)' <=> IsCreated(x)
                /\ IsDissolved(x)' <=> IsDissolved(x)
                /\ IsAdopted(x) => IsAdopted(x)' \/ x = g
                /\ HasJoined(x, a)' <=> HasJoined(x, a)
                /\ HasLeft(x, a)' <=> HasLeft(x, a)
  BY <1>2, LessSucceeded
<1>6. groups \in [DOMAIN groups -> Shape]
  BY DEF Orderly, Registry
<1> HIDE DEF g, p
<1>7. /\ DOMAIN groups' = DOMAIN groups /\ groups' \in [DOMAIN groups -> Shape]
      /\ g \in DOMAIN groups => groups'[g].profile = p
      /\ \A x \in DOMAIN groups : groups'[x].members = groups[x].members
      /\ \A x \in DOMAIN groups \ {g} : groups'[x] = groups[x]
  <2>1. CASE g \in DOMAIN groups
    <3>1. groups[g] \in Shape
      BY <1>6, <2>1
    <3>2. groups'[g] = [groups[g] EXCEPT !.profile = p]
      BY <1>4, <2>1
    <3>3. /\ groups'[g] \in Shape /\ groups'[g].members = groups[g].members
          /\ groups'[g].profile = p
      BY <1>3, <3>1, <3>2
    <3>4. /\ groups' = [x \in DOMAIN groups |-> groups'[x]] /\ DOMAIN groups' = DOMAIN groups
          /\ \A x \in DOMAIN groups \ {g} : groups'[x] = groups[x]
      BY <1>4, <2>1
    <3> HIDE DEF Shape
    <3>5. \A x \in DOMAIN groups : groups'[x] \in Shape
      BY <1>6, <3>3, <3>4
    <3>6. groups' \in [DOMAIN groups -> Shape]
      BY <3>4, <3>5
    <3> QED BY <3>3, <3>4, <3>6
  <2>2. CASE g \notin DOMAIN groups
    <3> HIDE DEF Shape
    <3> QED BY <1>4, <1>6, <2>2
  <2> QED BY <2>1, <2>2
<1>8. memberOf' = memberOf
  BY <1>4
<1>9. Registry'
  <2>1. IndexAgrees'
    BY <1>7, <1>8 DEF Orderly, Registry, IndexAgrees
  <2>2. pending' \subseteq DOMAIN groups' /\ adopting' \subseteq DOMAIN groups'
    BY <1>1, <1>7 DEF Orderly, Registry
  <2> QED BY <1>1, <1>2, <1>7, <1>8, <2>1, <2>2 DEF Orderly, Registry
<1>10. Created'
  <2>1. \A c \in calls' : c \in calls /\ (c \in Succeeded' <=> c \in Succeeded)
    BY <1>2
  <2> QED BY <1>1, <1>2, <1>7, <2>1 DEF Orderly, Created
<1>11. Adoptions'
  BY <1>2, <1>3 DEF Adoptions
<1>12. Settled'
  BY <1>1, <1>2, <1>5, <1>7 DEF Orderly, Settled
<1>13. Membership'
  BY <1>1, <1>2, <1>5, <1>7 DEF Orderly, Membership
<1>14. ProfilesAgree'
  BY <1>1, <1>2, <1>3, <1>5, <1>7 DEF Orderly, ProfilesAgree
<1> QED BY <1>1, <1>2, <1>9, <1>10, <1>11, <1>12, <1>13, <1>14 DEF Orderly

LEMMA CompleteStep ==
  ASSUME Orderly, NEW r \in results, Complete(r)
  PROVE  Orderly'
<1> DEFINE op == r.op
<1>1. Over(op) /\ Release(op, op \in Succeeded) /\ (op \in Succeeded <=> r.ok)
  BY CompleteIsOver
<1>2. IF r.ok THEN Confirm(op) ELSE UNCHANGED registry
  BY DEF Complete
<1>3. op.do \in {"create", "adopt", "join", "leave", "dissolve"}
  BY <1>1, OperationKinds DEF Over
<1> HIDE DEF op
<1>4. CASE ~ r.ok
  BY <1>1, <1>2, <1>4, CompleteFailed
<1>5. CASE r.ok
  BY <1>1, <1>2, <1>3, <1>5, CompleteCreate, CompleteJoin, CompleteLeave, CompleteDissolve, CompleteAdopt
<1> QED BY <1>4, <1>5

---------------------------------------------------------------------------
(* Requests *)

\* A registered group has an id below the next one.
LEMMA RegisteredIds ==
  ASSUME Orderly, Up, NEW g \in DOMAIN groups
  PROVE  g \in Ids /\ g < nextId /\ g \in ever
<1>1. g \in ever /\ g \in Ids /\ g < sequence /\ sequence \in Ids /\ sequence <= nextId /\ nextId \in Ids
  BY DEF Orderly, Registry, Tables
<1>2. g \in Int /\ sequence \in Int /\ nextId \in Int
  BY <1>1, IdRange
<1> QED BY <1>1, <1>2

\* What a request of any kind leaves as it was.
LEMMA SubmitKeeps ==
  ASSUME Orderly, Up, NEW op \in Operations \ calls, Submit(op),
         UNCHANGED <<tables, Executor, registry, phase, agents, refused, valid>>
  PROVE  /\ phase' = phase /\ agents' = agents /\ refused' = refused /\ valid' = valid
         /\ groups' = groups /\ memberOf' = memberOf
         /\ rows' = rows /\ edges' = edges /\ sequence' = sequence /\ ever' = ever
         /\ Executing' /\ Unfinished' = Unfinished \cup {op} /\ Succeeded' = Succeeded
         /\ calls' = calls \cup {op} /\ op \notin Succeeded
         /\ Up' /\ Tables' /\ Stopped' /\ Membership'
         /\ \A g : IsAdopted(g)' <=> IsAdopted(g)
         /\ (op.do \in {"join", "leave"} => op.group \in DOMAIN rows) => Settled'
<1>1. /\ phase' = phase /\ agents' = agents /\ refused' = refused /\ valid' = valid
      /\ groups' = groups /\ memberOf' = memberOf
      /\ rows' = rows /\ edges' = edges /\ sequence' = sequence /\ ever' = ever
      /\ worker' = worker /\ results' = results /\ queue' = Append(queue, op) /\ calls' = calls \cup {op}
  BY DEF tables, Executor, registry, Submit
<1>2. Executing' /\ Unfinished' = Unfinished \cup {op} /\ Succeeded' = Succeeded
  BY <1>1, SubmitMoves DEF Orderly
<1>3. Up' /\ Stopped' /\ op \notin Succeeded
  BY <1>1, SucceededCalls DEF Up, Stopped, Orderly
<1>4. Tables'
  BY <1>1 DEF Orderly, Tables
<1>5. \A g, a : /\ IsCreated(g)' <=> IsCreated(g)
                /\ IsDissolved(g)' <=> IsDissolved(g)
                /\ IsAdopted(g)' <=> IsAdopted(g)
                /\ HasJoined(g, a)' <=> HasJoined(g, a)
                /\ HasLeft(g, a)' <=> HasLeft(g, a)
  BY <1>2 DEF IsCreated, IsDissolved, IsAdopted, HasJoined, HasLeft
<1>6. Membership'
  BY <1>1, <1>2, <1>5 DEF Orderly, Membership
<1>7. (op.do \in {"join", "leave"} => op.group \in DOMAIN rows) => Settled'
  BY <1>1, <1>2, <1>3, <1>5 DEF Orderly, Settled
<1> QED BY <1>1, <1>2, <1>3, <1>4, <1>5, <1>6, <1>7

LEMMA CreateRequested ==
  ASSUME Orderly, NEW p \in Profiles, RequestCreateGroup(p)
  PROVE  Orderly'
<1> DEFINE op == Op("create", nextId, p)
<1>0. /\ Up /\ nextId < TopId /\ nextId' = nextId + 1 /\ Submit(op)
      /\ UNCHANGED <<tables, Executor, registry, phase, agents, refused, valid>>
      /\ pending' = pending /\ adopting' = adopting
  BY DEF RequestCreateGroup, guards
<1>10. nextId \in Ids /\ nextId \in Int /\ TopId \in Int /\ nextId >= 1 /\ nextId + 1 \in Ids
  <2>1. nextId \in Ids
    BY DEF Orderly, Registry
  <2>2. nextId \in Int /\ TopId \in Int /\ nextId >= 1
    BY <2>1, IdRange
  <2>3. nextId + 1 \in Int /\ nextId + 1 >= 1 /\ nextId + 1 <= TopId
    BY <1>0, <2>2
  <2>4. nextId + 1 \in Ids
    BY <2>3, IdRange
  <2> QED BY <2>1, <2>2, <2>4
<1>11. /\ op.do = "create" /\ op.group = nextId /\ op.arg = p /\ op \in Operations
  BY <1>10 DEF Op, Operations
<1> HIDE DEF op
<1>12. \A c \in calls \cup Unfinished : c.group < nextId /\ c.group \in Int
  <2>1. calls \cup Unfinished \subseteq Operations \cup Saves
    BY OnTheWay DEF Orderly, Registry, Executing, Started, Runs
  <2> QED BY <2>1, OperationKinds, IdRange DEF Orderly, Created
<1>13. \A c \in calls \cup Unfinished : c.group # nextId
  BY <1>10, <1>12
<1>14. op \notin calls
  BY <1>11, <1>13
<1>1. /\ phase' = phase /\ agents' = agents /\ refused' = refused /\ valid' = valid
      /\ groups' = groups /\ memberOf' = memberOf
      /\ rows' = rows /\ edges' = edges /\ sequence' = sequence /\ ever' = ever
      /\ Executing' /\ Unfinished' = Unfinished \cup {op} /\ Succeeded' = Succeeded
      /\ calls' = calls \cup {op} /\ op \notin Succeeded
      /\ Up' /\ Tables' /\ Stopped' /\ Membership'
      /\ \A h : IsAdopted(h)' <=> IsAdopted(h)
      /\ (op.do \in {"join", "leave"} => op.group \in DOMAIN rows) => Settled'
  BY <1>0, <1>11, <1>14, SubmitKeeps
<1>2. nextId \notin ever /\ nextId \notin DOMAIN groups
  <2>1. \A x \in ever : x \in Int /\ x < nextId
    <3>1. /\ sequence \in Ids /\ sequence <= nextId
          /\ \A x \in ever : x \in Ids /\ x < sequence
      BY <1>0 DEF Orderly, Registry, Tables
    <3>2. sequence \in Int /\ \A x \in ever : x \in Int
      BY <3>1, IdRange
    <3> QED BY <1>10, <3>1, <3>2
  <2>2. nextId \notin ever
    BY <1>10, <2>1
  <2> QED BY <2>2 DEF Orderly, Registry
<1>3. Registry'
  <2>1. sequence <= nextId + 1
    <3>1. sequence \in Ids /\ sequence <= nextId
      BY <1>0 DEF Orderly, Registry, Tables
    <3>2. sequence \in Int
      BY <3>1, IdRange
    <3> QED BY <1>10, <3>1, <3>2
  <2>2. calls' \subseteq Operations
    BY <1>1, <1>11 DEF Orderly, Registry
  <2>3. valid /\ nextId' \in Ids /\ sequence' <= nextId'
    BY <1>0, <1>1, <1>10, <2>1 DEF Orderly, Registry
  <2> QED BY <1>0, <1>1, <2>2, <2>3 DEF Orderly, Registry, IndexAgrees
<1>4. Created'
  <2>1. \A c \in calls' \cup Unfinished' : c.group < nextId'
    <3>1. \A c \in calls \cup Unfinished : c.group < nextId + 1
      BY <1>10, <1>12
    <3>2. nextId < nextId + 1
      BY <1>10
    <3> QED BY <1>0, <1>1, <1>11, <3>1, <3>2
  <2>2. ASSUME NEW c \in calls', c.do = "create"
        PROVE  /\ c.group \notin DOMAIN groups
               /\ c \notin Succeeded => c.group \notin ever
               /\ c \in Succeeded => /\ c.group \in DOMAIN rows /\ rows[c.group].profile = c.arg
                                     /\ \A a \in Agents : <<c.group, a>> \notin edges
               /\ \A other \in calls' \cup Unfinished' : other.group = c.group => other = c
    <3>1. CASE c = op
      BY <1>1, <1>2, <1>11, <1>13, <3>1
    <3>2. CASE c # op
      <4>1. c \in calls
        BY <1>1, <3>2
      <4>2. /\ c.group \notin DOMAIN groups
            /\ c \notin Succeeded => c.group \notin ever
            /\ c \in Succeeded => /\ c.group \in DOMAIN rows /\ rows[c.group].profile = c.arg
                                  /\ \A a \in Agents : <<c.group, a>> \notin edges
            /\ \A other \in calls \cup Unfinished : other.group = c.group => other = c
        BY <2>2, <4>1 DEF Orderly, Created
      <4>3. op.group # c.group
        BY <1>11, <1>13, <4>1
      <4> QED BY <1>1, <4>2, <4>3
    <3> QED BY <3>1, <3>2
  <2> QED BY <1>1, <2>1, <2>2 DEF Created
<1>5. Claims' /\ Adoptions'
  BY <1>0, <1>1, <1>11 DEF Orderly, Claims, Adoptions, Guarded
<1>6. Settled'
  BY <1>1, <1>11
<1>7. ProfilesAgree'
  BY <1>0, <1>1, <1>11 DEF Orderly, ProfilesAgree, IsSave
<1> QED BY <1>1, <1>3, <1>4, <1>5, <1>6, <1>7 DEF Orderly

\* A request on a group that no other request has claimed.
LEMMA ClaimStep ==
  ASSUME Orderly, Up, NEW op \in Operations, op.do \in Guarded, Claim(op.group), Submit(op),
         op.do = "join" => op.arg \in agents,
         UNCHANGED <<tables, Executor, registry, process, adopting>>
  PROVE  Orderly'
<1> DEFINE g == op.group
<1>10. /\ g \in DOMAIN groups /\ g \notin pending /\ pending' = pending \cup {g} /\ adopting' = adopting
       /\ UNCHANGED <<phase, agents, refused, valid>> /\ nextId' = nextId
  BY DEF Claim, process
<1>11. \A c \in calls : c.do \in Guarded => c.group # g
  BY <1>10 DEF Orderly, Claims
<1>12. op \notin calls
  BY <1>11
<1>13. g \in Ids /\ g < nextId /\ g \in ever
  BY <1>10, RegisteredIds
<1>14. g \in DOMAIN rows
  <2>1. Succeeded \subseteq calls
    BY SucceededCalls DEF Orderly
  <2>2. ~ IsDissolved(g)
    BY <1>11, <2>1 DEF IsDissolved, Guarded
  <2> QED BY <1>10, <2>2 DEF Orderly, Settled
<1>1. /\ phase' = phase /\ agents' = agents /\ refused' = refused /\ valid' = valid
      /\ groups' = groups /\ memberOf' = memberOf
      /\ rows' = rows /\ edges' = edges /\ sequence' = sequence /\ ever' = ever
      /\ Executing' /\ Unfinished' = Unfinished \cup {op} /\ Succeeded' = Succeeded
      /\ calls' = calls \cup {op} /\ op \notin Succeeded
      /\ Up' /\ Tables' /\ Stopped' /\ Membership'
      /\ \A h : IsAdopted(h)' <=> IsAdopted(h)
      /\ (op.do \in {"join", "leave"} => op.group \in DOMAIN rows) => Settled'
  BY <1>12, <1>10, SubmitKeeps
<1> HIDE DEF g
<1>2. Registry'
  <2>1. calls' \subseteq Operations /\ pending' \subseteq DOMAIN groups'
    BY <1>1, <1>10 DEF Orderly, Registry
  <2> QED BY <1>1, <1>10, <2>1 DEF Orderly, Registry, IndexAgrees
<1>3. Created'
  <2>1. \A c \in calls' : c.do = "create" => c \in calls /\ c.group # op.group
    <3>1. op.do # "create"
      BY DEF Guarded
    <3> QED BY <1>1, <1>10, <3>1 DEF Orderly, Created, g
  <2>2. \A c \in calls' \cup Unfinished' : c.group < nextId'
    BY <1>1, <1>10, <1>13 DEF Orderly, Created, g
  <2> QED BY <1>1, <2>1, <2>2 DEF Orderly, Created
<1>4. Claims'
  <2> HIDE DEF Guarded
  <2>1. \A c \in calls : c.do \in Guarded => c.group \in pending /\ c.group # op.group
    BY <1>11 DEF Orderly, Claims, g
  <2> QED BY <1>1, <1>10, <2>1 DEF Orderly, Claims, g
<1>5. Adoptions'
  <2>1. op.do # "adopt"
    BY DEF Guarded
  <2> QED BY <1>1, <1>10, <2>1 DEF Orderly, Adoptions
<1>6. Settled'
  BY <1>1, <1>14 DEF g
<1>7. ProfilesAgree'
  <2>1. ~ IsSave(op)
    BY OperationKinds
  <2> QED BY <1>1, <1>10, <2>1 DEF Orderly, ProfilesAgree
<1> QED BY <1>1, <1>2, <1>3, <1>4, <1>5, <1>6, <1>7 DEF Orderly

LEMMA MembersAreAgents ==
  ASSUME Orderly, NEW g \in DOMAIN groups
  PROVE  groups[g].members \subseteq agents /\ agents \subseteq Agents /\ groups[g].profile \in Profiles
         /\ groups[g].version \in 0..MaxVersion /\ groups[g] \in [profile : Profiles, members : SUBSET agents, version : 0..MaxVersion]
BY DEF Orderly, Registry

LEMMA JoinRequested ==
  ASSUME Orderly, NEW g \in Ids, NEW a \in Agents, RequestJoinGroup(g, a)
  PROVE  Orderly'
<1> DEFINE op == Op("join", g, a)
<1>1. op \in Operations /\ op.do = "join" /\ op.group = g /\ op.arg = a
  BY DEF Op, Operations
<1>2. /\ Up /\ Claim(op.group) /\ a \in agents /\ Submit(op)
      /\ UNCHANGED <<tables, Executor, registry, process, adopting>>
  BY <1>1 DEF RequestJoinGroup
<1> HIDE DEF op
<1> QED BY <1>1, <1>2, ClaimStep DEF Guarded

LEMMA LeaveRequested ==
  ASSUME Orderly, NEW g \in Ids, NEW a \in Agents, RequestLeaveGroup(g, a)
  PROVE  Orderly'
<1> DEFINE op == Op("leave", g, a)
<1>1. op \in Operations /\ op.do = "leave" /\ op.group = g
  BY DEF Op, Operations
<1>2. /\ Up /\ Claim(op.group) /\ Submit(op)
      /\ UNCHANGED <<tables, Executor, registry, process, adopting>>
  BY <1>1 DEF RequestLeaveGroup
<1> HIDE DEF op
<1> QED BY <1>1, <1>2, ClaimStep DEF Guarded

LEMMA DissolveRequested ==
  ASSUME Orderly, NEW g \in Ids, RequestDissolveGroup(g)
  PROVE  Orderly'
<1> DEFINE op == Op("dissolve", g, g)
<1>1. op \in Operations /\ op.do = "dissolve" /\ op.group = g
  BY DEF Op, Operations
<1>2. /\ Up /\ Claim(op.group) /\ Submit(op)
      /\ UNCHANGED <<tables, Executor, registry, process, adopting>>
  BY <1>1 DEF RequestDissolveGroup
<1> HIDE DEF op
<1> QED BY <1>1, <1>2, ClaimStep DEF Guarded

\* The adoption of a start precedes every save, and there is only one.
LEMMA AdoptRequested ==
  ASSUME Orderly, NEW g \in Ids, NEW p \in Profiles, RunGroupProfileAdoption(g, p)
  PROVE  Orderly'
<1> DEFINE op == Op("adopt", g, p)
<1>10. /\ phase = "init" /\ adopting = {} /\ g \in DOMAIN groups /\ adopting' = {g} /\ Submit(op)
       /\ UNCHANGED <<tables, Executor, registry, phase, agents, refused, valid>> /\ nextId' = nextId
       /\ pending' = pending
  BY DEF RunGroupProfileAdoption, process
<1>11. op \in Operations /\ op.do = "adopt" /\ op.group = g /\ op.arg = p /\ ~ IsSave(op)
  BY DEF Op, Operations, IsSave
<1> HIDE DEF op
<1>12. Up
  BY <1>10 DEF Up
<1>13. \A c \in calls : c.do # "adopt"
  BY <1>10 DEF Orderly, Adoptions
<1>14. g < nextId
  BY <1>10, <1>12, RegisteredIds
<1>1. /\ phase' = phase /\ agents' = agents /\ refused' = refused /\ valid' = valid
      /\ groups' = groups /\ memberOf' = memberOf
      /\ rows' = rows /\ edges' = edges /\ sequence' = sequence /\ ever' = ever
      /\ Executing' /\ Unfinished' = Unfinished \cup {op} /\ Succeeded' = Succeeded
      /\ calls' = calls \cup {op} /\ op \notin Succeeded
      /\ Up' /\ Tables' /\ Stopped' /\ Membership'
      /\ \A h : IsAdopted(h)' <=> IsAdopted(h)
      /\ (op.do \in {"join", "leave"} => op.group \in DOMAIN rows) => Settled'
  BY <1>10, <1>11, <1>12, <1>13, SubmitKeeps
<1>2. Registry'
  <2>1. calls' \subseteq Operations /\ adopting' \subseteq DOMAIN groups'
    BY <1>1, <1>10, <1>11 DEF Orderly, Registry
  <2> QED BY <1>1, <1>10, <1>12, <2>1 DEF Orderly, Registry, IndexAgrees
<1>3. Created'
  <2>1. \A c \in calls' : c.do = "create" => c \in calls /\ c.group # op.group
    BY <1>1, <1>10, <1>11 DEF Orderly, Created
  <2>2. \A c \in calls' \cup Unfinished' : c.group < nextId'
    BY <1>1, <1>10, <1>11, <1>14 DEF Orderly, Created
  <2> QED BY <1>1, <2>1, <2>2 DEF Orderly, Created
<1>4. Claims' /\ Adoptions'
  BY <1>1, <1>10, <1>11, <1>13 DEF Orderly, Claims, Adoptions, Guarded
<1>5. Settled'
  BY <1>1, <1>11
<1>6. ProfilesAgree'
  <2>1. \A c \in Unfinished' : ~ IsSave(c)
    BY <1>1, <1>10, <1>11 DEF Orderly, ProfilesAgree
  <2> QED BY <1>1, <2>1 DEF Orderly, ProfilesAgree
<1> QED BY <1>1, <1>2, <1>3, <1>4, <1>5, <1>6 DEF Orderly

\* A save is submitted with the profile the registry has.
LEMMA SaveRequested ==
  ASSUME Orderly, NEW g \in Ids, SaveGroupState(g)
  PROVE  Orderly'
<1> DEFINE arg == [profile |-> groups[g].profile, version |-> groups[g].version + 1]
           op == Op("save", g, arg)
           Shape == [profile : Profiles, members : SUBSET agents, version : 0..MaxVersion]
<1>1. /\ phase = "running" /\ g \in DOMAIN groups /\ g \notin adopting
      /\ groups[g].version < MaxVersion
      /\ groups' = [groups EXCEPT ![g].version = @ + 1] /\ queue' = Append(queue, op)
      /\ phase' = phase /\ agents' = agents /\ refused' = refused /\ valid' = valid /\ nextId' = nextId
      /\ memberOf' = memberOf /\ pending' = pending /\ adopting' = adopting /\ calls' = calls
      /\ rows' = rows /\ edges' = edges /\ sequence' = sequence /\ ever' = ever
      /\ worker' = worker /\ results' = results
  BY DEF SaveGroupState, tables, Executor, process, guards
<1>2. /\ groups[g] \in Shape /\ groups \in [DOMAIN groups -> Shape]
      /\ groups[g].profile \in Profiles /\ groups[g].version \in 0..MaxVersion
  BY <1>1, MembersAreAgents DEF Orderly, Registry
<1>3. groups[g].version + 1 \in 0..MaxVersion
  BY <1>1, <1>2, GroupConstants
<1>4. op \in Saves /\ op.group = g /\ op.arg.profile = groups[g].profile /\ IsSave(op)
  BY <1>2, <1>3 DEF Op, Saves, IsSave
<1> HIDE DEF op, arg
<1>5. Executing' /\ Unfinished' = Unfinished \cup {op} /\ Succeeded' = Succeeded
  BY <1>1, <1>4, SubmitMoves DEF Orderly
<1>6. Up /\ Up' /\ Stopped'
  BY <1>1 DEF Up, Stopped
<1>7. /\ DOMAIN groups' = DOMAIN groups /\ groups' \in [DOMAIN groups -> Shape]
      /\ \A x \in DOMAIN groups : groups'[x].profile = groups[x].profile /\ groups'[x].members = groups[x].members
  <2>1. groups'[g] = [groups[g] EXCEPT !.version = groups[g].version + 1]
    BY <1>1
  <2>2. /\ groups'[g] \in Shape /\ groups'[g].members = groups[g].members
        /\ groups'[g].profile = groups[g].profile
    BY <1>2, <1>3, <2>1
  <2>3. /\ groups' = [x \in DOMAIN groups |-> groups'[x]] /\ DOMAIN groups' = DOMAIN groups
        /\ \A x \in DOMAIN groups \ {g} : groups'[x] = groups[x]
    BY <1>1
  <2> HIDE DEF Shape
  <2>4. \A x \in DOMAIN groups : groups'[x] \in Shape
    BY <1>2, <2>2, <2>3
  <2>5. groups' \in [DOMAIN groups -> Shape]
    BY <2>3, <2>4
  <2>6. \A x \in DOMAIN groups : groups'[x].profile = groups[x].profile /\ groups'[x].members = groups[x].members
    BY <2>2, <2>3
  <2> QED BY <2>3, <2>5, <2>6
<1>8. g < nextId /\ g \in ever
  BY <1>1, <1>6, RegisteredIds
<1>9. \A x, a : /\ IsCreated(x)' <=> IsCreated(x)
                /\ IsDissolved(x)' <=> IsDissolved(x)
                /\ IsAdopted(x)' <=> IsAdopted(x)
                /\ HasJoined(x, a)' <=> HasJoined(x, a)
                /\ HasLeft(x, a)' <=> HasLeft(x, a)
  BY <1>5 DEF IsCreated, IsDissolved, IsAdopted, HasJoined, HasLeft
<1>10. Tables'
  BY <1>1 DEF Orderly, Tables
<1>11. Registry'
  <2>1. IndexAgrees'
    BY <1>1, <1>7 DEF Orderly, Registry, IndexAgrees
  <2> QED BY <1>1, <1>6, <1>7, <2>1 DEF Orderly, Registry
<1>12. Created'
  <2>1. \A c \in calls : c.do = "create" => c.group # op.group
    BY <1>1, <1>4 DEF Orderly, Created
  <2>2. \A c \in calls \cup Unfinished' : c.group < nextId
    BY <1>4, <1>5, <1>8 DEF Orderly, Created
  <2> QED BY <1>1, <1>5, <1>7, <2>1, <2>2 DEF Orderly, Created
<1>13. Claims' /\ Adoptions'
  BY <1>1, <1>7 DEF Orderly, Claims, Adoptions
<1>14. Settled'
  BY <1>1, <1>5, <1>6, <1>7, <1>9 DEF Orderly, Settled
<1>15. Membership'
  BY <1>1, <1>5, <1>7, <1>9 DEF Orderly, Membership
<1>16. ProfilesAgree'
  BY ZenonT(60), <1>1, <1>4, <1>5, <1>7, <1>8, <1>9 DEF Orderly, ProfilesAgree
<1> QED BY <1>5, <1>6, <1>10, <1>11, <1>12, <1>13, <1>14, <1>15, <1>16 DEF Orderly

---------------------------------------------------------------------------
(* Start and stop *)

\* The server is down: it has nothing but the tables.
Blank ==
  /\ phase = "down" /\ agents = {} /\ refused = {} /\ nextId = 1 /\ valid = FALSE
  /\ groups = <<>> /\ memberOf = [a \in Agents |-> {}]
  /\ pending = {} /\ adopting = {} /\ calls = {}
  /\ queue = <<>> /\ worker = [w \in Workers |-> Idle] /\ results = {}

LEMMA BlankOrderly == Blank /\ Tables => Orderly
<1> SUFFICES ASSUME Blank, Tables PROVE Orderly
  OBVIOUS
<1>1. /\ phase = "down" /\ agents = {} /\ refused = {} /\ nextId = 1 /\ valid = FALSE
      /\ groups = <<>> /\ memberOf = [a \in Agents |-> {}]
      /\ pending = {} /\ adopting = {} /\ calls = {}
      /\ queue = <<>> /\ worker = [w \in Workers |-> Idle] /\ results = {}
  BY DEF Blank
<1>2. DOMAIN groups = {} /\ Len(queue) = 0 /\ ~ Up
  BY <1>1 DEF Up
<1>3. \A w \in Workers : ~ Busy(w)
  BY <1>1 DEF Busy
<1>4. Queued = {} /\ Running = {} /\ Unfinished = {}
  <2>1. Queued = {}
    BY <1>2 DEF Queued
  <2>2. Running = {}
    BY <1>3 DEF Running
  <2> QED BY <2>1, <2>2 DEF Unfinished
<1>5. Succeeded = {}
  BY <1>1 DEF Succeeded
<1>6. Executing
  <2>1. queue \in Seq(Operations \cup Saves) /\ worker \in [Workers -> Runs \cup {Idle}]
    BY <1>1
  <2> QED BY <1>1, <1>2, <1>3, <1>4, <2>1 DEF Executing
<1>7. Registry
  <2>1. nextId \in Ids
    BY <1>1, GroupConstants DEF Ids
  <2>2. groups \in [DOMAIN groups -> [profile : Profiles, members : SUBSET agents, version : 0..MaxVersion]]
    BY <1>1, <1>2
  <2>3. memberOf \in [Agents -> SUBSET Ids] /\ IndexAgrees
    BY <1>1, <1>2 DEF IndexAgrees
  <2> QED BY <1>1, <1>2, <2>1, <2>2, <2>3 DEF Registry
<1>8. Stopped
  BY <1>1, <1>3, <1>4 DEF Stopped
<1>9. Created /\ Claims /\ Adoptions /\ Settled
  BY <1>1, <1>2, <1>4 DEF Created, Claims, Adoptions, Settled
<1>10. Membership /\ ProfilesAgree
  BY <1>2, <1>4, <1>5 DEF Membership, ProfilesAgree
<1> QED BY <1>6, <1>7, <1>8, <1>9, <1>10 DEF Orderly

LEMMA InitOrderly == Init => Orderly
<1> SUFFICES ASSUME Init PROVE Orderly
  OBVIOUS
<1>1. Blank
  BY DEF Init, Blank
<1>2. /\ rows = [g \in {1} |-> [profile |-> NoProfile, version |-> 0]]
      /\ edges = {1} \X SeedMembers /\ sequence = 2 /\ ever = {1}
  BY DEF Init
<1>3. 1 \in Ids /\ 2 \in Ids
  BY GroupConstants DEF Ids
<1>4. [profile |-> NoProfile, version |-> 0] \in Rows
  BY GroupConstants, NewRow
<1>5. DOMAIN rows = {1} /\ rows \in [DOMAIN rows -> Rows]
  BY <1>2, <1>4
<1>6. edges \subseteq (DOMAIN rows) \X Agents
  BY <1>2, <1>5, GroupConstants
<1>7. Tables
  BY <1>2, <1>3, <1>5, <1>6 DEF Tables
<1> QED BY <1>1, <1>7, BlankOrderly

LEMMA CrashStep ==
  ASSUME Orderly, Crash
  PROVE  Orderly'
<1>1. Blank'
  BY DEF Crash, Blank
<1>2. Tables'
  BY DEF Crash, tables, Orderly, Tables
<1> QED BY <1>1, <1>2, BlankOrderly, PTL

\* The sequence row is one the next start trusts.
LEMMA TrustedSequence == Tables => HighWaterMark
<1> SUFFICES ASSUME Tables PROVE HighWaterMark
  OBVIOUS
<1>1. sequence \in Ids /\ \A g \in DOMAIN rows : g < sequence
  BY DEF Tables
<1>2. sequence # 0
  BY <1>1, IdRange
<1> QED BY <1>1, <1>2 DEF HighWaterMark

LEMMA InitializeStep ==
  ASSUME Orderly, NEW known \in AgentSets, Initialize(known)
  PROVE  Orderly'
<1> DEFINE record(g) == [profile |-> rows[g].profile, members |-> Loaded(g, known), version |-> rows[g].version]
           Shape == [profile : Profiles, members : SUBSET known, version : 0..MaxVersion]
<1>1. /\ phase = "down" /\ phase' = "init" /\ agents' = known /\ refused' = {e \in edges : Refused(e)}
      /\ valid' = TRUE /\ nextId' = sequence
      /\ groups' = [g \in DOMAIN rows |-> record(g)]
      /\ memberOf' = [a \in Agents |-> {g \in DOMAIN rows : a \in Loaded(g, known)}]
      /\ rows' = rows /\ edges' = edges /\ sequence' = sequence /\ ever' = ever
      /\ queue' = queue /\ worker' = worker /\ results' = results
      /\ pending' = pending /\ adopting' = adopting /\ calls' = calls
  <2>1. HighWaterMark
    BY TrustedSequence DEF Orderly
  <2> QED BY <2>1 DEF Initialize, tables, executor, guards
<1>2. /\ pending = {} /\ adopting = {} /\ calls = {} /\ Unfinished = {} /\ results = {}
  BY <1>1 DEF Orderly, Stopped
<1>3. known \subseteq Agents /\ \A g : Loaded(g, known) \subseteq known
  BY GroupConstants DEF Loaded
<1>4. /\ rows \in [DOMAIN rows -> Rows] /\ DOMAIN rows \subseteq ever /\ DOMAIN rows \subseteq Ids
      /\ edges \subseteq (DOMAIN rows) \X Agents /\ sequence \in Ids
  BY DEF Orderly, Tables
<1>5. \A g \in DOMAIN rows : record(g) \in Shape /\ record(g).profile = rows[g].profile
                             /\ record(g).members = Loaded(g, known)
  BY <1>3, <1>4 DEF Rows
<1> HIDE DEF record
<1>6. /\ DOMAIN groups' = DOMAIN rows /\ groups' \in [DOMAIN rows -> Shape]
      /\ \A g \in DOMAIN rows : groups'[g].profile = rows[g].profile /\ groups'[g].members = Loaded(g, known)
  <2> HIDE DEF Shape
  <2> QED BY <1>1, <1>5
<1>7. Queued' = Queued /\ Running' = Running /\ Succeeded' = {} /\ \A w : Busy(w)' <=> Busy(w)
  BY <1>1, <1>2 DEF Queued, Running, Busy, Succeeded
<1>8. Executing' /\ Unfinished' = {}
  BY <1>1, <1>2, <1>7 DEF Orderly, Executing, Unfinished
<1>9. Tables' /\ Up' /\ Stopped'
  BY <1>1 DEF Orderly, Tables, Up, Stopped
<1>10. Registry'
  <2>1. IndexAgrees'
    BY <1>1, <1>6 DEF IndexAgrees
  <2>2. memberOf' \in [Agents -> SUBSET Ids]
    BY <1>1, <1>4
  <2>3. refused' \subseteq Ids \X Agents
    BY <1>1, <1>4
  <2>4. sequence' <= nextId'
    <3>1. sequence \in Int
      BY <1>4, IdRange
    <3> QED BY <1>1, <3>1
  <2> QED BY <1>1, <1>2, <1>3, <1>4, <1>6, <2>1, <2>2, <2>3, <2>4 DEF Registry
<1>11. Created' /\ Claims' /\ Adoptions'
  BY <1>1, <1>2, <1>8 DEF Created, Claims, Adoptions
<1>12. Settled'
  BY <1>1, <1>2, <1>6, <1>7 DEF Settled
<1>13. Membership'
  <2>1. \A g \in DOMAIN rows : \A a \in Loaded(g, known) : <<g, a>> \in edges
    BY DEF Loaded
  <2>2. \A g \in DOMAIN rows : \A a \in known \ Loaded(g, known) :
          <<g, a>> \in edges => <<g, a>> \in refused'
    BY <1>1 DEF Loaded, Refused
  <2> QED BY <1>1, <1>6, <1>7, <2>1, <2>2 DEF Membership
<1>14. ProfilesAgree'
  BY <1>1, <1>6, <1>7, <1>8 DEF ProfilesAgree
<1> QED BY <1>8, <1>9, <1>10, <1>11, <1>12, <1>13, <1>14 DEF Orderly

LEMMA StutterStep ==
  ASSUME Orderly, UNCHANGED vars
  PROVE  Orderly'
<1>1. /\ rows' = rows /\ edges' = edges /\ sequence' = sequence /\ ever' = ever
      /\ queue' = queue /\ worker' = worker /\ results' = results
      /\ phase' = phase /\ agents' = agents /\ refused' = refused /\ nextId' = nextId /\ valid' = valid
      /\ groups' = groups /\ memberOf' = memberOf /\ pending' = pending /\ adopting' = adopting
      /\ calls' = calls
  BY DEF vars, tables, executor, process, registry, guards
<1>2. Queued' = Queued /\ Running' = Running /\ Succeeded' = Succeeded /\ \A w : Busy(w)' <=> Busy(w)
  BY <1>1 DEF Queued, Running, Busy, Succeeded
<1>3. Executing' /\ Unfinished' = Unfinished
  BY <1>1, <1>2 DEF Orderly, Executing, Unfinished
<1>4. CASE Up
  BY <1>1, <1>2, <1>3, <1>4, Still DEF tables, registry, guards
<1>5. CASE ~ Up
  <2>1. Tables' /\ Registry' /\ Stopped'
    BY <1>1, <1>2, <1>3 DEF Orderly, Tables, Registry, IndexAgrees, Stopped, Up
  <2>2. Created' /\ Claims' /\ Adoptions' /\ Settled'
    BY <1>1, <1>2, <1>3, <1>5 DEF Orderly, Created, Claims, Adoptions, Settled, Up
  <2>3. Succeeded = {}
    BY <1>5 DEF Orderly, Stopped, Up, Succeeded
  <2>4. DOMAIN groups = {} /\ Unfinished = {}
    BY <1>5 DEF Orderly, Stopped, Up
  <2>5. Membership' /\ ProfilesAgree'
    BY <1>1, <1>2, <1>3, <2>3, <2>4 DEF Membership, ProfilesAgree
  <2> QED BY <1>3, <2>1, <2>2, <2>5 DEF Orderly
<1> QED BY <1>4, <1>5

---------------------------------------------------------------------------
(* The invariant and what it says *)

LEMMA WorldStep ==
  ASSUME Orderly, World
  PROVE  Orderly'
<1>1. CASE \E p \in Profiles : RequestCreateGroup(p)
  BY <1>1, CreateRequested
<1>2. CASE \E g \in Ids :
             \/ \E a \in Agents : RequestJoinGroup(g, a) \/ RequestLeaveGroup(g, a)
             \/ RequestDissolveGroup(g)
             \/ \E p \in Profiles : RunGroupProfileAdoption(g, p)
             \/ SaveGroupState(g)
  <2>1. PICK g \in Ids :
             \/ \E a \in Agents : RequestJoinGroup(g, a) \/ RequestLeaveGroup(g, a)
             \/ RequestDissolveGroup(g)
             \/ \E p \in Profiles : RunGroupProfileAdoption(g, p)
             \/ SaveGroupState(g)
    BY <1>2
  <2> QED BY <2>1, JoinRequested, LeaveRequested, DissolveRequested, AdoptRequested, SaveRequested
<1>3. CASE \E result \in results : Complete(result)
  BY <1>3, CompleteStep
<1>4. CASE \E known \in AgentSets : Initialize(known)
  BY <1>4, InitializeStep
<1>5. CASE FirstUpdate
  BY <1>5, FirstUpdateStep
<1> QED BY <1>1, <1>2, <1>3, <1>4, <1>5 DEF World

LEMMA StepsKeepConnections ==
  /\ World => lost' = lost
  /\ Crash => lost' = lost
  /\ \A w \in Workers : Take(w) \/ Execute(w) \/ Commit(w) \/ Fail(w) => lost' = lost
  /\ \A w \in Workers : Reconnect(w) => lost' = lost + 1 /\ lost < MaxLost
<1>1. World => lost' = lost
  BY DEF World, RequestCreateGroup, RequestJoinGroup, RequestLeaveGroup, RequestDissolveGroup,
         RunGroupProfileAdoption, SaveGroupState, Complete, Initialize, FirstUpdate, Executor, executor
<1>2. Crash => lost' = lost
  BY DEF Crash
<1>3. \A w \in Workers : Take(w) \/ Execute(w) \/ Commit(w) \/ Fail(w) => lost' = lost
  BY DEF Take, Execute, Commit, Fail, Abort
<1>4. \A w \in Workers : Reconnect(w) => lost' = lost + 1 /\ lost < MaxLost
  BY DEF Reconnect
<1> QED BY <1>1, <1>2, <1>3, <1>4

LEMMA InvStep == Inv /\ [Next]_vars => Inv'
<1> SUFFICES ASSUME Inv, [Next]_vars PROVE Inv'
  OBVIOUS
<1>1. CASE World
  BY <1>1, WorldStep, StepsKeepConnections DEF Inv
<1>2. CASE Crash
  BY <1>2, CrashStep, StepsKeepConnections DEF Inv
<1>3. CASE Database
  <2>1. PICK w \in Workers : Take(w) \/ Execute(w) \/ Commit(w) \/ Fail(w) \/ Reconnect(w)
    BY <1>3 DEF Database
  <2>2. CASE Take(w) \/ Execute(w) \/ Commit(w) \/ Fail(w)
    <3>1. lost' = lost
      BY <2>2, StepsKeepConnections
    <3> QED BY <2>2, <3>1, TakeStep, ExecuteStep, CommitStep, FailStep DEF Inv
  <2>3. CASE Reconnect(w)
    <3>1. lost \in 0..MaxLost /\ lost' = lost + 1 /\ lost < MaxLost /\ MaxLost \in Nat
      BY <2>3, StepsKeepConnections, GroupConstants DEF Inv
    <3>2. lost' \in 0..MaxLost /\ lost' # 0
      BY <3>1
    <3> QED BY <3>2 DEF Inv
  <2> QED BY <2>1, <2>2, <2>3
<1>4. CASE UNCHANGED vars
  <2>1. lost' = lost
    BY <1>4 DEF vars, executor
  <2> QED BY <1>4, <2>1, StutterStep DEF Inv
<1> QED BY <1>1, <1>2, <1>3, <1>4 DEF Next

\* The inductive invariant: as long as no connection is lost, everything in the
\* queue, with the workers and in the results accounts for what the registry
\* does not know yet.
THEOREM GroupInv == Spec => []Inv
<1>1. Init => Inv
  <2> SUFFICES ASSUME Init PROVE Inv
    OBVIOUS
  <2>1. lost = 0 /\ lost \in 0..MaxLost
    BY GroupConstants DEF Init
  <2> QED BY <2>1, InitOrderly DEF Inv
<1> QED BY <1>1, InvStep, PTL DEF Spec

LEMMA OrderlyTypes ==
  ASSUME Inv, Orderly
  PROVE  TypeOK
<1>1. /\ Tables /\ Registry /\ Executing /\ lost \in 0..MaxLost
  BY DEF Inv, Orderly
<1>2. ever \subseteq Ids /\ DOMAIN rows \subseteq Ids /\ DOMAIN groups \subseteq Ids
  BY <1>1 DEF Tables, Registry
<1>3. \A g \in DOMAIN rows : rows[g] \in [profile : Profiles, version : 0..MaxVersion]
  BY <1>1 DEF Tables, Rows
<1>4. edges \subseteq Ids \X Agents
  BY <1>1, <1>2 DEF Tables
<1>5. \A w \in Workers : Busy(w) =>
           /\ worker[w].op \in Operations \union Saves
           /\ worker[w].todo \in Seq(StatementNames) /\ worker[w].done \subseteq StatementNames
           /\ worker[w].auto \in BOOLEAN
  BY <1>1 DEF Executing, Started, Runs
<1>6. \A g \in DOMAIN groups :
           groups[g] \in [profile : Profiles, members : SUBSET agents, version : 0..MaxVersion]
  BY <1>1 DEF Registry
<1> QED BY <1>1, <1>2, <1>3, <1>4, <1>5, <1>6 DEF TypeOK, Tables, Registry, Executing

LEMMA OrderlyRegistry ==
  ASSUME Inv, Orderly
  PROVE  RegistryFollowsTables
<1>1. TypeOK /\ IndexAgrees
  BY OrderlyTypes DEF Orderly, Registry
<1>2. ASSUME NEW g \in Ids, Quiet(g)
      PROVE  /\ g \in DOMAIN groups <=> g \in DOMAIN rows
             /\ g \in DOMAIN groups =>
                 /\ \A a \in groups[g].members : <<g, a>> \in edges
                 /\ \A a \in agents \ groups[g].members :
                        <<g, a>> \in edges => <<g, a>> \in refused
  <2>1. Up /\ g \notin pending /\ ~ Creating(g) /\ Succeeded \subseteq calls
    BY <1>2, SucceededCalls DEF Quiet, UnderWay, Orderly
  <2>2. \A op \in calls : op.group = g => op.do \notin Guarded /\ op.do # "create"
    BY <2>1 DEF Orderly, Claims, Creating
  <2>3. ~ IsCreated(g) /\ ~ IsDissolved(g) /\ \A a : ~ HasJoined(g, a) /\ ~ HasLeft(g, a)
    BY <2>1, <2>2 DEF IsCreated, IsDissolved, HasJoined, HasLeft, Guarded
  <2>4. g \in DOMAIN groups <=> g \in DOMAIN rows
    BY <2>1, <2>3 DEF Orderly, Settled
  <2>5. g \in DOMAIN groups =>
          /\ \A a \in groups[g].members : <<g, a>> \in edges
          /\ \A a \in agents \ groups[g].members : <<g, a>> \in edges => <<g, a>> \in refused
    BY <2>3 DEF Orderly, Membership
  <2> QED BY <2>4, <2>5
<1> QED BY <1>1, <1>2 DEF RegistryFollowsTables

LEMMA OrderlyProfiles ==
  ASSUME Orderly
  PROVE  ProfileKept
<1> SUFFICES ASSUME NEW g \in DOMAIN groups \cap DOMAIN rows, g \notin adopting
             PROVE  rows[g].profile = groups[g].profile
  BY DEF ProfileKept
<1>1. Succeeded \subseteq calls
  BY SucceededCalls DEF Orderly
<1>2. ~ IsAdopted(g)
  BY <1>1 DEF Orderly, Adoptions, IsAdopted
<1> QED BY <1>2 DEF Orderly, ProfilesAgree

\* When nothing is in flight on a group, the registry has it exactly when the
\* table has and knows the members the table knows, whatever the order in which
\* workers committed, world updates were polled and crashes came.
THEOREM GroupRegistry == Spec => [](lost = 0 => RegistryFollowsTables)
<1>1. Inv => (lost = 0 => RegistryFollowsTables)
  BY OrderlyRegistry DEF Inv
<1> QED BY <1>1, GroupInv, PTL

\* No save undoes an adoption: outside one in flight, row and registry name the
\* same profile.
THEOREM GroupProfiles == Spec => [](lost = 0 => ProfileKept)
<1>1. Inv => (lost = 0 => ProfileKept)
  BY OrderlyProfiles DEF Inv
<1> QED BY <1>1, GroupInv, PTL

\* Whenever the server stops, the sequence row is one the next start trusts.
THEOREM GroupAllocator == Spec => []AllocatorSurvives
<1>1. Inv => AllocatorSurvives
  BY TrustedSequence DEF Inv, Orderly, AllocatorSurvives
<1> QED BY <1>1, GroupInv, PTL

\* Only a connection lost inside a transaction leaves a membership row behind.
THEOREM GroupMembers == Spec => [](lost = 0 => NoOrphanMembership)
<1>1. Inv => (lost = 0 => NoOrphanMembership)
  BY DEF Inv, Orderly, Tables, NoOrphanMembership
<1> QED BY <1>1, GroupInv, PTL

---------------------------------------------------------------------------
(* The tables implement the store of groups *)

\* What the store sees of the tables.
Named == [g \in DOMAIN rows |-> rows[g].profile]

LEMMA StoreView ==
  /\ Store!vars = <<Named, edges, ever>>
  /\ UNCHANGED Store!vars <=> UNCHANGED <<Named, edges, ever>>
BY DEF Store!vars, Named

LEMMA StoreStill ==
  ASSUME UNCHANGED tables
  PROVE  UNCHANGED Store!vars
BY DEF tables, Store!vars

\* The steps of the store, one by one.
LEMMA StoreSteps ==
  ASSUME NEW g \in Ids
  PROVE  /\ \A p \in Profiles : Store!Create(g, p) => Store!Next
         /\ \A p \in Profiles : Store!Adopt(g, p) => Store!Next
         /\ \A a \in Agents : Store!Join(g, a) => Store!Next
         /\ \A a \in Agents : Store!Leave(g, a) => Store!Next
         /\ Store!Dissolve(g) => Store!Next
BY DEF Store!Next

\* What is written at a commit is one step of the store, or none.
LEMMA WriteImplements ==
  ASSUME Orderly, Up, NEW op \in Operations \cup Saves, NEW done, Write(op, done),
         ~ IsSave(op) => op \in calls \ Succeeded,
         \/ op.do = "create" /\ done = {"reserve", "insert group"}
         \/ op.do = "dissolve" /\ done = {"delete members", "delete group"}
         \/ op.do \in {"join", "leave", "adopt"} /\ done = {op.do}
         \/ IsSave(op) /\ done = {}
  PROVE  [Store!Next]_(Store!vars)
<1> DEFINE g == op.group
<1>4. Tables /\ g \in Ids
  BY OperationKinds DEF Orderly
<1>5. CASE op.do = "create" /\ done = {"reserve", "insert group"}
  <2>1. op \in Operations /\ op.arg \in Profiles /\ op \in calls \ Succeeded
    BY <1>5, OperationKinds DEF IsSave
  <2>2. g \notin ever
    BY <1>5, <2>1 DEF Orderly, Created
  <2>3. /\ DOMAIN rows' = DOMAIN rows \cup {g}
        /\ rows'[g] = [profile |-> op.arg, version |-> 0]
        /\ \A x \in DOMAIN rows \ {g} : rows'[x] = rows[x]
        /\ edges' = edges /\ ever' = ever \cup {g}
    BY <1>4, <1>5, <2>1, CreateWrites
  <2>4. Named' = [x \in DOMAIN Named \cup {g} |-> IF x = g THEN op.arg ELSE Named[x]]
    <3> DEFINE row == [profile |-> op.arg, version |-> 0]
    <3>5. row.profile = op.arg
      OBVIOUS
    <3>6. rows'[g] = row
      BY <2>3
    <3> HIDE DEF g, row
    <3>1. rows'[g].profile = op.arg
      BY <3>5, <3>6
    <3>2. \A x \in DOMAIN rows' : rows'[x].profile = IF x = g THEN op.arg ELSE Named[x]
      BY <2>3, <3>1 DEF Named
    <3>3. DOMAIN Named \cup {g} = DOMAIN rows'
      BY <2>3 DEF Named
    <3>4. Named' = [x \in DOMAIN rows' |-> rows'[x].profile]
      BY DEF Named
    <3> QED BY <3>2, <3>3, <3>4
  <2>5. Store!Create(g, op.arg)
    BY <2>2, <2>3, <2>4 DEF Store!Create, Named
  <2> QED BY <1>4, <2>1, <2>5, StoreSteps
<1>6. CASE op.do = "dissolve" /\ done = {"delete members", "delete group"}
  <2>1. /\ DOMAIN rows' = DOMAIN rows \ {g}
        /\ \A x \in DOMAIN rows \ {g} : rows'[x] = rows[x]
        /\ edges' = {e \in edges : e[1] # g} /\ ever' = ever
    BY <1>4, <1>6, DissolveWrites
  <2>2. Named' = [x \in DOMAIN Named \ {g} |-> Named[x]]
    BY <2>1 DEF Named
  <2>3. Store!Dissolve(g)
    BY <2>1, <2>2 DEF Store!Dissolve, Named
  <2> QED BY <1>4, <2>3, StoreSteps
<1>7. CASE (op.do \in {"join", "leave", "adopt"} /\ done = {op.do}) \/ (IsSave(op) /\ done = {})
  <2>1. done \in {{}, {"join"}, {"leave"}, {"adopt"}, {"save"}}
    BY <1>7
  <2>2. /\ done = {"join"} <=> op.do = "join"
        /\ done = {"leave"} <=> op.do = "leave"
        /\ done = {"adopt"} <=> op.do = "adopt"
        /\ done # {"save"}
        /\ op.do \in {"join", "leave", "adopt", "save"}
    BY <1>7 DEF IsSave
  <2>3. /\ DOMAIN rows' = DOMAIN rows
        /\ \A x \in DOMAIN rows \ {g} : rows'[x] = rows[x]
        /\ g \in DOMAIN rows => rows'[g] = IF op.do = "adopt" THEN [rows[g] EXCEPT !.profile = op.arg] ELSE rows[g]
        /\ edges' = IF op.do = "join" THEN edges \cup {<<g, op.arg>>}
                     ELSE IF op.do = "leave" THEN edges \ {<<g, op.arg>>} ELSE edges
        /\ ever' = ever
    BY ZenonT(60), <1>4, <2>1, <2>2, UpdateWrites
  <2>4. op.do \in {"join", "leave", "adopt"} => op \in Operations /\ op \in calls \ Succeeded
    BY OperationKinds DEF IsSave
  <2>5. CASE op.do = "join"
    <3>1. op \in Operations /\ op.arg \in Agents /\ op \in calls /\ Up
      BY <2>4, <2>5, OperationKinds
    <3>2. g \in DOMAIN rows
      BY <2>5, <3>1 DEF Orderly, Settled
    <3>3. Named' = Named
      BY <2>3, <2>5 DEF Named
    <3>4. Store!Join(g, op.arg)
      BY <2>3, <2>5, <3>2, <3>3 DEF Store!Join, Named
    <3> QED BY <1>4, <3>1, <3>4, StoreSteps
  <2>6. CASE op.do = "leave"
    <3>1. op.arg \in Agents
      BY <2>4, <2>6, OperationKinds
    <3>2. Named' = Named
      BY <2>3, <2>6 DEF Named
    <3>3. Store!Leave(g, op.arg)
      BY <2>3, <2>6, <3>2 DEF Store!Leave, Named
    <3> QED BY <1>4, <3>1, <3>3, StoreSteps
  <2>7. CASE op.do = "adopt" /\ g \in DOMAIN rows
    <3>1. op.arg \in Profiles
      BY <2>4, <2>7, OperationKinds
    <3>2. rows[g] \in Rows
      BY <1>4, <2>7 DEF Tables
    <3>3. rows'[g].profile = op.arg
      BY <2>3, <2>7, <3>2 DEF Rows
    <3>4. Named' = [Named EXCEPT ![g] = op.arg]
      BY <2>3, <2>7, <3>3 DEF Named
    <3>5. Store!Adopt(g, op.arg)
      BY <2>3, <2>7, <3>4 DEF Store!Adopt, Named
    <3> QED BY <1>4, <3>1, <3>5, StoreSteps
  <2>8. CASE op.do = "save" \/ (op.do = "adopt" /\ g \notin DOMAIN rows)
    <3>1. \A x \in DOMAIN rows : rows'[x] = rows[x]
      BY <2>3, <2>8
    <3>2. Named' = Named /\ edges' = edges /\ ever' = ever
      BY <2>3, <2>8, <3>1 DEF Named
    <3> QED BY <3>2, StoreView
  <2> QED BY <2>2, <2>5, <2>6, <2>7, <2>8
<1> QED BY <1>5, <1>6, <1>7

LEMMA CommitImplements ==
  ASSUME Orderly, NEW w \in Workers, Commit(w)
  PROVE  [Store!Next]_(Store!vars)
<1> DEFINE op == worker[w].op
           done == worker[w].done
<1>1. /\ Busy(w) /\ worker[w].todo = <<>> /\ Write(op, done) /\ Finish(w, TRUE)
      /\ queue' = queue /\ calls' = calls
  BY DEF Commit
<1>2. Started(worker[w]) /\ (~ IsSave(op) => op \in calls \ Succeeded)
  BY <1>1, FinishMoves DEF Orderly
<1>3. op \in Operations \cup Saves
      /\ \/ op.do = "create" /\ done = {"reserve", "insert group"}
         \/ op.do = "dissolve" /\ done = {"delete members", "delete group"}
         \/ op.do \in {"join", "leave", "adopt"} /\ done = {op.do}
         \/ IsSave(op) /\ done = {}
  BY <1>1, <1>2, InOnePiece
<1> HIDE DEF op, done
<1> QED BY <1>1, <1>2, <1>3, BusyUp, WriteImplements

\* A save outside a transaction changes nothing the store sees.
LEMMA ExecuteImplements ==
  ASSUME Orderly, NEW w \in Workers, Execute(w)
  PROVE  UNCHANGED Store!vars
<1> DEFINE op == worker[w].op
           done == {"save"}
<1>1. \/ UNCHANGED tables
      \/ op \in Saves \cap Unfinished /\ Write(op, done)
  BY ExecuteMoves DEF Orderly
<1> HIDE DEF op
<1>2. CASE UNCHANGED tables
  BY <1>2, StoreStill
<1>3. CASE op \in Saves \cap Unfinished /\ Write(op, done)
  <2>1. done \in {{}, {"join"}, {"leave"}, {"adopt"}, {"save"}} /\ op \in Operations \cup Saves
    BY <1>3
  <2>2. done # {"join"} /\ done # {"leave"} /\ done # {"adopt"} /\ done = {"save"}
    OBVIOUS
  <2> HIDE DEF done
  <2>3. /\ DOMAIN rows' = DOMAIN rows
        /\ \A x \in DOMAIN rows \ {op.group} : rows'[x] = rows[x]
        /\ op.group \in DOMAIN rows => rows'[op.group] \in {op.arg, rows[op.group]}
        /\ edges' = edges /\ ever' = ever
    BY <1>3, <2>1, <2>2, UpdateWrites DEF Orderly
  <2>4. op.group \in DOMAIN rows => op.arg.profile = rows[op.group].profile
    BY <1>3, SaveKeepsProfile
  <2>5. \A x \in DOMAIN rows : rows'[x].profile = rows[x].profile
    BY <2>3, <2>4
  <2>6. Named' = Named
    BY <2>3, <2>5 DEF Named
  <2> QED BY <2>3, <2>6, StoreView
<1> QED BY <1>1, <1>2, <1>3

LEMMA StepImplements ==
  ASSUME Inv, Orderly, [Next]_vars, lost' = lost
  PROVE  [Store!Next]_(Store!vars)
<1>1. CASE World
  <2>1. UNCHANGED tables
    BY <1>1 DEF World, RequestCreateGroup, RequestJoinGroup, RequestLeaveGroup, RequestDissolveGroup,
         RunGroupProfileAdoption, SaveGroupState, Complete, Initialize, FirstUpdate
  <2> QED BY <2>1, StoreStill
<1>2. CASE Crash
  BY <1>2, StoreStill DEF Crash
<1>3. CASE Database
  <2>1. PICK w \in Workers : Take(w) \/ Execute(w) \/ Commit(w) \/ Fail(w) \/ Reconnect(w)
    BY <1>3 DEF Database
  <2>2. CASE Take(w) \/ Fail(w)
    <3>1. UNCHANGED tables
      BY <2>2 DEF Take, Fail, Abort
    <3> QED BY <3>1, StoreStill
  <2>3. CASE Execute(w)
    BY <2>3, ExecuteImplements
  <2>4. CASE Commit(w)
    BY <2>4, CommitImplements
  <2>5. CASE Reconnect(w)
    BY <2>5 DEF Reconnect, Inv
  <2> QED BY <2>1, <2>2, <2>3, <2>4, <2>5
<1>4. CASE UNCHANGED vars
  BY <1>4, StoreStill DEF vars
<1> QED BY <1>1, <1>2, <1>3, <1>4 DEF Next

\* Without lost connections the workers, whatever the order of their commits,
\* their failures and the crashes between them, implement the abstract store.
THEOREM GroupImplements == Spec /\ [](lost = 0) => ImplementsStore
<1>1. Inv /\ lost = 0 /\ (lost = 0)' /\ [Next]_vars => [Store!Next]_(Store!vars)
  BY StepImplements DEF Inv
<1>2. Init => Store!Init
  <2> SUFFICES ASSUME Init PROVE Store!Init
    OBVIOUS
  <2>1. Tables /\ ever = {1} /\ DOMAIN rows = {1}
    BY InitOrderly DEF Orderly, Init
  <2>2. Named \in [{1} -> Profiles]
    BY <2>1 DEF Named, Tables, Rows
  <2>3. {1} \in SUBSET Ids
    BY <2>1 DEF Tables
  <2>4. Named \in UNION {[S -> Profiles] : S \in SUBSET Ids}
    BY <2>2, <2>3
  <2>5. DOMAIN Named = DOMAIN rows /\ edges \subseteq (DOMAIN rows) \X Agents
    BY <2>1 DEF Named, Tables
  <2> QED BY <2>1, <2>4, <2>5 DEF Store!Init, Named
<1> QED BY <1>1, <1>2, GroupInv, PTL DEF Spec, ImplementsStore, Store!Spec

=============================================================================
