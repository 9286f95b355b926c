------------------------ MODULE NeuralRunner_proofs -------------------------
(***************************************************************************)
(* Proofs about NeuralRunner for every set of runners and every length of  *)
(* the list, any number of restarts and any number of faults.              *)
(***************************************************************************)
EXTENDS NeuralRunner, SequenceTheorems, TLAPS

USE RunnerAssumption DEF Nobody

-----------------------------------------------------------------------------
(* The invariant: what may be in the pipes of a runner, at each point of    *)
(* its complete()                                                           *)

WorkerNames == {"pc", "item", "restarts", "accepted", "then"}
ChildNames == {"alive", "stdin", "stdout", "session", "on"}
ResultNames == {"outcome", "accepted", "of", "seen"}

Line(type, call) == [type |-> type, call |-> call]

Empty(c) == c.stdin = <<>> /\ c.stdout = <<>> /\ c.on = Nobody
Quiet(c) == Empty(c) /\ c.session = {}

\* The prompt is lost, is on its way, is worked on, is answered, is refused.
Lost(c, b) == Quiet(c) /\ ~c.alive /\ b = 0
Sent(i, c, b) ==
  c.stdin = <<Line("prompt", i)>> /\ c.stdout = <<>> /\ c.on = Nobody /\ c.session = {} /\ b = 0
Working(i, c, b) ==
  c.stdin = <<>> /\ c.stdout \in {<<>>, <<Event("accept", i, {})>>} /\ c.on = i
  /\ c.session = {i} /\ b = 1
Answered(i, c, b) ==
  c.stdin = <<>> /\ c.stdout \in {<<Event("end", i, {i})>>,
                                  <<Event("accept", i, {}), Event("end", i, {i})>>}
  /\ c.on = Nobody /\ c.session = {i} /\ b = 1
Refused(i, c, b) ==
  c.stdin = <<>> /\ c.stdout = <<Event("refuse", i, {})>> /\ c.on = Nobody /\ c.session = {}
  /\ b = 0

InTurn(w, c, b) ==
  /\ Lost(c, b) \/ Sent(w.item, c, b) \/ Working(w.item, c, b) \/ Answered(w.item, c, b)
     \/ Refused(w.item, c, b)
  /\ w.accepted \in {"yes", "null"} /\ (w.accepted = "yes" => b = 1)

InFresh(c) ==
  /\ c.on = Nobody
  /\ \/ c.stdin = <<>> /\ c.stdout = <<>> /\ ~c.alive
     \/ c.stdin = <<Line("new_session", Nobody)>> /\ c.stdout = <<>>
     \/ c.stdin = <<>> /\ c.stdout = <<Event("fresh", Nobody, {})>> /\ c.session = {}
     \/ c.stdin = <<>> /\ c.stdout = <<Event("stale", Nobody, {})>>

\* A process that is given up may still take up what it has not read.
Unread(i, c) ==
  c.stdin \in {<<Line("prompt", i)>>, <<Line("prompt", i), Line("abort", i)>>}
InClosing(i, c, b, x) ==
  \/ c.stdin \in {<<>>, <<Line("abort", i)>>, <<Line("new_session", Nobody)>>}
  \/ Unread(i, c) /\ b = 0 /\ x.outcome # "none" /\ x.accepted = "null"

ResultOK(i, b, x) ==
  /\ DOMAIN x = ResultNames /\ b \in {0, 1}
  /\ x.outcome = "ok" => x.of = i /\ x.seen = {i}
  /\ x.outcome = "none" \/ ((x.accepted = "yes" => b = 1) /\ (x.accepted = "no" => b = 0))

Stage(w, c, b, x) ==
  \/ w.pc \in {"idle", "done", "return"} /\ Quiet(c) /\ x.outcome # "none"
  \/ w.pc \in {"warm", "send"} /\ Quiet(c) /\ x.outcome = "none" /\ b = 0
  \/ w.pc = "turn" /\ InTurn(w, c, b) /\ x.outcome = "none"
  \/ w.pc = "reset" /\ Empty(c) /\ x.outcome # "none"
  \/ w.pc = "fresh" /\ InFresh(c) /\ x.outcome # "none"
  \/ /\ w.pc = "close" /\ InClosing(w.item, c, b, x)
     /\ x.outcome = "none" => b = 0 /\ w.then = "respawn"
  \/ w.pc = "respawn" /\ c = NoChild /\ (x.outcome = "none" => b = 0)

RunnerOK(w, c, k, b, x) ==
  /\ DOMAIN w = WorkerNames /\ DOMAIN c = ChildNames /\ w.then \in {"return", "respawn"}
  /\ k # "up" => c = NoChild
  /\ IF w.item = Nobody THEN w.pc \in {"idle", "done"} /\ Quiet(c)
     ELSE w.item \in Calls /\ ResultOK(w.item, b, x) /\ Stage(w, c, b, x)

\* An item is with one runner, and is untouched before it is taken.
Apart == \A r, s \in Runners : r # s /\ Item(r) # Nobody => Item(r) # Item(s)
Ahead ==
  /\ next \in Nat /\ \A r \in Runners : Item(r) < next
  /\ \A i \in Calls : i >= next => bought[i] = 0 /\ result[i] = Unanswered
Shapes ==
  /\ worker = [r \in Runners |-> worker[r]] /\ child = [r \in Runners |-> child[r]]
  /\ conn = [r \in Runners |-> conn[r]]
  /\ bought = [i \in Calls |-> bought[i]] /\ result = [i \in Calls |-> result[i]]

Settled == \A i \in Calls : ResultOK(i, bought[i], result[i])

Inv ==
  /\ Shapes /\ Apart /\ Ahead /\ Settled
  /\ \A r \in Runners :
       RunnerOK(worker[r], child[r], conn[r], bought[Item(r)], result[Item(r)])

-----------------------------------------------------------------------------
(* Lemmas *)

LEMMA AppendToOne ==
  ASSUME NEW x, NEW y
  PROVE  Append(<<x>>, y) = <<x, y>>
<1> DEFINE S == {x, y}
           s == Append(<<x>>, y)
           t == <<x, y>>
<1>1. <<x>> \in Seq(S) /\ t \in Seq(S) /\ Len(<<x>>) = 1 /\ Len(t) = 2
  OBVIOUS
<1>2. s \in Seq(S) /\ Len(s) = 2 /\ s[1] = x /\ s[2] = y
  BY <1>1
<1>3. t[1] = x /\ t[2] = y
  OBVIOUS
<1>4. Len(s) = Len(t) /\ \A i \in 1..Len(s) : s[i] = t[i]
  <2> HIDE DEF s, t
  <2> QED
    BY <1>1, <1>2, <1>3
<1>5. s \in Seq(S) /\ t \in Seq(S)
  BY <1>1, <1>2
<1> HIDE DEF s, t, S
<1>6. s = t
  BY <1>4, <1>5, SeqEqual
<1> QED
  BY <1>6 DEF s, t

\* The short sequences that the pipes hold.
LEMMA Ends ==
  ASSUME NEW x, NEW y
  PROVE  /\ Head(<<x>>) = x /\ Tail(<<x>>) = <<>> /\ <<x>> # <<>>
         /\ Head(<<x, y>>) = x /\ Tail(<<x, y>>) = <<y>> /\ <<x, y>> # <<>>
         /\ Append(<<>>, x) = <<x>> /\ Append(<<x>>, y) = <<x, y>>
<1>1. Append(<<x>>, y) = <<x, y>>
  BY AppendToOne
<1>2. Append(<<>>, x) = <<x>>
  OBVIOUS
<1> QED
  BY <1>1, <1>2

\* What a step of a runner does to its own item, its worker and its link is
\* all there is to check.
LEMMA OneRunner ==
  ASSUME Inv, NEW r \in Runners, NEW w, NEW c, NEW k, NEW b, NEW x,
         worker' = [worker EXCEPT ![r] = w], child' = [child EXCEPT ![r] = c],
         conn' = [conn EXCEPT ![r] = k], w.item = Item(r), Item(r) # Nobody,
         bought' = [bought EXCEPT ![Item(r)] = b], result' = [result EXCEPT ![Item(r)] = x],
         next' = next, RunnerOK(w, c, k, b, x)
  PROVE  Inv'
<1>1. /\ worker'[r] = w /\ child'[r] = c /\ conn'[r] = k
      /\ \A s \in Runners \ {r} : worker'[s] = worker[s] /\ child'[s] = child[s] /\ conn'[s] = conn[s]
      /\ worker' = [s \in Runners |-> worker'[s]] /\ child' = [s \in Runners |-> child'[s]]
      /\ conn' = [s \in Runners |-> conn'[s]]
  BY DEF Inv, Shapes
<1>2. Item(r) \in Calls
  BY DEF Inv, RunnerOK, Item
<1>3. /\ bought'[Item(r)] = b /\ result'[Item(r)] = x
      /\ \A i \in Calls \ {Item(r)} : bought'[i] = bought[i] /\ result'[i] = result[i]
      /\ bought' = [i \in Calls |-> bought'[i]] /\ result' = [i \in Calls |-> result'[i]]
  BY <1>2 DEF Inv, Shapes
<1>4. \A s \in Runners : Item(s)' = Item(s)
  BY <1>1 DEF Item
<1>5. Shapes' /\ Apart'
  BY <1>1, <1>3, <1>4 DEF Inv, Shapes, Apart
<1>6. Ahead'
  <2>1. Item(r) < next /\ next \in Nat
    BY DEF Inv, Ahead
  <2> QED
    BY <1>2, <1>3, <1>4, <2>1 DEF Inv, Ahead, Calls
<1>7. Settled'
  <2>1. ResultOK(Item(r), b, x)
    BY DEF RunnerOK
  <2> QED
    BY <1>3, <2>1 DEF Inv, Settled
<1>8. ASSUME NEW s \in Runners
      PROVE  RunnerOK(worker'[s], child'[s], conn'[s], bought'[Item(s)'], result'[Item(s)'])
  <2>1. CASE s = r
    BY <1>1, <1>3, <1>4, <2>1
  <2>2. CASE s # r /\ Item(s) \in Calls
    BY <1>1, <1>3, <1>4, <2>2 DEF Inv, Apart
  <2>3. CASE s # r /\ Item(s) \notin Calls
    BY <1>1, <1>4, <2>3 DEF Inv, RunnerOK, Item
  <2> QED
    BY <2>1, <2>2, <2>3
<1> QED
  BY <1>5, <1>6, <1>7, <1>8 DEF Inv

\* A runner that is in complete() has an item, and is where its stage says.
LEMMA Busy ==
  ASSUME Inv, NEW r \in Runners, worker[r].pc \notin {"idle", "done"}
  PROVE  /\ Item(r) \in Calls /\ Item(r) # Nobody
         /\ RunnerOK(worker[r], child[r], conn[r], bought[Item(r)], result[Item(r)])
         /\ ResultOK(Item(r), bought[Item(r)], result[Item(r)])
         /\ Stage(worker[r], child[r], bought[Item(r)], result[Item(r)])
BY DEF Inv, RunnerOK, Item

\* What a step leaves alone, in the form of OneRunner.
LEMMA Same ==
  ASSUME Inv, NEW r \in Runners
  PROVE  /\ worker = [worker EXCEPT ![r] = worker[r]] /\ child = [child EXCEPT ![r] = child[r]]
         /\ conn = [conn EXCEPT ![r] = conn[r]]
         /\ bought = [bought EXCEPT ![Item(r)] = bought[Item(r)]]
         /\ result = [result EXCEPT ![Item(r)] = result[Item(r)]]
BY DEF Inv, Shapes

\* A change of place in complete().
LEMMA Moved ==
  ASSUME NEW w, DOMAIN w = WorkerNames, NEW pc, NEW then, NEW n, NEW a
  PROVE  /\ LET v == [w EXCEPT !.pc = pc]
            IN  DOMAIN v = WorkerNames /\ v.pc = pc /\ v.item = w.item /\ v.then = w.then
                /\ v.accepted = w.accepted
         /\ LET v == [w EXCEPT !.pc = pc, !.then = then]
            IN  DOMAIN v = WorkerNames /\ v.pc = pc /\ v.item = w.item /\ v.then = then
         /\ LET v == [w EXCEPT !.pc = pc, !.then = then, !.restarts = n]
            IN  DOMAIN v = WorkerNames /\ v.pc = pc /\ v.item = w.item /\ v.then = then
         /\ LET v == [w EXCEPT !.restarts = n]
            IN  DOMAIN v = WorkerNames /\ v.pc = w.pc /\ v.item = w.item /\ v.then = w.then
         /\ LET v == [w EXCEPT !.accepted = a]
            IN  DOMAIN v = WorkerNames /\ v.pc = w.pc /\ v.item = w.item /\ v.then = w.then
                /\ v.accepted = a
         /\ LET v == [w EXCEPT !.pc = pc, !.accepted = a]
            IN  DOMAIN v = WorkerNames /\ v.pc = pc /\ v.item = w.item /\ v.then = w.then
                /\ v.accepted = a
BY DEF WorkerNames

\* What complete() returns.
LEMMA Returned ==
  ASSUME NEW x, DOMAIN x = ResultNames, NEW o, NEW a
  PROVE  LET y == [x EXCEPT !.outcome = o, !.accepted = a]
         IN  DOMAIN y = ResultNames /\ y.outcome = o /\ y.accepted = a
BY DEF ResultNames

\* The process of a runner, after a line in or out.
LEMMA Piped ==
  ASSUME NEW c, DOMAIN c = ChildNames, NEW q, NEW o, NEW n
  PROVE  /\ LET d == [c EXCEPT !.stdin = q]
            IN  DOMAIN d = ChildNames /\ d.stdin = q /\ d.stdout = c.stdout /\ d.on = c.on
                /\ d.session = c.session /\ d.alive = c.alive
         /\ LET d == [c EXCEPT !.stdout = o]
            IN  DOMAIN d = ChildNames /\ d.stdin = c.stdin /\ d.stdout = o /\ d.on = c.on
                /\ d.session = c.session /\ d.alive = c.alive
         /\ LET d == [c EXCEPT !.on = n]
            IN  DOMAIN d = ChildNames /\ d.stdin = c.stdin /\ d.stdout = c.stdout /\ d.on = n
                /\ d.session = c.session /\ d.alive = c.alive
         /\ LET d == [c EXCEPT !.session = o]
            IN  DOMAIN d = ChildNames /\ d.stdin = c.stdin /\ d.stdout = c.stdout /\ d.on = c.on
                /\ d.session = o /\ d.alive = c.alive
         /\ LET d == [c EXCEPT !.alive = FALSE]
            IN  DOMAIN d = ChildNames /\ d.stdin = c.stdin /\ d.stdout = c.stdout /\ d.on = c.on
                /\ d.session = c.session /\ d.alive = FALSE
BY DEF ChildNames

LEMMA Newborn ==
  /\ DOMAIN NoChild = ChildNames /\ Quiet(NoChild) /\ ~NoChild.alive
  /\ DOMAIN Fresh = ChildNames /\ Quiet(Fresh)
BY DEF NoChild, Fresh, Quiet, Empty, ChildNames

-----------------------------------------------------------------------------
(* The steps of a worker and its complete() *)

LEMMA TakeKeeps ==
  ASSUME Inv, NEW r \in Runners, Take(r)
  PROVE  Inv'
<1> DEFINE w == worker'[r]
<1>1. /\ worker[r].pc = "idle" /\ DOMAIN worker[r] = WorkerNames
      /\ UNCHANGED <<child, conn, result, bought>>
  BY DEF Take, At, link, Inv, RunnerOK
<1>2. /\ \A s \in Runners \ {r} : worker'[s] = worker[s]
      /\ worker' = [s \in Runners |-> worker'[s]]
  BY DEF Take, GoTo, Inv, Shapes
<1>3. RunnerOK(worker[r], child[r], conn[r], bought[Item(r)], result[Item(r)])
  BY DEF Inv
<1>4. CASE w = [worker[r] EXCEPT !.pc = "done"] /\ next' \in {next, next + 1}
  <2>1. DOMAIN w = WorkerNames /\ w.pc = "done" /\ w.item = Item(r) /\ w.then = worker[r].then
    BY <1>1, <1>4, Moved DEF Item
  <2>2. RunnerOK(w, child[r], conn[r], bought[w.item], result[w.item])
    BY <1>1, <1>3, <2>1 DEF RunnerOK, Stage, Item
  <2>3. \A s \in Runners : Item(s)' = Item(s)
    BY <1>2, <2>1 DEF Item
  <2>4. Shapes' /\ Apart' /\ Settled'
    BY <1>1, <1>2, <2>3 DEF Inv, Shapes, Apart, Settled
  <2>5. Ahead'
    <3>1. next \in Nat /\ next' \in Nat /\ next' >= next
      BY <1>4 DEF Inv, Ahead
    <3>2. \A s \in Runners : Item(s)' < next'
      <4>1. \A s \in Runners : Item(s) < next /\ Item(s) \in Nat
        BY DEF Inv, Ahead, RunnerOK, Item, Calls
      <4> QED
        BY <2>3, <3>1, <4>1
    <3>3. \A i \in Calls : i >= next' => bought'[i] = 0 /\ result'[i] = Unanswered
      BY <1>1, <3>1 DEF Inv, Ahead, Calls
    <3> QED
      BY <3>1, <3>2, <3>3 DEF Ahead
  <2>6. \A s \in Runners :
          RunnerOK(worker'[s], child'[s], conn'[s], bought'[Item(s)'], result'[Item(s)'])
    BY <1>1, <1>2, <2>1, <2>2, <2>3 DEF Inv
  <2> HIDE DEF w
  <2> QED
    BY <2>4, <2>5, <2>6 DEF Inv
<1>5. CASE w = [AtRest EXCEPT !.pc = "warm", !.item = next] /\ next <= Items /\ next' = next + 1
  <2>1. DOMAIN w = WorkerNames /\ w.pc = "warm" /\ w.item = next /\ w.then = "return"
    BY <1>5 DEF AtRest, WorkerNames
  <2>2. next \in Calls /\ next # Nobody /\ bought[next] = 0 /\ result[next] = Unanswered
    <3>1. next \in Nat
      BY DEF Inv, Ahead
    <3>2. Item(r) < next
      BY DEF Inv, Ahead
    <3>3. Item(r) \in Nat
      BY <1>3 DEF RunnerOK, Item, Calls
    <3>4. next \in Calls /\ next # Nobody
      BY <1>5, <3>1, <3>2, <3>3 DEF Calls
    <3> QED
      BY <3>1, <3>4 DEF Inv, Ahead
  <2>3. Quiet(child[r])
    BY <1>1, <1>3 DEF RunnerOK, Stage
  <2>4. RunnerOK(w, child[r], conn[r], bought[w.item], result[w.item])
    <3>1. ResultOK(next, bought[next], result[next])
      BY <2>2 DEF Inv, Settled
    <3>2. Stage(w, child[r], bought[next], result[next])
      BY <2>1, <2>2, <2>3 DEF Stage, Unanswered
    <3> QED
      BY <1>3, <2>1, <2>2, <3>1, <3>2 DEF RunnerOK
  <2>5. Item(r)' = next /\ \A s \in Runners \ {r} : Item(s)' = Item(s)
    BY <1>2, <2>1 DEF Item
  <2>6. Shapes' /\ Settled'
    BY <1>1, <1>2 DEF Inv, Shapes, Settled
  <2>7. Apart' /\ Ahead'
    <3>1. next \in Nat /\ (\A s \in Runners : Item(s) < next)
          /\ \A s \in Runners : Item(s) \in Nat
      BY DEF Inv, Ahead, RunnerOK, Item, Calls
    <3>2. Apart'
      BY <2>5, <3>1 DEF Inv, Apart
    <3>3. Ahead'
      BY <1>1, <1>5, <2>5, <3>1 DEF Inv, Ahead, Calls
    <3> QED
      BY <3>2, <3>3
  <2>8. \A s \in Runners :
          RunnerOK(worker'[s], child'[s], conn'[s], bought'[Item(s)'], result'[Item(s)'])
    BY <1>1, <1>2, <2>1, <2>4, <2>5 DEF Inv
  <2> HIDE DEF w
  <2> QED
    BY <2>6, <2>7, <2>8 DEF Inv
<1>6. worker = [s \in Runners |-> worker[s]] /\ next \in Nat
  BY DEF Inv, Shapes, Ahead
<1> QED
  BY <1>4, <1>5, <1>6, RunnerAssumption DEF Take, GoTo

LEMMA ReturnKeeps ==
  ASSUME Inv, NEW r \in Runners, Return(r)
  PROVE  Inv'
<1>1. PICK pc \in {"idle", "done"} : worker' = [worker EXCEPT ![r].pc = pc]
  BY DEF Return, GoTo
<1> DEFINE w == [worker[r] EXCEPT !.pc = pc]
<1>2. worker' = [worker EXCEPT ![r] = w]
  BY <1>1
<1>3. worker[r].pc = "return" /\ UNCHANGED <<child, conn, result, bought, next>>
  BY DEF Return, At, link
<1>4. /\ Item(r) # Nobody
      /\ RunnerOK(worker[r], child[r], conn[r], bought[Item(r)], result[Item(r)])
  BY <1>3, Busy
<1>5. DOMAIN w = WorkerNames /\ w.pc = pc /\ w.item = Item(r) /\ w.then = worker[r].then
  BY <1>4, Moved DEF RunnerOK, Item
<1> HIDE DEF w
<1>6. RunnerOK(w, child[r], conn[r], bought[Item(r)], result[Item(r)])
  BY <1>3, <1>4, <1>5 DEF RunnerOK, Stage, Item
<1>7. /\ child' = [child EXCEPT ![r] = child[r]] /\ conn' = [conn EXCEPT ![r] = conn[r]]
      /\ bought' = [bought EXCEPT ![Item(r)] = bought[Item(r)]]
      /\ result' = [result EXCEPT ![Item(r)] = result[Item(r)]]
  BY <1>3, Same
<1>8. next' = next
  BY <1>3
<1> QED
  BY <1>2, <1>4, <1>5, <1>6, <1>7, <1>8, OneRunner

LEMMA WarmKeeps ==
  ASSUME Inv, NEW r \in Runners, Warm(r)
  PROVE  Inv'
<1> DEFINE i == Item(r)
<1>1. worker[r].pc = "warm" /\ UNCHANGED <<bought, next>>
  BY DEF Warm, At, pool
<1>2. /\ i # Nobody /\ i \in Calls /\ DOMAIN worker[r] = WorkerNames
      /\ worker[r].then \in {"return", "respawn"} /\ worker[r].item = i
      /\ RunnerOK(worker[r], child[r], conn[r], bought[i], result[i])
      /\ ResultOK(i, bought[i], result[i])
      /\ Quiet(child[r]) /\ result[i].outcome = "none" /\ bought[i] = 0
  BY <1>1, Busy DEF RunnerOK, Stage, Item
<1>3. CASE UNCHANGED <<link, result>> /\ GoTo(r, "send")
  <2> DEFINE w == [worker[r] EXCEPT !.pc = "send"]
  <2>1. worker' = [worker EXCEPT ![r] = w]
    BY <1>3 DEF GoTo
  <2>2. DOMAIN w = WorkerNames /\ w.pc = "send" /\ w.item = i /\ w.then = worker[r].then
    BY <1>2, Moved
  <2> HIDE DEF w
  <2>3. RunnerOK(w, child[r], conn[r], bought[i], result[i])
    BY <1>2, <2>2 DEF RunnerOK, Stage
  <2>4. /\ child' = [child EXCEPT ![r] = child[r]] /\ conn' = [conn EXCEPT ![r] = conn[r]]
        /\ bought' = [bought EXCEPT ![i] = bought[i]] /\ result' = [result EXCEPT ![i] = result[i]]
    BY <1>1, <1>3, Same DEF link
  <2> QED
    BY <1>1, <1>2, <2>1, <2>2, <2>3, <2>4, OneRunner
<1>4. CASE Spawned(r) /\ GoTo(r, "send") /\ UNCHANGED result
  <2> DEFINE w == [worker[r] EXCEPT !.pc = "send"]
  <2>1. /\ worker' = [worker EXCEPT ![r] = w] /\ conn' = [conn EXCEPT ![r] = "up"]
        /\ child' = [child EXCEPT ![r] = Fresh]
    BY <1>4 DEF GoTo, Spawned
  <2>2. DOMAIN w = WorkerNames /\ w.pc = "send" /\ w.item = i /\ w.then = worker[r].then
    BY <1>2, Moved
  <2> HIDE DEF w
  <2>3. RunnerOK(w, Fresh, "up", bought[i], result[i])
    BY <1>2, <2>2, Newborn DEF RunnerOK, Stage
  <2>4. bought' = [bought EXCEPT ![i] = bought[i]] /\ result' = [result EXCEPT ![i] = result[i]]
    BY <1>1, <1>4, Same
  <2> QED
    BY <1>1, <1>2, <2>1, <2>2, <2>3, <2>4, OneRunner
<1>5. CASE UNCHANGED <<link, result>> /\ worker' = [worker EXCEPT ![r].restarts = @ + 1]
  <2> DEFINE w == [worker[r] EXCEPT !.restarts = worker[r].restarts + 1]
  <2>1. worker' = [worker EXCEPT ![r] = w]
    BY <1>5
  <2>2. DOMAIN w = WorkerNames /\ w.pc = "warm" /\ w.item = i /\ w.then = worker[r].then
    BY <1>1, <1>2, Moved
  <2> HIDE DEF w
  <2>3. RunnerOK(w, child[r], conn[r], bought[i], result[i])
    BY <1>2, <2>2 DEF RunnerOK, Stage
  <2>4. /\ child' = [child EXCEPT ![r] = child[r]] /\ conn' = [conn EXCEPT ![r] = conn[r]]
        /\ bought' = [bought EXCEPT ![i] = bought[i]] /\ result' = [result EXCEPT ![i] = result[i]]
    BY <1>1, <1>5, Same DEF link
  <2> QED
    BY <1>1, <1>2, <2>1, <2>2, <2>3, <2>4, OneRunner
<1>6. CASE UNCHANGED link /\ GoTo(r, "return") /\ Returns(r, "timeout:process_unavailable", "no")
  <2> DEFINE w == [worker[r] EXCEPT !.pc = "return"]
             x == [result[i] EXCEPT !.outcome = "timeout:process_unavailable", !.accepted = "no"]
  <2>1. worker' = [worker EXCEPT ![r] = w] /\ result' = [result EXCEPT ![i] = x]
    BY <1>6 DEF GoTo, Returns
  <2>2. DOMAIN w = WorkerNames /\ w.pc = "return" /\ w.item = i /\ w.then = worker[r].then
    BY <1>2, Moved
  <2>3. DOMAIN x = ResultNames /\ x.outcome = "timeout:process_unavailable" /\ x.accepted = "no"
    BY <1>2, Returned DEF ResultOK
  <2> HIDE DEF w, x
  <2>4. RunnerOK(w, child[r], conn[r], bought[i], x)
    BY <1>2, <2>2, <2>3 DEF RunnerOK, Stage, ResultOK
  <2> QED
    BY <1>1, <1>2, <1>6, <2>1, <2>2, <2>4, Same, OneRunner DEF link
<1> QED
  BY <1>3, <1>4, <1>5, <1>6 DEF Warm, SpawnFails

\* A step that takes up no prompt, of a runner in complete() ...
LEMMA InComplete ==
  ASSUME Inv, NEW r \in Runners, worker[r].pc \notin {"idle", "done"},
         NEW w, NEW c, NEW k, NEW x,
         worker' = [worker EXCEPT ![r] = w], child' = [child EXCEPT ![r] = c],
         conn' = [conn EXCEPT ![r] = k], result' = [result EXCEPT ![Item(r)] = x],
         bought' = bought, next' = next, w.item = Item(r),
         RunnerOK(w, c, k, bought[Item(r)], x)
  PROVE  Inv'
<1>1. bought' = [bought EXCEPT ![Item(r)] = bought[Item(r)]]
  BY Same
<1>2. Item(r) # Nobody
  BY Busy
<1> QED
  BY <1>1, <1>2, OneRunner

\* ... and one of its process or connection alone, of any runner.
LEMMA LinkOnly ==
  ASSUME Inv, NEW r \in Runners, NEW c, NEW k,
         child' = [child EXCEPT ![r] = c], conn' = [conn EXCEPT ![r] = k],
         worker' = worker, result' = result, bought' = bought, next' = next,
         RunnerOK(worker[r], c, k, bought[Item(r)], result[Item(r)])
  PROVE  Inv'
<1>1. /\ child'[r] = c /\ conn'[r] = k
      /\ \A s \in Runners \ {r} : child'[s] = child[s] /\ conn'[s] = conn[s]
      /\ child' = [s \in Runners |-> child'[s]] /\ conn' = [s \in Runners |-> conn'[s]]
  BY DEF Inv, Shapes
<1>2. \A s \in Runners : Item(s)' = Item(s)
  BY DEF Item
<1>3. Shapes' /\ Apart' /\ Ahead' /\ Settled'
  BY <1>1, <1>2 DEF Inv, Shapes, Apart, Ahead, Settled
<1>4. ASSUME NEW s \in Runners
      PROVE  RunnerOK(worker'[s], child'[s], conn'[s], bought'[Item(s)'], result'[Item(s)'])
  BY <1>1, <1>2 DEF Inv
<1> QED
  BY <1>3, <1>4 DEF Inv

\* The turn of a process that is not there any more was rejected.
LEMMA FailedKeeps ==
  ASSUME Inv, NEW r \in Runners, worker[r].pc \notin {"idle", "done"},
         result[Item(r)].outcome = "none", NEW a, Failed(r, a),
         a = "yes" => bought[Item(r)] = 1, a = "no" => bought[Item(r)] = 0,
         NEW k, child' = [child EXCEPT ![r] = NoChild], conn' = [conn EXCEPT ![r] = k],
         bought' = bought, next' = next
  PROVE  Inv'
<1> DEFINE i == Item(r)
<1>1. /\ DOMAIN worker[r] = WorkerNames /\ worker[r].item = i
      /\ RunnerOK(worker[r], child[r], conn[r], bought[i], result[i])
      /\ ResultOK(i, bought[i], result[i]) /\ i \in Calls /\ i # Nobody
  BY Busy DEF RunnerOK, Item
<1>2. CASE a = "no" /\ MayRestart(r)
  <2> DEFINE w == [worker[r] EXCEPT !.pc = "close", !.then = "respawn",
                                    !.restarts = worker[r].restarts + 1]
  <2>1. worker' = [worker EXCEPT ![r] = w]
    BY <1>2 DEF Failed
  <2>2. result' = [result EXCEPT ![i] = result[i]]
    BY <1>2, Same DEF Failed
  <2>3. DOMAIN w = WorkerNames /\ w.pc = "close" /\ w.item = i /\ w.then = "respawn"
    BY <1>1, Moved
  <2> HIDE DEF w
  <2>4. RunnerOK(w, NoChild, k, bought[i], result[i])
    BY <1>1, <1>2, <2>3, Newborn DEF RunnerOK, Stage, InClosing, Quiet, Empty
  <2> QED
    BY <1>1, <2>1, <2>2, <2>3, <2>4, InComplete
<1>3. CASE ~(a = "no" /\ MayRestart(r))
  <2> DEFINE w == [worker[r] EXCEPT !.pc = "close", !.then = "return"]
             x == [result[i] EXCEPT !.outcome = "timeout:process_crash", !.accepted = a]
  <2>1. worker' = [worker EXCEPT ![r] = w] /\ result' = [result EXCEPT ![i] = x]
    BY <1>3 DEF Failed, Teardown, Returns
  <2>2. DOMAIN w = WorkerNames /\ w.pc = "close" /\ w.item = i /\ w.then = "return"
    BY <1>1, Moved
  <2>3. DOMAIN x = ResultNames /\ x.outcome = "timeout:process_crash" /\ x.accepted = a
    BY <1>1, Returned DEF ResultOK
  <2> HIDE DEF w, x
  <2>4. RunnerOK(w, NoChild, k, bought[i], x)
    BY <1>1, <2>2, <2>3, Newborn DEF RunnerOK, Stage, InClosing, Quiet, Empty, ResultOK
  <2> QED
    BY <2>1, <2>2, <2>4, InComplete
<1> QED
  BY <1>2, <1>3

\* What a line to a process makes of it.
LEMMA PutOne ==
  ASSUME NEW c, DOMAIN c = ChildNames, NEW line
  PROVE  LET d == Put(c, line)
         IN  /\ DOMAIN d = ChildNames /\ d.stdout = c.stdout /\ d.on = c.on
             /\ d.session = c.session /\ d.alive = c.alive
             /\ d.stdin = IF c.alive THEN Append(c.stdin, line) ELSE c.stdin
<1>1. CASE c.alive
  <2> DEFINE q == Append(c.stdin, line)
  <2>1. Put(c, line) = [c EXCEPT !.stdin = q]
    BY <1>1 DEF Put
  <2> HIDE DEF q
  <2>2. LET d == [c EXCEPT !.stdin = q]
        IN  DOMAIN d = ChildNames /\ d.stdin = q /\ d.stdout = c.stdout /\ d.on = c.on
            /\ d.session = c.session /\ d.alive = c.alive
    BY Piped
  <2> QED
    BY <1>1, <2>1, <2>2 DEF q
<1>2. CASE ~c.alive
  BY <1>2 DEF Put
<1> QED
  BY <1>1, <1>2

LEMMA SendKeeps ==
  ASSUME Inv, NEW r \in Runners, Send(r)
  PROVE  Inv'
<1> DEFINE i == Item(r)
<1>1. worker[r].pc = "send" /\ bought' = bought /\ next' = next /\ conn' = conn
  BY DEF Send, At, pool
<1>2. /\ DOMAIN worker[r] = WorkerNames /\ DOMAIN child[r] = ChildNames
      /\ worker[r].then \in {"return", "respawn"} /\ worker[r].item = i
      /\ RunnerOK(worker[r], child[r], conn[r], bought[i], result[i])
      /\ ResultOK(i, bought[i], result[i]) /\ i \in Calls /\ i # Nobody
      /\ Quiet(child[r]) /\ result[i].outcome = "none" /\ bought[i] = 0
  BY <1>1, Busy DEF RunnerOK, Stage, Item
<1>3. conn' = [conn EXCEPT ![r] = conn[r]]
  BY <1>1, Same
<1>4. CASE conn[r] = "down"
  <2>1. Failed(r, "no") /\ child' = child
    BY <1>4 DEF Send
  <2>2. child[r] = NoChild
    BY <1>2, <1>4 DEF RunnerOK
  <2>3. child' = [child EXCEPT ![r] = NoChild]
    BY <2>1, <2>2, Same
  <2> QED
    BY <1>1, <1>2, <1>3, <2>1, <2>3, FailedKeeps
<1>5. CASE conn[r] # "down"
  <2> DEFINE line == Line("prompt", i)
             c == Put(child[r], line)
             w == [worker[r] EXCEPT !.pc = "turn", !.accepted = "null"]
  <2>1. worker' = [worker EXCEPT ![r] = w] /\ child' = [child EXCEPT ![r] = c] /\ result' = result
    BY <1>5 DEF Send, Written, Line
  <2>2. result' = [result EXCEPT ![i] = result[i]]
    BY <2>1, Same
  <2>3. /\ DOMAIN w = WorkerNames /\ w.pc = "turn" /\ w.item = i /\ w.then = worker[r].then
        /\ w.accepted = "null"
    BY <1>2, Moved
  <2>4. /\ DOMAIN c = ChildNames /\ c.stdout = <<>> /\ c.on = Nobody /\ c.session = {}
        /\ c.alive = child[r].alive
        /\ c.stdin = IF child[r].alive THEN <<line>> ELSE <<>>
    <3>1. Quiet(child[r]) /\ Append(<<>>, line) = <<line>>
      BY <1>2, Ends
    <3>2. /\ DOMAIN c = ChildNames /\ c.stdout = child[r].stdout /\ c.on = child[r].on
          /\ c.session = child[r].session /\ c.alive = child[r].alive
          /\ c.stdin = IF child[r].alive THEN Append(child[r].stdin, line) ELSE child[r].stdin
      <4> HIDE DEF line
      <4> QED
        BY <1>2, PutOne
    <3> HIDE DEF c, line
    <3> QED
      BY <3>1, <3>2 DEF Quiet, Empty
  <2>5. conn[r] # "up" => c = NoChild
    BY <1>2, Newborn DEF RunnerOK, Put
  <2> HIDE DEF c, w
  <2>6. Lost(c, bought[i]) \/ Sent(w.item, c, bought[i])
    BY <1>2, <2>3, <2>4 DEF Lost, Sent, Quiet, Empty
  <2>7. RunnerOK(w, c, conn[r], bought[i], result[i])
    BY <1>2, <2>3, <2>4, <2>5, <2>6 DEF RunnerOK, Stage, InTurn
  <2> QED
    <3>1. /\ worker[r].pc \notin {"idle", "done"} /\ bought' = bought /\ next' = next
          /\ w.item = Item(r)
      BY <1>1, <2>3
    <3> QED
      BY <1>3, <2>1, <2>2, <2>7, <3>1, InComplete
<1> QED
  BY <1>4, <1>5

\* A runner in its turn, and what it may hear.
LEMMA TurnFacts ==
  ASSUME Inv, NEW r \in Runners, worker[r].pc = "turn"
  PROVE  LET i == Item(r)
             w == worker[r]
             c == child[r]
             b == bought[i]
         IN  /\ DOMAIN w = WorkerNames /\ DOMAIN c = ChildNames /\ w.item = i
             /\ w.then \in {"return", "respawn"} /\ i \in Calls /\ i # Nobody
             /\ ResultOK(i, b, result[i]) /\ result[i].outcome = "none"
             /\ w.accepted \in {"yes", "null"} /\ (w.accepted = "yes" => b = 1)
             /\ conn[r] # "up" => c = NoChild
             /\ InTurn(w, c, b)
BY Busy DEF RunnerOK, Stage, Item, InTurn

LEMMA TurnLine ==
  ASSUME Inv, NEW r \in Runners, worker[r].pc = "turn", child[r].stdout # <<>>
  PROVE  LET i == Item(r)
             c == child[r]
             e == Head(c.stdout)
             rest == Tail(c.stdout)
             b == bought[i]
         IN  /\ conn[r] = "up" /\ c.stdin = <<>>
             /\ \/ /\ e = Event("accept", i, {}) /\ b = 1 /\ c.session = {i}
                   /\ \/ c.on = i /\ rest = <<>>
                      \/ c.on = Nobody /\ rest = <<Event("end", i, {i})>>
                \/ e = Event("end", i, {i}) /\ rest = <<>> /\ c.on = Nobody /\ b = 1
                \/ e = Event("refuse", i, {}) /\ rest = <<>> /\ c.on = Nobody /\ b = 0
<1> DEFINE i == Item(r)
           c == child[r]
           b == bought[i]
           ac == Event("accept", i, {})
           en == Event("end", i, {i})
           re == Event("refuse", i, {})
<1>1. InTurn(worker[r], c, b) /\ worker[r].item = i
  BY TurnFacts
<1>2. conn[r] = "up"
  BY TurnFacts, Newborn DEF Quiet, Empty
<1>3. \/ Working(i, c, b) /\ c.stdout = <<ac>>
      \/ Answered(i, c, b) /\ c.stdout \in {<<en>>, <<ac, en>>}
      \/ Refused(i, c, b) /\ c.stdout = <<re>>
  BY <1>1 DEF InTurn, Lost, Sent, Working, Answered, Refused, Quiet, Empty
<1>4. /\ Head(<<ac>>) = ac /\ Tail(<<ac>>) = <<>> /\ Head(<<en>>) = en /\ Tail(<<en>>) = <<>>
      /\ Head(<<re>>) = re /\ Tail(<<re>>) = <<>>
      /\ Head(<<ac, en>>) = ac /\ Tail(<<ac, en>>) = <<en>>
  BY Ends
<1>5. CASE Working(i, c, b) /\ c.stdout = <<ac>>
  <2> HIDE DEF ac, en, re
  <2>1. Head(c.stdout) = ac /\ Tail(c.stdout) = <<>>
    BY <1>4, <1>5
  <2> QED
    BY <1>2, <1>5, <2>1 DEF Working, ac
<1>6. CASE Answered(i, c, b) /\ c.stdout = <<en>>
  <2> HIDE DEF ac, en, re
  <2>1. Head(c.stdout) = en /\ Tail(c.stdout) = <<>>
    BY <1>4, <1>6
  <2> QED
    BY <1>2, <1>6, <2>1 DEF Answered, en
<1>7. CASE Answered(i, c, b) /\ c.stdout = <<ac, en>>
  <2> HIDE DEF ac, en, re
  <2>1. Head(c.stdout) = ac /\ Tail(c.stdout) = <<en>>
    BY <1>4, <1>7
  <2> QED
    BY <1>2, <1>7, <2>1 DEF Answered, ac, en
<1>8. CASE Refused(i, c, b) /\ c.stdout = <<re>>
  <2> HIDE DEF ac, en, re
  <2>1. Head(c.stdout) = re /\ Tail(c.stdout) = <<>>
    BY <1>4, <1>8
  <2> QED
    BY <1>2, <1>8, <2>1 DEF Refused, re
<1> QED
  BY <1>3, <1>5, <1>6, <1>7, <1>8

LEMMA HearKeeps ==
  ASSUME Inv, NEW r \in Runners, Hear(r)
  PROVE  Inv'
<1> DEFINE i == Item(r)
           e == Head(child[r].stdout)
           c == [child[r] EXCEPT !.stdout = Tail(child[r].stdout)]
<1>1. worker[r].pc = "turn" /\ child[r].stdout # <<>>
  BY DEF Hear, At
<1>2. bought' = bought /\ next' = next /\ conn' = conn /\ child' = [child EXCEPT ![r] = c]
  BY DEF Hear, pool
<1>3. conn' = [conn EXCEPT ![r] = conn[r]]
  BY <1>2, Same
<1>4. /\ DOMAIN worker[r] = WorkerNames /\ DOMAIN child[r] = ChildNames /\ worker[r].item = i
      /\ worker[r].then \in {"return", "respawn"} /\ i \in Calls /\ i # Nobody
      /\ ResultOK(i, bought[i], result[i]) /\ result[i].outcome = "none"
  BY <1>1, TurnFacts
<1>5. /\ conn[r] = "up" /\ child[r].stdin = <<>>
      /\ \/ /\ e = Event("accept", i, {}) /\ bought[i] = 1 /\ child[r].session = {i}
            /\ \/ child[r].on = i /\ Tail(child[r].stdout) = <<>>
               \/ child[r].on = Nobody /\ Tail(child[r].stdout) = <<Event("end", i, {i})>>
         \/ /\ e = Event("end", i, {i}) /\ Tail(child[r].stdout) = <<>>
            /\ child[r].on = Nobody /\ bought[i] = 1
         \/ /\ e = Event("refuse", i, {}) /\ Tail(child[r].stdout) = <<>>
            /\ child[r].on = Nobody /\ bought[i] = 0
  BY <1>1, TurnLine
<1>6. /\ DOMAIN c = ChildNames /\ c.stdin = child[r].stdin /\ c.stdout = Tail(child[r].stdout)
      /\ c.on = child[r].on /\ c.session = child[r].session
  BY <1>4, Piped
<1> HIDE DEF c
<1>7. CASE e = Event("accept", i, {})
  <2> DEFINE w == [worker[r] EXCEPT !.accepted = "yes"]
  <2>1. worker' = [worker EXCEPT ![r] = w] /\ result' = result
    BY <1>7 DEF Hear, Event
  <2>2. result' = [result EXCEPT ![i] = result[i]]
    BY <2>1, Same
  <2>3. /\ DOMAIN w = WorkerNames /\ w.pc = "turn" /\ w.item = i /\ w.then = worker[r].then
        /\ w.accepted = "yes"
    BY <1>1, <1>4, Moved
  <2> HIDE DEF w
  <2>4. bought[i] = 1 /\ (Working(i, c, bought[i]) \/ Answered(i, c, bought[i]))
    BY <1>5, <1>6, <1>7 DEF Working, Answered, Event
  <2>5. RunnerOK(w, c, conn[r], bought[i], result[i])
    BY <1>4, <1>5, <1>6, <2>3, <2>4 DEF RunnerOK, Stage, InTurn
  <2> QED
    BY <1>1, <1>2, <1>3, <2>1, <2>2, <2>3, <2>5, InComplete
<1>8. CASE e = Event("refuse", i, {})
  <2> DEFINE w == [worker[r] EXCEPT !.pc = "reset"]
             x == [result[i] EXCEPT !.outcome = "error:prompt_rejected", !.accepted = "no"]
  <2>1. worker' = [worker EXCEPT ![r] = w] /\ result' = [result EXCEPT ![i] = x]
    <3>1. e.type = "refuse" /\ e.call = i
      BY <1>8 DEF Event
    <3>2. GoTo(r, "reset") /\ Returns(r, "error:prompt_rejected", "no")
      BY <3>1 DEF Hear, AfterAnswer
    <3> QED
      BY <3>2 DEF GoTo, Returns
  <2>2. DOMAIN w = WorkerNames /\ w.pc = "reset" /\ w.item = i /\ w.then = worker[r].then
    BY <1>4, Moved
  <2>3. DOMAIN x = ResultNames /\ x.outcome = "error:prompt_rejected" /\ x.accepted = "no"
    BY <1>4, Returned DEF ResultOK
  <2> HIDE DEF w, x
  <2>4. bought[i] = 0 /\ Empty(c)
    BY <1>5, <1>6, <1>8 DEF Empty, Event
  <2>5. RunnerOK(w, c, conn[r], bought[i], x)
    BY <1>4, <1>5, <1>6, <2>2, <2>3, <2>4 DEF RunnerOK, Stage, ResultOK
  <2> QED
    BY <1>1, <1>2, <1>3, <2>1, <2>2, <2>5, InComplete
<1>9. CASE e = Event("end", i, {i})
  <2> DEFINE w == [worker[r] EXCEPT !.pc = "reset"]
             x == [outcome |-> "ok", accepted |-> "yes", of |-> i, seen |-> {i}]
  <2>1. worker' = [worker EXCEPT ![r] = w] /\ result' = [result EXCEPT ![i] = x]
    BY <1>9 DEF Hear, Event, GoTo, AfterAnswer
  <2>2. DOMAIN w = WorkerNames /\ w.pc = "reset" /\ w.item = i /\ w.then = worker[r].then
    BY <1>4, Moved
  <2>3. /\ DOMAIN x = ResultNames /\ x.outcome = "ok" /\ x.accepted = "yes" /\ x.of = i
        /\ x.seen = {i}
    BY DEF ResultNames
  <2> HIDE DEF w, x
  <2>4. bought[i] = 1 /\ Empty(c)
    BY <1>5, <1>6, <1>9 DEF Empty, Event
  <2>5. RunnerOK(w, c, conn[r], bought[i], x)
    BY <1>4, <1>5, <1>6, <2>2, <2>3, <2>4 DEF RunnerOK, Stage, ResultOK
  <2> QED
    BY <1>1, <1>2, <1>3, <2>1, <2>2, <2>5, InComplete
<1> QED
  BY <1>5, <1>7, <1>8, <1>9

\* A turn that is given up, with an abort that the process may read.
LEMMA AbandonKeeps ==
  ASSUME Inv, NEW r \in Runners, worker[r].pc = "turn", NEW o, o \notin {"none", "ok"}, NEW a,
         a = "yes" => bought[Item(r)] = 1, a \in {"yes", "null"},
         NEW c, DOMAIN c = ChildNames, conn[r] # "up" => c = NoChild,
         \/ c.stdin \in {<<>>, <<Line("abort", Item(r))>>}
         \/ Unread(Item(r), c) /\ bought[Item(r)] = 0,
         Teardown(r, "return"), Returns(r, o, a), child' = [child EXCEPT ![r] = c],
         conn' = conn, bought' = bought, next' = next
  PROVE  Inv'
<1> DEFINE i == Item(r)
           w == [worker[r] EXCEPT !.pc = "close", !.then = "return"]
           x == [result[i] EXCEPT !.outcome = o, !.accepted = a]
<1>1. /\ DOMAIN worker[r] = WorkerNames /\ worker[r].item = i /\ i \in Calls /\ i # Nobody
      /\ ResultOK(i, bought[i], result[i])
  BY TurnFacts
<1>2. worker' = [worker EXCEPT ![r] = w] /\ result' = [result EXCEPT ![i] = x]
  BY DEF Teardown, Returns
<1>3. conn' = [conn EXCEPT ![r] = conn[r]]
  BY Same
<1>4. DOMAIN w = WorkerNames /\ w.pc = "close" /\ w.item = i /\ w.then = "return"
  BY <1>1, Moved
<1>5. DOMAIN x = ResultNames /\ x.outcome = o /\ x.accepted = a
  BY <1>1, Returned DEF ResultOK
<1> HIDE DEF w, x
<1>6. InClosing(i, c, bought[i], x)
  BY <1>5 DEF InClosing
<1>7. RunnerOK(w, c, conn[r], bought[i], x)
  BY <1>1, <1>4, <1>5, <1>6 DEF RunnerOK, Stage, ResultOK
<1> QED
  BY <1>2, <1>3, <1>4, <1>7, InComplete

LEMMA OverflowKeeps ==
  ASSUME Inv, NEW r \in Runners, Overflow(r)
  PROVE  Inv'
<1> DEFINE i == Item(r)
           abort == Line("abort", i)
           d == [child[r] EXCEPT !.stdout = Tail(child[r].stdout)]
           c == Put(d, abort)
<1>1. /\ worker[r].pc = "turn" /\ child[r].stdout # <<>> /\ Head(child[r].stdout).type = "end"
      /\ Teardown(r, "return") /\ Returns(r, "output_limit", "yes")
  BY DEF Overflow, At
<1>2. bought' = bought /\ next' = next /\ conn' = conn /\ child' = [child EXCEPT ![r] = c]
  BY DEF Overflow, pool, Line
<1>3. conn[r] = "up" /\ child[r].stdin = <<>> /\ bought[i] = 1
  <2> DEFINE e == Head(child[r].stdout)
  <2>1. /\ conn[r] = "up" /\ child[r].stdin = <<>>
        /\ \/ bought[i] = 1
           \/ e = Event("refuse", i, {})
    BY <1>1, TurnLine
  <2>2. e.type = "end"
    BY <1>1
  <2> QED
    BY <2>1, <2>2 DEF Event
<1>4. DOMAIN d = ChildNames /\ d.stdin = <<>>
  BY <1>1, <1>3, TurnFacts, Piped
<1>5. DOMAIN c = ChildNames /\ c.stdin \in {<<>>, <<abort>>}
  <2> HIDE DEF d, abort
  <2>1. Append(<<>>, abort) = <<abort>>
    BY Ends
  <2>2. DOMAIN c = ChildNames /\ c.stdin = IF d.alive THEN Append(d.stdin, abort) ELSE d.stdin
    BY <1>4, PutOne
  <2> HIDE DEF c
  <2> QED
    BY <1>4, <2>1, <2>2
<1> HIDE DEF c
<1> QED
  BY <1>1, <1>2, <1>3, <1>5, AbandonKeeps

LEMMA TimeOutKeeps ==
  ASSUME Inv, NEW r \in Runners, TimeOut(r)
  PROVE  Inv'
<1> DEFINE i == Item(r)
           abort == Line("abort", i)
           prompt == Line("prompt", i)
           c == Put(child[r], abort)
<1>1. /\ worker[r].pc = "turn" /\ Teardown(r, "return")
      /\ Returns(r, "timeout", worker[r].accepted)
  BY DEF TimeOut, At
<1>2. bought' = bought /\ next' = next /\ conn' = conn /\ child' = [child EXCEPT ![r] = c]
  BY DEF TimeOut, pool, Line, Written
<1>3. /\ DOMAIN child[r] = ChildNames /\ InTurn(worker[r], child[r], bought[i])
      /\ worker[r].item = i /\ (conn[r] # "up" => child[r] = NoChild)
      /\ worker[r].accepted \in {"yes", "null"} /\ (worker[r].accepted = "yes" => bought[i] = 1)
  BY <1>1, TurnFacts
<1>4. \/ child[r].stdin = <<>>
      \/ child[r].stdin = <<prompt>> /\ bought[i] = 0
  BY <1>3 DEF InTurn, Lost, Sent, Working, Answered, Refused, Quiet, Empty
<1>5. /\ DOMAIN c = ChildNames
      /\ \/ c.stdin \in {<<>>, <<abort>>}
         \/ c.stdin \in {<<prompt>>, <<prompt, abort>>} /\ bought[i] = 0
  <2> HIDE DEF abort, prompt
  <2>1. Append(<<>>, abort) = <<abort>> /\ Append(<<prompt>>, abort) = <<prompt, abort>>
    BY Ends
  <2>2. /\ DOMAIN c = ChildNames
        /\ c.stdin = IF child[r].alive THEN Append(child[r].stdin, abort) ELSE child[r].stdin
    BY <1>3, PutOne
  <2> HIDE DEF c
  <2> QED
    BY <1>4, <2>1, <2>2
<1>6. conn[r] # "up" => c = NoChild
  BY <1>3, Newborn DEF Put
<1> HIDE DEF c
<1>7. \/ c.stdin \in {<<>>, <<abort>>}
      \/ Unread(i, c) /\ bought[i] = 0
  BY <1>5 DEF Unread
<1> QED
  BY <1>1, <1>2, <1>3, <1>5, <1>6, <1>7, AbandonKeeps

LEMMA NewSessionKeeps ==
  ASSUME Inv, NEW r \in Runners, NewSession(r)
  PROVE  Inv'
<1> DEFINE i == Item(r)
           line == Line("new_session", Nobody)
<1>1. worker[r].pc = "reset" /\ bought' = bought /\ next' = next /\ conn' = conn /\ result' = result
  BY DEF NewSession, At, pool
<1>2. /\ DOMAIN worker[r] = WorkerNames /\ DOMAIN child[r] = ChildNames
      /\ worker[r].then \in {"return", "respawn"} /\ worker[r].item = i
      /\ RunnerOK(worker[r], child[r], conn[r], bought[i], result[i])
      /\ ResultOK(i, bought[i], result[i]) /\ i \in Calls /\ i # Nobody
      /\ Empty(child[r]) /\ result[i].outcome # "none" /\ (conn[r] # "up" => child[r] = NoChild)
  BY <1>1, Busy DEF RunnerOK, Stage, Item
<1>3. conn' = [conn EXCEPT ![r] = conn[r]] /\ result' = [result EXCEPT ![i] = result[i]]
  BY <1>1, Same
<1>4. CASE conn[r] = "down"
  <2> DEFINE w == [worker[r] EXCEPT !.pc = "close", !.then = "respawn"]
  <2>1. worker' = [worker EXCEPT ![r] = w] /\ child' = child
    BY <1>4 DEF NewSession, Teardown
  <2>2. child' = [child EXCEPT ![r] = child[r]]
    BY <2>1, Same
  <2>3. DOMAIN w = WorkerNames /\ w.pc = "close" /\ w.item = i /\ w.then = "respawn"
    BY <1>2, Moved
  <2> HIDE DEF w
  <2>4. RunnerOK(w, child[r], conn[r], bought[i], result[i])
    BY <1>2, <2>3 DEF RunnerOK, Stage, InClosing, Empty
  <2>5. worker' = [worker EXCEPT ![r] = w] /\ w.item = Item(r)
    BY <2>1, <2>3
  <2>6. worker[r].pc \notin {"idle", "done"} /\ bought' = bought /\ next' = next
    BY <1>1
  <2> QED
    BY <1>3, <2>2, <2>4, <2>5, <2>6, InComplete
<1>5. CASE conn[r] # "down"
  <2> DEFINE c == Put(child[r], line)
             w == [worker[r] EXCEPT !.pc = "fresh"]
  <2>1. worker' = [worker EXCEPT ![r] = w] /\ child' = [child EXCEPT ![r] = c]
    BY <1>5 DEF NewSession, Written, Line, GoTo
  <2>2. DOMAIN w = WorkerNames /\ w.pc = "fresh" /\ w.item = i /\ w.then = worker[r].then
    BY <1>2, Moved
  <2>3. /\ DOMAIN c = ChildNames /\ c.stdout = <<>> /\ c.on = Nobody /\ c.alive = child[r].alive
        /\ c.stdin = IF child[r].alive THEN <<line>> ELSE <<>>
    <3>1. Empty(child[r]) /\ Append(<<>>, line) = <<line>>
      BY <1>2, Ends
    <3>2. /\ DOMAIN c = ChildNames /\ c.stdout = child[r].stdout /\ c.on = child[r].on
          /\ c.alive = child[r].alive
          /\ c.stdin = IF child[r].alive THEN Append(child[r].stdin, line) ELSE child[r].stdin
      <4> HIDE DEF line
      <4> QED
        BY <1>2, PutOne
    <3> HIDE DEF c, line
    <3> QED
      BY <3>1, <3>2 DEF Empty
  <2>4. conn[r] # "up" => c = NoChild
    BY <1>2, Newborn DEF Put
  <2> HIDE DEF c, w
  <2>5. InFresh(c)
    BY <2>3 DEF InFresh
  <2>6. RunnerOK(w, c, conn[r], bought[i], result[i])
    BY <1>2, <2>2, <2>3, <2>4, <2>5 DEF RunnerOK, Stage
  <2> QED
    BY <1>1, <1>3, <2>1, <2>2, <2>6, InComplete
<1> QED
  BY <1>4, <1>5

\* A runner that waits for its new session.
LEMMA FreshFacts ==
  ASSUME Inv, NEW r \in Runners, worker[r].pc = "fresh"
  PROVE  LET i == Item(r)
             w == worker[r]
             c == child[r]
         IN  /\ DOMAIN w = WorkerNames /\ DOMAIN c = ChildNames /\ w.item = i
             /\ w.then \in {"return", "respawn"} /\ i \in Calls /\ i # Nobody
             /\ ResultOK(i, bought[i], result[i]) /\ result[i].outcome # "none"
             /\ conn[r] # "up" => c = NoChild
             /\ InFresh(c)
BY Busy DEF RunnerOK, Stage, Item

LEMMA HearFreshKeeps ==
  ASSUME Inv, NEW r \in Runners, HearFresh(r)
  PROVE  Inv'
<1> DEFINE i == Item(r)
           fresh == Event("fresh", Nobody, {})
           stale == Event("stale", Nobody, {})
           c == [child[r] EXCEPT !.stdout = Tail(child[r].stdout)]
<1>1. /\ worker[r].pc = "fresh" /\ child[r].stdout # <<>> /\ bought' = bought /\ next' = next
      /\ conn' = conn /\ result' = result /\ child' = [child EXCEPT ![r] = c]
  BY DEF HearFresh, At, pool
<1>2. /\ DOMAIN worker[r] = WorkerNames /\ DOMAIN child[r] = ChildNames /\ worker[r].item = i
      /\ worker[r].then \in {"return", "respawn"} /\ i \in Calls /\ i # Nobody
      /\ ResultOK(i, bought[i], result[i]) /\ result[i].outcome # "none"
      /\ (conn[r] # "up" => child[r] = NoChild) /\ InFresh(child[r])
  BY <1>1, FreshFacts
<1>3. conn' = [conn EXCEPT ![r] = conn[r]] /\ result' = [result EXCEPT ![i] = result[i]]
  BY <1>1, Same
<1>4. conn[r] = "up"
  BY <1>1, <1>2, Newborn DEF Quiet, Empty
<1>5. /\ child[r].stdin = <<>> /\ child[r].on = Nobody
      /\ \/ child[r].stdout = <<fresh>> /\ child[r].session = {}
         \/ child[r].stdout = <<stale>>
  BY <1>1, <1>2 DEF InFresh
<1>6. /\ Head(<<fresh>>) = fresh /\ Tail(<<fresh>>) = <<>>
      /\ Head(<<stale>>) = stale /\ Tail(<<stale>>) = <<>>
  BY Ends
<1>7. /\ DOMAIN c = ChildNames /\ c.stdin = <<>> /\ c.stdout = Tail(child[r].stdout)
      /\ c.on = Nobody /\ c.session = child[r].session
  BY <1>2, <1>5, Piped
<1> HIDE DEF c
<1>8. CASE child[r].stdout = <<fresh>> /\ child[r].session = {}
  <2> DEFINE w == [worker[r] EXCEPT !.pc = "return"]
  <2>1. Head(child[r].stdout).type = "fresh" /\ c.stdout = <<>>
    BY <1>6, <1>7, <1>8 DEF Event
  <2>2. worker' = [worker EXCEPT ![r] = w]
    BY <2>1 DEF HearFresh, GoTo
  <2>3. DOMAIN w = WorkerNames /\ w.pc = "return" /\ w.item = i /\ w.then = worker[r].then
    BY <1>2, Moved
  <2> HIDE DEF w
  <2>4. RunnerOK(w, c, conn[r], bought[i], result[i])
    BY <1>2, <1>4, <1>7, <1>8, <2>1, <2>3 DEF RunnerOK, Stage, Quiet, Empty
  <2> QED
    BY <1>1, <1>3, <2>2, <2>3, <2>4, InComplete
<1>9. CASE child[r].stdout = <<stale>>
  <2> DEFINE w == [worker[r] EXCEPT !.pc = "close", !.then = "respawn"]
  <2>1. Head(child[r].stdout).type = "stale"
    BY <1>6, <1>9 DEF Event
  <2>2. worker' = [worker EXCEPT ![r] = w]
    BY <2>1 DEF HearFresh, Teardown
  <2>3. DOMAIN w = WorkerNames /\ w.pc = "close" /\ w.item = i /\ w.then = "respawn"
    BY <1>2, Moved
  <2> HIDE DEF w
  <2>4. RunnerOK(w, c, conn[r], bought[i], result[i])
    BY <1>2, <1>4, <1>7, <2>3 DEF RunnerOK, Stage, InClosing
  <2> QED
    BY <1>1, <1>3, <2>2, <2>3, <2>4, InComplete
<1> QED
  BY <1>5, <1>8, <1>9

LEMMA SessionTimeOutKeeps ==
  ASSUME Inv, NEW r \in Runners, SessionTimeOut(r)
  PROVE  Inv'
<1> DEFINE i == Item(r)
           w == [worker[r] EXCEPT !.pc = "close", !.then = "respawn"]
<1>1. /\ worker[r].pc = "fresh" /\ bought' = bought /\ next' = next
      /\ conn' = conn /\ result' = result /\ child' = child /\ worker' = [worker EXCEPT ![r] = w]
  BY DEF SessionTimeOut, At, pool, link, Teardown
<1>2. /\ DOMAIN worker[r] = WorkerNames /\ DOMAIN child[r] = ChildNames /\ worker[r].item = i
      /\ worker[r].then \in {"return", "respawn"} /\ i \in Calls /\ i # Nobody
      /\ ResultOK(i, bought[i], result[i]) /\ result[i].outcome # "none"
      /\ (conn[r] # "up" => child[r] = NoChild) /\ InFresh(child[r])
  BY <1>1, FreshFacts
<1>3. /\ conn' = [conn EXCEPT ![r] = conn[r]] /\ result' = [result EXCEPT ![i] = result[i]]
      /\ child' = [child EXCEPT ![r] = child[r]]
  BY <1>1, Same
<1>4. DOMAIN w = WorkerNames /\ w.pc = "close" /\ w.item = i /\ w.then = "respawn"
  BY <1>2, Moved
<1> HIDE DEF w
<1>5. InClosing(i, child[r], bought[i], result[i])
  BY <1>2 DEF InFresh, InClosing
<1>6. RunnerOK(w, child[r], conn[r], bought[i], result[i])
  BY <1>2, <1>4, <1>5 DEF RunnerOK, Stage
<1>7. worker' = [worker EXCEPT ![r] = w]
  BY <1>1 DEF w
<1>8. worker[r].pc \notin {"idle", "done"} /\ bought' = bought /\ next' = next
  BY <1>1
<1> QED
  BY <1>3, <1>4, <1>6, <1>7, <1>8, InComplete

LEMMA CloseKeeps ==
  ASSUME Inv, NEW r \in Runners, Close(r)
  PROVE  Inv'
<1> DEFINE i == Item(r)
           then == worker[r].then
           w == [worker[r] EXCEPT !.pc = then]
<1>1. /\ worker[r].pc = "close" /\ bought' = bought /\ next' = next /\ result' = result
      /\ conn' = [conn EXCEPT ![r] = "none"] /\ child' = [child EXCEPT ![r] = NoChild]
      /\ worker' = [worker EXCEPT ![r] = w]
  BY DEF Close, At, pool, GoTo
<1>2. /\ DOMAIN worker[r] = WorkerNames /\ worker[r].item = i /\ then \in {"return", "respawn"}
      /\ ResultOK(i, bought[i], result[i]) /\ i \in Calls /\ i # Nobody
      /\ result[i].outcome = "none" => bought[i] = 0 /\ then = "respawn"
  BY <1>1, Busy DEF RunnerOK, Stage, Item
<1>3. result' = [result EXCEPT ![i] = result[i]]
  BY <1>1, Same
<1>4. DOMAIN w = WorkerNames /\ w.pc = then /\ w.item = i /\ w.then = then
  BY <1>2, Moved
<1> HIDE DEF w
<1>5. RunnerOK(w, NoChild, "none", bought[i], result[i])
  BY <1>2, <1>4, Newborn DEF RunnerOK, Stage
<1> QED
  BY <1>1, <1>3, <1>4, <1>5, InComplete

LEMMA RespawnKeeps ==
  ASSUME Inv, NEW r \in Runners, Respawn(r)
  PROVE  Inv'
<1> DEFINE i == Item(r)
           pc == IF result[i].outcome = "none" THEN "warm" ELSE "return"
           w == [worker[r] EXCEPT !.pc = pc]
<1>1. /\ worker[r].pc = "respawn" /\ bought' = bought /\ next' = next /\ result' = result
      /\ worker' = [worker EXCEPT ![r] = w]
  BY DEF Respawn, At, pool, GoTo
<1>2. /\ DOMAIN worker[r] = WorkerNames /\ worker[r].item = i
      /\ worker[r].then \in {"return", "respawn"}
      /\ ResultOK(i, bought[i], result[i]) /\ i \in Calls /\ i # Nobody
      /\ child[r] = NoChild /\ (result[i].outcome = "none" => bought[i] = 0)
  BY <1>1, Busy DEF RunnerOK, Stage, Item
<1>3. result' = [result EXCEPT ![i] = result[i]]
  BY <1>1, Same
<1>4. DOMAIN w = WorkerNames /\ w.pc = pc /\ w.item = i /\ w.then = worker[r].then
  BY <1>2, Moved
<1> HIDE DEF w
<1>5. ASSUME NEW c \in {NoChild, Fresh}, NEW k, k # "up" => c = NoChild
      PROVE  RunnerOK(w, c, k, bought[i], result[i])
  BY <1>2, <1>4, <1>5, Newborn DEF RunnerOK, Stage
<1>6. CASE Spawned(r)
  <2>1. conn' = [conn EXCEPT ![r] = "up"] /\ child' = [child EXCEPT ![r] = Fresh]
    BY <1>6 DEF Spawned
  <2>2. RunnerOK(w, Fresh, "up", bought[i], result[i])
    BY <1>5
  <2> QED
    BY <1>1, <1>3, <1>4, <2>1, <2>2, InComplete
<1>7. CASE SpawnFails
  <2>1. conn' = [conn EXCEPT ![r] = conn[r]] /\ child' = [child EXCEPT ![r] = child[r]]
    BY <1>7, Same DEF SpawnFails, link
  <2>2. RunnerOK(w, child[r], conn[r], bought[i], result[i])
    BY <1>2, <1>5
  <2> QED
    BY <1>1, <1>3, <1>4, <2>1, <2>2, InComplete
<1> QED
  BY <1>6, <1>7 DEF Respawn

-----------------------------------------------------------------------------
(* The steps of a process *)

\* What is known of any runner.
LEMMA LinkFacts ==
  ASSUME Inv, NEW r \in Runners
  PROVE  LET i == Item(r)
             w == worker[r]
             c == child[r]
             b == bought[i]
             x == result[i]
         IN  /\ RunnerOK(w, c, conn[r], b, x) /\ w.item = i
             /\ DOMAIN w = WorkerNames /\ DOMAIN c = ChildNames
             /\ conn[r] # "up" => c = NoChild
             /\ \/ i = Nobody /\ w.pc \in {"idle", "done"} /\ Quiet(c)
                \/ i # Nobody /\ i \in Calls /\ ResultOK(i, b, x) /\ Stage(w, c, b, x)
BY DEF Inv, RunnerOK, Item

\* A step of the link alone keeps what is known of the runner if it keeps the
\* rest of what its stage asks of the process.
LEMMA LinkKeeps ==
  ASSUME Inv, NEW r \in Runners, NEW c, NEW k,
         DOMAIN c = ChildNames, k # "up" => c = NoChild,
         Quiet(child[r]) => Quiet(c), Empty(child[r]) => Empty(c),
         InTurn(worker[r], child[r], bought[Item(r)]) => InTurn(worker[r], c, bought[Item(r)])
           \/ worker[r].pc # "turn",
         InFresh(child[r]) => InFresh(c) \/ worker[r].pc # "fresh",
         InClosing(Item(r), child[r], bought[Item(r)], result[Item(r)]) =>
           InClosing(Item(r), c, bought[Item(r)], result[Item(r)]),
         child[r] = NoChild => c = NoChild
  PROVE  RunnerOK(worker[r], c, k, bought[Item(r)], result[Item(r)])
<1> DEFINE i == Item(r)
           b == bought[i]
           x == result[i]
<1>1. /\ RunnerOK(worker[r], child[r], conn[r], b, x) /\ worker[r].item = i
  BY LinkFacts
<1>2. ASSUME Stage(worker[r], child[r], b, x)
      PROVE  Stage(worker[r], c, b, x)
  BY <1>1, <1>2 DEF Stage
<1> QED
  BY <1>1, <1>2 DEF RunnerOK

LEMMA ExitEventKeeps ==
  ASSUME Inv, NEW r \in Runners, ExitEvent(r)
  PROVE  Inv'
<1> DEFINE i == Item(r)
<1>1. /\ bought' = bought /\ next' = next /\ conn' = [conn EXCEPT ![r] = "down"]
      /\ child' = [child EXCEPT ![r] = NoChild]
  BY DEF ExitEvent, pool
<1>2. CASE worker[r].pc = "turn"
  <2> DEFINE a == ClosedVerdict(worker[r].accepted)
  <2>1. Failed(r, a)
    BY <1>2 DEF ExitEvent
  <2>2. result[i].outcome = "none" /\ (a = "yes" => bought[i] = 1) /\ a # "no"
    BY <1>2, TurnFacts DEF ClosedVerdict
  <2> HIDE DEF a
  <2>3. worker[r].pc \notin {"idle", "done"}
    BY <1>2
  <2> QED
    BY <1>1, <2>1, <2>2, <2>3, FailedKeeps
<1>3. CASE worker[r].pc = "fresh"
  <2> DEFINE w == [worker[r] EXCEPT !.pc = "close", !.then = "respawn"]
  <2>1. worker' = [worker EXCEPT ![r] = w] /\ result' = result
    BY <1>3 DEF ExitEvent, Teardown
  <2>2. result' = [result EXCEPT ![i] = result[i]]
    BY <2>1, Same
  <2>3. /\ DOMAIN worker[r] = WorkerNames /\ worker[r].item = i /\ i \in Calls /\ i # Nobody
        /\ ResultOK(i, bought[i], result[i]) /\ result[i].outcome # "none"
    BY <1>3, FreshFacts
  <2>4. DOMAIN w = WorkerNames /\ w.pc = "close" /\ w.item = i /\ w.then = "respawn"
    BY <2>3, Moved
  <2> HIDE DEF w
  <2>5. RunnerOK(w, NoChild, "down", bought[i], result[i])
    BY <2>3, <2>4, Newborn DEF RunnerOK, Stage, InClosing, Quiet, Empty
  <2>6. worker[r].pc \notin {"idle", "done"} /\ w.item = Item(r)
    BY <1>3, <2>4
  <2> QED
    BY <1>1, <2>1, <2>2, <2>5, <2>6, InComplete
<1>4. CASE worker[r].pc \notin {"turn", "fresh"}
  <2>1. worker' = worker /\ result' = result
    BY <1>4 DEF ExitEvent
  <2>2. Quiet(NoChild) /\ Empty(NoChild) /\ DOMAIN NoChild = ChildNames
    BY Newborn DEF Quiet
  <2>3. RunnerOK(worker[r], NoChild, "down", bought[i], result[i])
    <3>1. InClosing(i, NoChild, bought[i], result[i])
      BY <2>2 DEF InClosing, Empty
    <3>2. worker[r].pc # "turn" /\ worker[r].pc # "fresh"
      BY <1>4
    <3> QED
      BY <2>2, <3>1, <3>2, LinkKeeps
  <2> QED
    BY <1>1, <2>1, <2>3, LinkOnly
<1> QED
  BY <1>2, <1>3, <1>4

LEMMA UnheardKeeps ==
  ASSUME Inv, NEW r \in Runners, Unheard(r)
  PROVE  Inv'
<1> DEFINE i == Item(r)
           c == [child[r] EXCEPT !.stdout = Tail(child[r].stdout)]
<1>1. /\ worker' = worker /\ result' = result /\ bought' = bought /\ next' = next
      /\ child' = [child EXCEPT ![r] = c] /\ conn' = conn
      /\ worker[r].pc \notin {"turn", "fresh"} /\ child[r].stdout # <<>>
  BY DEF Unheard, pool
<1>2. conn' = [conn EXCEPT ![r] = conn[r]]
  BY <1>1, Same
<1>3. DOMAIN c = ChildNames /\ c.stdin = child[r].stdin
  BY LinkFacts, Piped
<1>4. ~Quiet(child[r]) /\ ~Empty(child[r]) /\ child[r] # NoChild /\ conn[r] = "up"
  BY <1>1, LinkFacts, Newborn DEF Quiet, Empty
<1> HIDE DEF c
<1>5. InClosing(i, child[r], bought[i], result[i]) => InClosing(i, c, bought[i], result[i])
  BY <1>3 DEF InClosing, Unread
<1>6. worker[r].pc # "turn" /\ worker[r].pc # "fresh"
  BY <1>1
<1>7. RunnerOK(worker[r], c, conn[r], bought[i], result[i])
  BY <1>3, <1>4, <1>5, <1>6, LinkKeeps
<1>8. worker' = worker /\ result' = result /\ bought' = bought /\ next' = next
      /\ child' = [child EXCEPT ![r] = c]
  BY <1>1
<1> QED
  BY <1>2, <1>7, <1>8, LinkOnly

LEMMA AnswerKeeps ==
  ASSUME Inv, NEW r \in Runners, Answer(r)
  PROVE  Inv'
<1> DEFINE i == Item(r)
           on == child[r].on
           e == Event("end", on, child[r].session)
           o == Append(child[r].stdout, e)
           d == [child[r] EXCEPT !.on = Nobody]
           c == [d EXCEPT !.stdout = o]
<1>1. /\ worker' = worker /\ result' = result /\ bought' = bought /\ next' = next /\ conn' = conn
      /\ child[r].alive /\ on # Nobody
  BY DEF Answer, pool
<1>2. /\ DOMAIN child[r] = ChildNames /\ worker[r].item = i
      /\ (conn[r] # "up" => child[r] = NoChild)
  BY LinkFacts
<1>3. /\ DOMAIN d = ChildNames /\ d.stdin = child[r].stdin /\ d.stdout = child[r].stdout
      /\ d.on = Nobody /\ d.session = child[r].session
  BY <1>2, Piped
<1>4. child' = [child EXCEPT ![r] = c]
  BY <1>3 DEF Answer, Says
<1>5. conn' = [conn EXCEPT ![r] = conn[r]]
  BY <1>1, Same
<1> HIDE DEF d
<1>6. /\ DOMAIN c = ChildNames /\ c.stdin = child[r].stdin /\ c.stdout = o
      /\ c.on = Nobody /\ c.session = child[r].session
  BY <1>3, Piped
<1> HIDE DEF c
<1>7. ~Quiet(child[r]) /\ ~Empty(child[r]) /\ child[r] # NoChild /\ conn[r] = "up"
  BY <1>1, <1>2, Newborn DEF Quiet, Empty
<1>8. ~InFresh(child[r])
  BY <1>1 DEF InFresh
<1>9. InClosing(i, child[r], bought[i], result[i]) => InClosing(i, c, bought[i], result[i])
  BY <1>6 DEF InClosing, Unread
<1>10. ASSUME InTurn(worker[r], child[r], bought[i])
       PROVE  InTurn(worker[r], c, bought[i])
  <2>1. Working(i, child[r], bought[i])
    BY <1>1, <1>2, <1>10 DEF InTurn, Lost, Sent, Answered, Refused, Quiet, Empty
  <2>2. e = Event("end", i, {i}) /\ child[r].session = {i}
    BY <2>1 DEF Working
  <2>3. o \in {<<e>>, <<Event("accept", i, {}), e>>}
    <3> DEFINE ac == Event("accept", i, {})
    <3>1. Append(<<>>, e) = <<e>> /\ Append(<<ac>>, e) = <<ac, e>>
      BY Ends
    <3>2. child[r].stdout \in {<<>>, <<ac>>}
      BY <2>1 DEF Working
    <3> HIDE DEF ac, e
    <3> QED
      BY <3>1, <3>2 DEF ac
  <2> HIDE DEF e, o
  <2>4. Answered(i, c, bought[i])
    BY <1>6, <2>1, <2>2, <2>3 DEF Working, Answered
  <2> QED
    BY <1>2, <1>10, <2>4 DEF InTurn
<1>11. RunnerOK(worker[r], c, conn[r], bought[i], result[i])
  BY <1>6, <1>7, <1>8, <1>9, <1>10, LinkKeeps
<1>12. worker' = worker /\ result' = result /\ bought' = bought /\ next' = next
  BY <1>1
<1> QED
  BY <1>4, <1>5, <1>11, <1>12, LinkOnly

LEMMA DiesKeeps ==
  ASSUME Inv, NEW r \in Runners, Dies(r)
  PROVE  Inv'
<1> DEFINE i == Item(r)
           c == [child[r] EXCEPT !.alive = FALSE]
<1>1. /\ worker' = worker /\ result' = result /\ bought' = bought /\ next' = next
      /\ child' = [child EXCEPT ![r] = c] /\ conn' = conn /\ child[r].alive
  BY DEF Dies, pool
<1>2. conn' = [conn EXCEPT ![r] = conn[r]]
  BY <1>1, Same
<1>3. /\ DOMAIN c = ChildNames /\ c.stdin = child[r].stdin /\ c.stdout = child[r].stdout
      /\ c.on = child[r].on /\ c.session = child[r].session /\ ~c.alive
  BY LinkFacts, Piped
<1>4. child[r] # NoChild /\ conn[r] = "up"
  BY <1>1, LinkFacts, Newborn
<1> HIDE DEF c
<1>5. /\ Quiet(child[r]) => Quiet(c)
      /\ Empty(child[r]) => Empty(c)
  BY <1>3 DEF Quiet, Empty
<1>6. InTurn(worker[r], child[r], bought[i]) => InTurn(worker[r], c, bought[i])
  BY <1>1, <1>3 DEF InTurn, Lost, Sent, Working, Answered, Refused
<1>7. InFresh(child[r]) => InFresh(c)
  BY <1>3 DEF InFresh
<1>8. InClosing(i, child[r], bought[i], result[i]) => InClosing(i, c, bought[i], result[i])
  BY <1>3 DEF InClosing, Unread
<1>9. RunnerOK(worker[r], c, conn[r], bought[i], result[i])
  BY <1>3, <1>4, <1>5, <1>6, <1>7, <1>8, LinkKeeps
<1>10. worker' = worker /\ result' = result /\ bought' = bought /\ next' = next
      /\ child' = [child EXCEPT ![r] = c]
  BY <1>1
<1> QED
  BY <1>2, <1>9, <1>10, LinkOnly

\* What a process may read, and when.
LEMMA ServeLine ==
  ASSUME Inv, NEW r \in Runners, child[r].alive, child[r].stdin # <<>>
  PROVE  LET i == Item(r)
             pc == worker[r].pc
             c == child[r]
             line == Head(c.stdin)
             rest == Tail(c.stdin)
             b == bought[i]
             x == result[i]
         IN  /\ conn[r] = "up" /\ i \in Calls /\ i # Nobody
             /\ \/ /\ pc = "turn" /\ line = Line("prompt", i) /\ rest = <<>> /\ Sent(i, c, b)
                   /\ worker[r].accepted = "null"
                \/ /\ pc = "fresh" /\ line = Line("new_session", Nobody) /\ rest = <<>>
                   /\ c.stdout = <<>> /\ c.on = Nobody
                \/ /\ pc = "close" /\ rest = <<>>
                   /\ line \in {Line("abort", i), Line("new_session", Nobody)}
                \/ /\ pc = "close" /\ line = Line("prompt", i)
                   /\ rest \in {<<>>, <<Line("abort", i)>>}
                   /\ b = 0 /\ x.outcome # "none" /\ x.accepted = "null"
<1> DEFINE i == Item(r)
           c == child[r]
           b == bought[i]
           x == result[i]
           p == Line("prompt", i)
           a == Line("abort", i)
           n == Line("new_session", Nobody)
<1>1. ~Quiet(c) /\ ~Empty(c) /\ c # NoChild
  BY Newborn DEF Quiet, Empty
<1>2. /\ conn[r] = "up" /\ i \in Calls /\ i # Nobody /\ Stage(worker[r], c, b, x)
      /\ worker[r].item = i
  BY <1>1, LinkFacts
<1>3. /\ Head(<<p>>) = p /\ Tail(<<p>>) = <<>> /\ Head(<<a>>) = a /\ Tail(<<a>>) = <<>>
      /\ Head(<<n>>) = n /\ Tail(<<n>>) = <<>> /\ Head(<<p, a>>) = p /\ Tail(<<p, a>>) = <<a>>
  BY Ends
<1>4. CASE worker[r].pc = "turn"
  <2>1. InTurn(worker[r], c, b)
    BY <1>2, <1>4 DEF Stage
  <2>2. Sent(i, c, b) /\ c.stdin = <<p>> /\ worker[r].accepted = "null"
    BY <1>1, <1>2, <2>1 DEF InTurn, Lost, Sent, Working, Answered, Refused
  <2> HIDE DEF p
  <2>3. Head(c.stdin) = p /\ Tail(c.stdin) = <<>>
    BY <1>3, <2>2
  <2> QED
    BY <1>2, <1>4, <2>2, <2>3 DEF p
<1>5. CASE worker[r].pc = "fresh"
  <2>1. c.stdin = <<n>> /\ c.stdout = <<>> /\ c.on = Nobody
    BY <1>2, <1>5 DEF Stage, InFresh
  <2> HIDE DEF n
  <2>2. Head(c.stdin) = n /\ Tail(c.stdin) = <<>>
    BY <1>3, <2>1
  <2> QED
    BY <1>2, <1>5, <2>1, <2>2 DEF n
<1>6. CASE worker[r].pc = "close"
  <2>1. \/ c.stdin \in {<<a>>, <<n>>}
        \/ /\ c.stdin \in {<<p>>, <<p, a>>}
           /\ b = 0 /\ x.outcome # "none" /\ x.accepted = "null"
    BY <1>2, <1>6 DEF Stage, InClosing, Unread
  <2> HIDE DEF p, a, n
  <2>2. \/ Head(c.stdin) \in {a, n} /\ Tail(c.stdin) = <<>>
        \/ /\ Head(c.stdin) = p /\ Tail(c.stdin) \in {<<>>, <<a>>}
           /\ b = 0 /\ x.outcome # "none" /\ x.accepted = "null"
    BY <1>3, <2>1
  <2> QED
    BY <1>2, <1>6, <2>2 DEF p, a, n
<1> QED
  BY <1>1, <1>2, <1>4, <1>5, <1>6 DEF Stage

LEMMA ServeKeeps ==
  ASSUME Inv, NEW r \in Runners, Serve(r)
  PROVE  Inv'
<1> DEFINE i == Item(r)
           b == bought[i]
           x == result[i]
           line == Head(child[r].stdin)
           rest == Tail(child[r].stdin)
           d == [child[r] EXCEPT !.stdin = rest]
           done == [d EXCEPT !.on = Nobody]
<1>1. /\ worker' = worker /\ result' = result /\ next' = next /\ conn' = conn
      /\ child[r].alive /\ child[r].stdin # <<>>
  BY DEF Serve, pool
<1>2. conn' = [conn EXCEPT ![r] = conn[r]]
  BY <1>1, Same
<1>3. /\ conn[r] = "up" /\ i \in Calls /\ i # Nobody
      /\ \/ /\ worker[r].pc = "turn" /\ line = Line("prompt", i) /\ rest = <<>>
            /\ Sent(i, child[r], b) /\ worker[r].accepted = "null"
         \/ /\ worker[r].pc = "fresh" /\ line = Line("new_session", Nobody) /\ rest = <<>>
            /\ child[r].stdout = <<>> /\ child[r].on = Nobody
         \/ /\ worker[r].pc = "close" /\ rest = <<>>
            /\ line \in {Line("abort", i), Line("new_session", Nobody)}
         \/ /\ worker[r].pc = "close" /\ line = Line("prompt", i)
            /\ rest \in {<<>>, <<Line("abort", i)>>}
            /\ b = 0 /\ x.outcome # "none" /\ x.accepted = "null"
  BY <1>1, ServeLine
<1>4. /\ RunnerOK(worker[r], child[r], conn[r], b, x) /\ worker[r].item = i
      /\ DOMAIN worker[r] = WorkerNames /\ DOMAIN child[r] = ChildNames
      /\ ResultOK(i, b, x) /\ Stage(worker[r], child[r], b, x)
  BY <1>3, LinkFacts
<1>5. ~Quiet(child[r]) /\ ~Empty(child[r]) /\ child[r] # NoChild
  BY <1>1, Newborn DEF Quiet, Empty
<1>6. /\ DOMAIN d = ChildNames /\ d.stdin = rest /\ d.stdout = child[r].stdout
      /\ d.on = child[r].on /\ d.session = child[r].session
  BY <1>4, Piped
<1> HIDE DEF d
<1>7. /\ DOMAIN done = ChildNames /\ done.stdin = rest /\ done.stdout = child[r].stdout
      /\ done.on = Nobody /\ done.session = child[r].session
  BY <1>6, Piped
<1> HIDE DEF done
\* A step of the process that takes nothing up.
<1>8. ASSUME NEW c, DOMAIN c = ChildNames, c.stdin = rest,
             worker[r].pc = "turn" => InTurn(worker[r], c, b),
             worker[r].pc = "fresh" => InFresh(c),
             child' = [child EXCEPT ![r] = c], bought' = bought
      PROVE  Inv'
  <2>1. InClosing(i, c, b, x)
    BY <1>3, <1>8 DEF InClosing
  <2>2. RunnerOK(worker[r], c, conn[r], b, x)
    BY <1>3, <1>5, <1>8, <2>1, LinkKeeps
  <2>3. worker' = worker /\ result' = result /\ next' = next
    BY <1>1
  <2> QED
    BY <1>2, <1>8, <2>2, <2>3, LinkOnly
\* It takes the prompt up.
<1>9. ASSUME line.type = "prompt", child[r].on = Nobody,
             child' = [child EXCEPT ![r] =
               Says([d EXCEPT !.on = line.call, !.session = d.session \cup {line.call}],
                    Event("accept", line.call, {}))],
             bought' = [bought EXCEPT ![line.call] = bought[line.call] + 1]
      PROVE  Inv'
  <2> DEFINE session == child[r].session \cup {i}
             f == [d EXCEPT !.on = i, !.session = session]
             e == Event("accept", i, {})
             o == Append(child[r].stdout, e)
             c == [f EXCEPT !.stdout = o]
  <2>1. line = Line("prompt", i) /\ line.call = i
    BY <1>3, <1>9 DEF Line
  <2>2. /\ b = 0 /\ (worker[r].pc = "turn" \/ worker[r].pc = "close")
        /\ rest \in {<<>>, <<Line("abort", i)>>}
    BY <1>3, <1>9 DEF Line, Sent
  <2>3. bought' = [bought EXCEPT ![i] = 1]
    <3>1. bought' = [bought EXCEPT ![i] = bought[i] + 1]
      <4> HIDE DEF line
      <4> QED
        BY <1>9, <2>1
    <3>2. bought[i] + 1 = 1
      BY <2>2
    <3> QED
      BY <3>1, <3>2
  <2>4. /\ DOMAIN f = ChildNames /\ f.stdin = rest /\ f.stdout = child[r].stdout
        /\ f.on = i /\ f.session = session
    BY <1>6 DEF ChildNames
  <2>5. child' = [child EXCEPT ![r] = c]
    BY <1>6, <1>9, <2>1, <2>4 DEF Says
  <2> HIDE DEF f
  <2>6. /\ DOMAIN c = ChildNames /\ c.stdin = rest /\ c.stdout = o
        /\ c.on = i /\ c.session = session
    BY <2>4, Piped
  <2> HIDE DEF c
  <2>7. worker[r].pc = "turn" => Working(i, c, 1)
    <3> SUFFICES ASSUME worker[r].pc = "turn"
                 PROVE  Working(i, c, 1)
      OBVIOUS
    <3>1. Sent(i, child[r], b) /\ rest = <<>>
      BY <1>3
    <3>2. session = {i}
      BY <3>1 DEF Sent
    <3>3. o = <<e>>
      BY <3>1, Ends DEF Sent
    <3> HIDE DEF session, o
    <3> QED
      BY <2>6, <3>1, <3>2, <3>3 DEF Working
  <2>8. worker[r].pc = "close" => x.outcome # "none" /\ x.accepted = "null"
    BY <1>3, <2>1 DEF Line
  <2>9. worker[r].pc = "turn" => x.outcome = "none" /\ worker[r].accepted = "null"
    BY <1>3, <1>4 DEF Stage
  <2>10. ResultOK(i, 1, x)
    BY <1>4, <2>2, <2>8, <2>9 DEF ResultOK
  <2>11. Stage(worker[r], c, 1, x)
    BY <1>4, <2>2, <2>6, <2>7, <2>8, <2>9 DEF Stage, InTurn, InClosing
  <2>12. RunnerOK(worker[r], c, conn[r], 1, x)
    BY <1>3, <1>4, <2>6, <2>10, <2>11 DEF RunnerOK
  <2>13. /\ worker' = [worker EXCEPT ![r] = worker[r]]
         /\ result' = [result EXCEPT ![i] = x]
    BY <1>1, Same
  <2>14. next' = next
    BY <1>1
  <2> QED
    BY <1>2, <1>3, <1>4, <2>3, <2>5, <2>12, <2>13, <2>14, OneRunner
\* It refuses the prompt.
<1>10. ASSUME line.type = "prompt", bought' = bought,
              child' = [child EXCEPT ![r] = Says(d, Event("refuse", line.call, {}))]
       PROVE  Inv'
  <2> DEFINE e == Event("refuse", i, {})
             o == Append(child[r].stdout, e)
             c == [d EXCEPT !.stdout = o]
  <2>1. line.call = i /\ worker[r].pc # "fresh"
    BY <1>3, <1>10 DEF Line
  <2>2. child' = [child EXCEPT ![r] = c]
    BY <1>6, <1>10, <2>1 DEF Says
  <2>3. /\ DOMAIN c = ChildNames /\ c.stdin = rest /\ c.stdout = o
        /\ c.on = child[r].on /\ c.session = child[r].session
    BY <1>6, Piped
  <2> HIDE DEF c
  <2>4. ASSUME worker[r].pc = "turn"
        PROVE  InTurn(worker[r], c, b)
    <3>1. Sent(i, child[r], b) /\ rest = <<>>
      BY <1>3, <2>4
    <3>2. o = <<e>>
      BY <3>1, Ends DEF Sent
    <3> HIDE DEF o
    <3>3. Refused(i, c, b)
      BY <2>3, <3>1, <3>2 DEF Refused, Sent
    <3> QED
      BY <1>3, <1>4, <2>4, <3>3 DEF InTurn
  <2> QED
    BY <1>8, <1>10, <2>1, <2>2, <2>3, <2>4
\* It starts a new session, or keeps the one it has.
<1>11. ASSUME line.type = "new_session", bought' = bought,
              child' = [child EXCEPT ![r] =
                Says([done EXCEPT !.session = {}], Event("fresh", Nobody, {}))]
       PROVE  Inv'
  <2> DEFINE e == Event("fresh", Nobody, {})
             f == [done EXCEPT !.session = {}]
             o == Append(child[r].stdout, e)
             c == [f EXCEPT !.stdout = o]
  <2>1. /\ DOMAIN f = ChildNames /\ f.stdin = rest /\ f.stdout = child[r].stdout
        /\ f.on = Nobody /\ f.session = {}
    BY <1>7, Piped
  <2>2. child' = [child EXCEPT ![r] = c]
    BY <1>11, <2>1 DEF Says
  <2> HIDE DEF f
  <2>3. /\ DOMAIN c = ChildNames /\ c.stdin = rest /\ c.stdout = o
        /\ c.on = Nobody /\ c.session = {}
    BY <2>1, Piped
  <2>4. worker[r].pc # "turn"
    BY <1>3, <1>11 DEF Line
  <2> HIDE DEF c
  <2>5. ASSUME worker[r].pc = "fresh"
        PROVE  InFresh(c)
    <3>1. child[r].stdout = <<>> /\ rest = <<>>
      BY <1>3, <2>5
    <3>2. o = <<e>>
      BY <3>1, Ends
    <3> HIDE DEF o
    <3> QED
      BY <2>3, <3>1, <3>2 DEF InFresh
  <2> QED
    BY <1>8, <1>11, <2>2, <2>3, <2>4, <2>5
<1>12. ASSUME line.type = "new_session", bought' = bought,
              child' = [child EXCEPT ![r] = Says(d, Event("stale", Nobody, {}))]
       PROVE  Inv'
  <2> DEFINE e == Event("stale", Nobody, {})
             o == Append(child[r].stdout, e)
             c == [d EXCEPT !.stdout = o]
  <2>1. child' = [child EXCEPT ![r] = c]
    BY <1>6, <1>12 DEF Says
  <2>2. /\ DOMAIN c = ChildNames /\ c.stdin = rest /\ c.stdout = o
        /\ c.on = child[r].on /\ c.session = child[r].session
    BY <1>6, Piped
  <2>3. worker[r].pc # "turn"
    BY <1>3, <1>12 DEF Line
  <2> HIDE DEF c
  <2>4. ASSUME worker[r].pc = "fresh"
        PROVE  InFresh(c)
    <3>1. child[r].stdout = <<>> /\ rest = <<>> /\ child[r].on = Nobody
      BY <1>3, <2>4
    <3>2. o = <<e>>
      BY <3>1, Ends
    <3> HIDE DEF o
    <3> QED
      BY <2>2, <3>1, <3>2 DEF InFresh
  <2> QED
    BY <1>8, <1>12, <2>1, <2>2, <2>3, <2>4
\* It ends its turn.
<1>13. ASSUME line.type = "abort", bought' = bought,
              child' = [child EXCEPT ![r] =
                IF child[r].on = Nobody THEN d
                ELSE Says(done, Event("end", child[r].on, child[r].session))]
       PROVE  Inv'
  <2> DEFINE e == Event("end", child[r].on, child[r].session)
             o == Append(child[r].stdout, e)
             f == [done EXCEPT !.stdout = o]
             c == IF child[r].on = Nobody THEN d ELSE f
  <2>1. child' = [child EXCEPT ![r] = c]
    BY <1>7, <1>13 DEF Says
  <2>2. DOMAIN f = ChildNames /\ f.stdin = rest
    BY <1>7, Piped
  <2> HIDE DEF f
  <2>3. DOMAIN c = ChildNames /\ c.stdin = rest
    BY <1>6, <2>2
  <2>4. worker[r].pc # "turn" /\ worker[r].pc # "fresh"
    BY <1>3, <1>13 DEF Line
  <2> HIDE DEF c
  <2> QED
    BY <1>8, <1>13, <2>1, <2>3, <2>4
<1> QED
  BY <1>6, <1>9, <1>10, <1>11, <1>12, <1>13 DEF Serve, d, done

-----------------------------------------------------------------------------
(* The theorems *)

LEMMA InvInit == Init => Inv
<1> SUFFICES ASSUME Init
             PROVE  Inv
  OBVIOUS
<1>1. /\ next = 1 /\ worker = [r \in Runners |-> AtRest] /\ conn = [r \in Runners |-> "none"]
      /\ child = [r \in Runners |-> NoChild] /\ result = [i \in Calls |-> Unanswered]
      /\ bought = [i \in Calls |-> 0]
  BY DEF Init
<1>2. DOMAIN AtRest = WorkerNames /\ AtRest.pc = "idle" /\ AtRest.item = Nobody /\ AtRest.then = "return"
  BY DEF AtRest, WorkerNames
<1>3. DOMAIN Unanswered = ResultNames /\ Unanswered.outcome = "none"
  BY DEF Unanswered, ResultNames
<1>4. \A r \in Runners : Item(r) = Nobody
  BY <1>1, <1>2 DEF Item
<1>5. Shapes /\ Apart /\ Ahead
  BY <1>1, <1>4 DEF Shapes, Apart, Ahead, Calls
<1>6. Settled
  BY <1>1, <1>3 DEF Settled, ResultOK
<1>7. ASSUME NEW r \in Runners
      PROVE  RunnerOK(worker[r], child[r], conn[r], bought[Item(r)], result[Item(r)])
  BY <1>1, <1>2, <1>4, Newborn DEF RunnerOK
<1> QED
  BY <1>5, <1>6, <1>7 DEF Inv

LEMMA InvNext == Inv /\ [Next]_vars => Inv'
<1> SUFFICES ASSUME Inv, [Next]_vars
             PROVE  Inv'
  OBVIOUS
<1>1. CASE UNCHANGED vars
  BY <1>1 DEF vars, pool, link, Inv, Shapes, Apart, Ahead, Settled, Item
<1>2. ASSUME NEW r \in Runners, RunnerStep(r)
      PROVE  Inv'
  BY <1>2, TakeKeeps, ReturnKeeps, WarmKeeps, SendKeeps, HearKeeps, OverflowKeeps, TimeOutKeeps,
     NewSessionKeeps, HearFreshKeeps, SessionTimeOutKeeps, CloseKeeps, RespawnKeeps
     DEF RunnerStep
<1>3. ASSUME NEW r \in Runners,
             ExitEvent(r) \/ Unheard(r) \/ Serve(r) \/ Answer(r) \/ Dies(r)
      PROVE  Inv'
  BY <1>3, ExitEventKeeps, UnheardKeeps, ServeKeeps, AnswerKeeps, DiesKeeps
<1> QED
  BY <1>1, <1>2, <1>3 DEF Next

\* The invariant holds in every reachable state, whatever the fairness.
THEOREM InvAlways == Spec => []Inv
BY InvInit, InvNext, PTL DEF Spec

\* Each answer belongs to its own prompt and to no conversation but its own:
\* a prompt is written only into an empty session, and a process that was
\* given up in its turn is never used again.
THEOREM AnswersAreOwn == Spec => []AnswerIsOwn
<1>1. Inv => AnswerIsOwn
  BY DEF Inv, Settled, ResultOK, AnswerIsOwn
<1> QED
  BY <1>1, InvAlways, PTL

\* No prompt is taken up twice, and a receipt that says "yes" or "no" of its
\* acceptance is right.
THEOREM AcceptanceIsTold == Spec => []AcceptanceIsTrue
<1>1. Inv => AcceptanceIsTrue
  BY DEF Inv, Settled, ResultOK, AcceptanceIsTrue
<1> QED
  BY <1>1, InvAlways, PTL

-----------------------------------------------------------------------------
(* Types *)

WorkerRecords ==
  [pc : {"idle", "warm", "send", "turn", "reset", "fresh", "close", "respawn", "return", "done"},
   item : 0..Items, restarts : 0..MaxRestarts, accepted : Accepted, then : {"return", "respawn"}]
ResultRecords ==
  [outcome : Outcomes, accepted : Accepted, of : 0..Items, seen : SUBSET Calls]

\* A process has a conversation about items, and lives only on a connection
\* that is up.
LinkType(c, k) ==
  /\ c.session \subseteq Calls /\ c.on \in 0..Items /\ (c.alive => k = "up")
  /\ k \in {"none", "up", "down"}

LEMMA TypesInParts ==
  TypeOK <=> /\ next \in Nat /\ halted \in BOOLEAN /\ program \in {"up", "down"}
             /\ worker \in [Runners -> WorkerRecords]
             /\ conn \in [Runners -> {"none", "up", "down"}]
             /\ \A r \in Runners : LinkType(child[r], conn[r])
             /\ result \in [Calls -> ResultRecords]
             /\ bought \in [Calls -> Nat] /\ faults \in 0..MaxFaults
<1>1. conn \in [Runners -> {"none", "up", "down"}] =>
        \A r \in Runners : conn[r] \in {"none", "up", "down"}
  OBVIOUS
<1> QED
  BY <1>1 DEF TypeOK, WorkerRecords, ResultRecords, LinkType

LEMMA TypesAgain ==
  ASSUME next' \in Nat, halted' \in BOOLEAN, program' \in {"up", "down"},
         worker' \in [Runners -> WorkerRecords],
         conn' \in [Runners -> {"none", "up", "down"}],
         \A r \in Runners : LinkType(child'[r], conn'[r]),
         result' \in [Calls -> ResultRecords],
         bought' \in [Calls -> Nat], faults' \in 0..MaxFaults
  PROVE  TypeOK'
BY DEF TypeOK, WorkerRecords, ResultRecords, LinkType

\* The types of a worker that moves.
LEMMA WorkerTypes ==
  ASSUME NEW r \in Runners, worker \in [Runners -> WorkerRecords],
         NEW v, v \in WorkerRecords, worker' = [worker EXCEPT ![r] = v]
  PROVE  worker' \in [Runners -> WorkerRecords]
OBVIOUS

LEMMA GoToTypes ==
  ASSUME NEW r \in Runners, worker \in [Runners -> WorkerRecords], NEW pc, GoTo(r, pc),
         pc \in {"idle", "warm", "send", "turn", "reset", "fresh", "close", "respawn",
                 "return", "done"}
  PROVE  worker' \in [Runners -> WorkerRecords]
<1>1. worker[r] \in WorkerRecords
  OBVIOUS
<1>2. [worker[r] EXCEPT !.pc = pc] \in WorkerRecords
  BY <1>1 DEF WorkerRecords
<1> QED
  BY <1>2, WorkerTypes DEF GoTo

LEMMA TeardownTypes ==
  ASSUME NEW r \in Runners, worker \in [Runners -> WorkerRecords],
         NEW then \in {"return", "respawn"}, Teardown(r, then)
  PROVE  worker' \in [Runners -> WorkerRecords]
<1>1. worker[r] \in WorkerRecords
  OBVIOUS
<1>2. [worker[r] EXCEPT !.pc = "close", !.then = then] \in WorkerRecords
  BY <1>1 DEF WorkerRecords
<1> QED
  BY <1>2, WorkerTypes DEF Teardown

\* The types of a result that is returned.
LEMMA ReturnsTypes ==
  ASSUME NEW r \in Runners, result \in [Calls -> ResultRecords], Item(r) \in Calls,
         NEW o \in Outcomes, NEW a \in Accepted, Returns(r, o, a)
  PROVE  result' \in [Calls -> ResultRecords]
<1> DEFINE x == [result[Item(r)] EXCEPT !.outcome = o, !.accepted = a]
<1>1. result[Item(r)] \in ResultRecords
  OBVIOUS
<1>2. x \in ResultRecords
  BY <1>1 DEF ResultRecords
<1>3. result' = [result EXCEPT ![Item(r)] = x]
  BY DEF Returns
<1> QED
  BY <1>2, <1>3

LEMMA FailedTypes ==
  ASSUME NEW r \in Runners, worker \in [Runners -> WorkerRecords],
         result \in [Calls -> ResultRecords], Item(r) \in Calls,
         NEW a \in Accepted, Failed(r, a)
  PROVE  worker' \in [Runners -> WorkerRecords] /\ result' \in [Calls -> ResultRecords]
<1>1. CASE a = "no" /\ MayRestart(r)
  <2> DEFINE n == worker[r].restarts + 1
             v == [worker[r] EXCEPT !.pc = "close", !.then = "respawn", !.restarts = n]
  <2>1. worker[r] \in WorkerRecords /\ n \in 0..MaxRestarts
    BY <1>1 DEF MayRestart, WorkerRecords
  <2>2. v \in WorkerRecords
    <3> HIDE DEF n
    <3> QED
      BY <2>1 DEF WorkerRecords
  <2>3. worker' = [worker EXCEPT ![r] = v] /\ result' = result
    BY <1>1 DEF Failed
  <2> HIDE DEF v
  <2> QED
    BY <2>2, <2>3, WorkerTypes
<1>2. CASE ~(a = "no" /\ MayRestart(r))
  <2>1. Teardown(r, "return") /\ Returns(r, "timeout:process_crash", a)
    BY <1>2 DEF Failed
  <2>2. "timeout:process_crash" \in Outcomes
    BY DEF Outcomes
  <2> QED
    BY <2>1, <2>2, TeardownTypes, ReturnsTypes
<1> QED
  BY <1>1, <1>2

\* The types of a link: only that of one runner changes.
LEMMA LinkTypes ==
  ASSUME NEW r \in Runners, Inv, TypeOK, NEW c, NEW k, LinkType(c, k),
         child' = [child EXCEPT ![r] = c], conn' = [conn EXCEPT ![r] = k]
  PROVE  conn' \in [Runners -> {"none", "up", "down"}]
         /\ \A s \in Runners : LinkType(child'[s], conn'[s])
<1>1. /\ child'[r] = c /\ conn'[r] = k
      /\ \A s \in Runners \ {r} : child'[s] = child[s] /\ conn'[s] = conn[s]
  BY DEF Inv, Shapes
<1>2. \A s \in Runners : LinkType(child'[s], conn'[s])
  BY <1>1, TypesInParts
<1>3. conn' \in [Runners -> {"none", "up", "down"}]
  BY TypesInParts DEF LinkType
<1> QED
  BY <1>2, <1>3

LEMMA StillLinked ==
  ASSUME TypeOK, conn' = conn, child' = child
  PROVE  conn' \in [Runners -> {"none", "up", "down"}]
         /\ \A s \in Runners : LinkType(child'[s], conn'[s])
BY TypesInParts

\* A line written or read changes neither what the process works on nor its
\* conversation.
LEMMA LineTypes ==
  ASSUME NEW r \in Runners, Inv, TypeOK, conn' = conn, NEW c,
         child' = [child EXCEPT ![r] = c],
         c.session = child[r].session, c.on = child[r].on, c.alive = child[r].alive
  PROVE  conn' \in [Runners -> {"none", "up", "down"}]
         /\ \A s \in Runners : LinkType(child'[s], conn'[s])
<1>1. LinkType(child[r], conn[r])
  BY TypesInParts
<1>2. LinkType(c, conn[r])
  BY <1>1 DEF LinkType
<1>3. conn' = [conn EXCEPT ![r] = conn[r]]
  BY Same
<1> QED
  BY <1>2, <1>3, LinkTypes

LEMMA WrittenTypes ==
  ASSUME NEW r \in Runners, Inv, TypeOK, conn' = conn, NEW line, Written(r, line)
  PROVE  /\ conn' \in [Runners -> {"none", "up", "down"}]
         /\ \A s \in Runners : LinkType(child'[s], conn'[s])
         /\ program' \in {"up", "down"}
<1> DEFINE c == Put(child[r], line)
<1>1. DOMAIN child[r] = ChildNames
  BY LinkFacts
<1>2. c.session = child[r].session /\ c.on = child[r].on /\ c.alive = child[r].alive
  BY <1>1, Piped DEF Put
<1>3. child' = [child EXCEPT ![r] = c]
  BY DEF Written
<1> HIDE DEF c
<1>4. program' \in {"up", "down"}
  BY DEF Written, MayEnd, TypeOK
<1> QED
  BY <1>2, <1>3, <1>4, LineTypes

LEMMA ReadTypes ==
  ASSUME NEW r \in Runners, Inv, TypeOK, conn' = conn,
         child' = [child EXCEPT ![r].stdout = Tail(@)]
  PROVE  conn' \in [Runners -> {"none", "up", "down"}]
         /\ \A s \in Runners : LinkType(child'[s], conn'[s])
<1> DEFINE c == [child[r] EXCEPT !.stdout = Tail(child[r].stdout)]
<1>1. DOMAIN child[r] = ChildNames
  BY LinkFacts
<1>2. c.session = child[r].session /\ c.on = child[r].on /\ c.alive = child[r].alive
  BY <1>1, Piped
<1>3. child' = [child EXCEPT ![r] = c]
  OBVIOUS
<1> HIDE DEF c
<1> QED
  BY <1>2, <1>3, LineTypes

LEMMA NewbornTypes ==
  /\ LinkType(NoChild, "none") /\ LinkType(NoChild, "down") /\ LinkType(Fresh, "up")
BY DEF LinkType, NoChild, Fresh

LEMMA SpawnTypes ==
  ASSUME NEW r \in Runners, Inv, TypeOK, Spawned(r) \/ SpawnFails
  PROVE  /\ conn' \in [Runners -> {"none", "up", "down"}]
         /\ \A s \in Runners : LinkType(child'[s], conn'[s])
         /\ faults' \in 0..MaxFaults
<1>1. CASE Spawned(r)
  BY <1>1, NewbornTypes, LinkTypes DEF Spawned, TypeOK
<1>2. CASE SpawnFails
  BY <1>2, StillLinked DEF SpawnFails, link, TypeOK
<1> QED
  BY <1>1, <1>2

\* The steps of a worker.
LEMMA WorkerStepTypes ==
  ASSUME Inv, TypeOK, NEW r \in Runners, RunnerStep(r)
  PROVE  TypeOK'
<1>1. /\ worker \in [Runners -> WorkerRecords] /\ worker[r] \in WorkerRecords
      /\ result \in [Calls -> ResultRecords] /\ bought \in [Calls -> Nat]
      /\ next \in Nat /\ halted \in BOOLEAN /\ program \in {"up", "down"}
      /\ faults \in 0..MaxFaults
  BY TypesInParts
<1>2. /\ {"yes", "no", "null"} \subseteq Accepted
      /\ {"error:prompt_rejected", "output_limit", "timeout",
          "timeout:process_unavailable"} \subseteq Outcomes
  BY DEF Accepted, Outcomes
<1>3. worker[r].pc \notin {"idle", "done"} => Item(r) \in Calls
  BY Busy
<1>4. CASE Take(r)
  <2>1. worker' \in [Runners -> WorkerRecords] /\ next' \in Nat
    <3>1. CASE halted
      BY <1>1, <1>4, <3>1, GoToTypes DEF Take
    <3>2. CASE ~halted
      <4> DEFINE v == IF next > Items THEN [worker[r] EXCEPT !.pc = "done"]
                      ELSE [AtRest EXCEPT !.pc = "warm", !.item = next]
      <4>1. worker' = [worker EXCEPT ![r] = v] /\ next' = next + 1
        BY <1>4, <3>2 DEF Take
      <4>2. v \in WorkerRecords
        <5>1. CASE next > Items
          BY <1>1, <5>1 DEF WorkerRecords
        <5>2. CASE ~(next > Items)
          <6>1. next \in 0..Items /\ 0 \in 0..MaxRestarts
            BY <1>1, <5>2
          <6>2. v = [pc |-> "warm", item |-> next, restarts |-> 0, accepted |-> "null",
                     then |-> "return"]
            BY <5>2 DEF AtRest
          <6> HIDE DEF v
          <6> QED
            BY <6>1, <6>2 DEF WorkerRecords, Accepted
        <5> QED
          BY <5>1, <5>2
      <4> HIDE DEF v
      <4> QED
        BY <1>1, <4>1, <4>2, WorkerTypes
    <3> QED
      BY <3>1, <3>2
  <2>2. UNCHANGED <<halted, conn, child, result, program, bought, faults>>
    BY <1>4 DEF Take, link
  <2> QED
    BY <1>1, <2>1, <2>2, StillLinked, TypesAgain
<1>5. CASE Return(r)
  <2>1. worker' \in [Runners -> WorkerRecords] /\ halted' \in BOOLEAN
    BY <1>1, <1>5, GoToTypes DEF Return
  <2>2. UNCHANGED <<next, conn, child, result, program, bought, faults>>
    BY <1>5 DEF Return, link
  <2> QED
    BY <1>1, <2>1, <2>2, StillLinked, TypesAgain
<1>6. CASE Warm(r)
  <2>1. /\ conn' \in [Runners -> {"none", "up", "down"}]
        /\ \A s \in Runners : LinkType(child'[s], conn'[s]) /\ faults' \in 0..MaxFaults
    BY <1>1, <1>6, SpawnTypes, StillLinked DEF Warm, link
  <2>2. worker' \in [Runners -> WorkerRecords] /\ result' \in [Calls -> ResultRecords]
    <3>1. CASE GoTo(r, "send") /\ UNCHANGED result
      BY <1>1, <3>1, GoToTypes
    <3>2. CASE MayRestart(r) /\ worker' = [worker EXCEPT ![r].restarts = @ + 1] /\ UNCHANGED result
      <4> DEFINE n == worker[r].restarts + 1
                 v == [worker[r] EXCEPT !.restarts = n]
      <4>1. v \in WorkerRecords
        <5>1. n \in 0..MaxRestarts
          BY <1>1, <3>2 DEF WorkerRecords, MayRestart
        <5> HIDE DEF n
        <5> QED
          BY <1>1, <5>1 DEF WorkerRecords
      <4>2. worker' = [worker EXCEPT ![r] = v]
        BY <3>2
      <4> HIDE DEF v
      <4> QED
        BY <1>1, <3>2, <4>1, <4>2, WorkerTypes
    <3>3. CASE GoTo(r, "return") /\ Returns(r, "timeout:process_unavailable", "no")
      <4>1. Item(r) \in Calls
        BY <1>3, <1>6 DEF Warm, At
      <4> QED
        BY <1>1, <1>2, <3>3, <4>1, GoToTypes, ReturnsTypes
    <3> QED
      BY <1>6, <3>1, <3>2, <3>3 DEF Warm
  <2>3. UNCHANGED <<next, halted, program, bought>>
    BY <1>6 DEF Warm, pool
  <2> QED
    BY <1>1, <2>1, <2>2, <2>3, TypesAgain
<1>7. CASE Send(r)
  <2>1. Item(r) \in Calls /\ conn' = conn /\ UNCHANGED <<next, halted, bought, faults>>
    BY <1>3, <1>7 DEF Send, At, pool
  <2>2. CASE Failed(r, "no") /\ UNCHANGED <<child, program>>
    BY <1>1, <1>2, <2>1, <2>2, FailedTypes, StillLinked, TypesAgain
  <2>3. CASE /\ Written(r, [type |-> "prompt", call |-> Item(r)])
             /\ worker' = [worker EXCEPT ![r].pc = "turn", ![r].accepted = "null"]
             /\ UNCHANGED result
    <3> DEFINE v == [worker[r] EXCEPT !.pc = "turn", !.accepted = "null"]
    <3>1. v \in WorkerRecords
      BY <1>1 DEF WorkerRecords, Accepted
    <3>2. worker' = [worker EXCEPT ![r] = v]
      BY <2>3
    <3> HIDE DEF v
    <3> QED
      BY <1>1, <2>1, <2>3, <3>1, <3>2, WorkerTypes, WrittenTypes, TypesAgain
  <2> QED
    BY <1>7, <2>2, <2>3 DEF Send
<1>8. CASE Hear(r)
  <2> DEFINE e == Head(child[r].stdout)
  <2>1. /\ Item(r) \in Calls /\ worker[r].pc = "turn" /\ child[r].stdout # <<>>
        /\ conn' = conn /\ UNCHANGED <<next, halted, program, bought, faults>>
        /\ child' = [child EXCEPT ![r].stdout = Tail(@)]
    BY <1>3, <1>8 DEF Hear, At, pool
  <2>2. e.type = "end" => e.call = Item(r) /\ e.seen = {Item(r)}
    <3>1. \/ e = Event("accept", Item(r), {}) \/ e = Event("refuse", Item(r), {})
          \/ e = Event("end", Item(r), {Item(r)})
      BY <2>1, TurnLine
    <3> HIDE DEF e
    <3> QED
      BY <3>1 DEF Event
  <2>3. worker' \in [Runners -> WorkerRecords] /\ result' \in [Calls -> ResultRecords]
    <3>1. CASE worker' = [worker EXCEPT ![r].accepted = "yes"] /\ UNCHANGED result
      <4> DEFINE v == [worker[r] EXCEPT !.accepted = "yes"]
      <4>1. v \in WorkerRecords
        BY <1>1 DEF WorkerRecords, Accepted
      <4>2. worker' = [worker EXCEPT ![r] = v]
        BY <3>1
      <4> HIDE DEF v
      <4> QED
        BY <1>1, <3>1, <4>1, <4>2, WorkerTypes
    <3>2. CASE GoTo(r, AfterAnswer) /\ Returns(r, "error:prompt_rejected", "no")
      BY <1>1, <1>2, <2>1, <3>2, GoToTypes, ReturnsTypes DEF AfterAnswer
    <3>3. CASE /\ e.type = "end" /\ GoTo(r, AfterAnswer)
               /\ result' = [result EXCEPT ![Item(r)] =
                    [outcome |-> "ok", accepted |-> "yes", of |-> e.call, seen |-> e.seen]]
      <4> DEFINE x == [outcome |-> "ok", accepted |-> "yes", of |-> e.call, seen |-> e.seen]
      <4>1. x \in ResultRecords
        BY <2>1, <2>2, <3>3 DEF ResultRecords, Outcomes, Accepted, Calls
      <4>2. result' = [result EXCEPT ![Item(r)] = x]
        BY <3>3
      <4> HIDE DEF x
      <4> QED
        BY <1>1, <2>1, <3>3, <4>1, <4>2, GoToTypes DEF AfterAnswer
    <3>4. CASE UNCHANGED <<worker, result>>
      BY <1>1, <3>4
    <3> QED
      BY <1>8, <3>1, <3>2, <3>3, <3>4 DEF Hear
  <2> QED
    BY <1>1, <2>1, <2>3, ReadTypes, TypesAgain
<1>9. CASE Overflow(r)
  <2> DEFINE d == [child[r] EXCEPT !.stdout = Tail(child[r].stdout)]
             abort == [type |-> "abort", call |-> Item(r)]
             c == Put(d, abort)
  <2>1. /\ Item(r) \in Calls /\ conn' = conn /\ UNCHANGED <<next, halted, bought, faults>>
        /\ child' = [child EXCEPT ![r] = c] /\ MayEnd(child[r])
        /\ Teardown(r, "return") /\ Returns(r, "output_limit", "yes")
    BY <1>3, <1>9 DEF Overflow, At, pool
  <2>2. c.session = child[r].session /\ c.on = child[r].on /\ c.alive = child[r].alive
    <3>1. DOMAIN child[r] = ChildNames
      BY LinkFacts
    <3>2. /\ DOMAIN d = ChildNames /\ d.session = child[r].session /\ d.on = child[r].on
          /\ d.alive = child[r].alive
      BY <3>1, Piped
    <3> HIDE DEF d
    <3> QED
      BY <3>2, Piped DEF Put
  <2> HIDE DEF c
  <2>3. program' \in {"up", "down"}
    BY <1>1, <2>1 DEF MayEnd
  <2> QED
    BY <1>1, <1>2, <2>1, <2>2, <2>3, LineTypes, TeardownTypes, ReturnsTypes, TypesAgain
<1>10. CASE TimeOut(r)
  <2>1. /\ Item(r) \in Calls /\ conn' = conn /\ UNCHANGED <<next, halted, bought, faults>>
        /\ Written(r, [type |-> "abort", call |-> Item(r)])
        /\ Teardown(r, "return") /\ Returns(r, "timeout", worker[r].accepted)
    BY <1>3, <1>10 DEF TimeOut, At, pool
  <2>2. worker[r].accepted \in Accepted
    BY <1>1 DEF WorkerRecords
  <2> QED
    BY <1>1, <1>2, <2>1, <2>2, WrittenTypes, TeardownTypes, ReturnsTypes, TypesAgain
<1>11. CASE NewSession(r)
  <2>1. conn' = conn /\ UNCHANGED <<next, halted, result, bought, faults>>
    BY <1>11 DEF NewSession, pool
  <2>2. CASE Teardown(r, "respawn") /\ UNCHANGED <<child, program>>
    BY <1>1, <2>1, <2>2, TeardownTypes, StillLinked, TypesAgain
  <2>3. CASE Written(r, [type |-> "new_session", call |-> Nobody]) /\ GoTo(r, "fresh")
    BY <1>1, <2>1, <2>3, WrittenTypes, GoToTypes, TypesAgain
  <2> QED
    BY <1>11, <2>2, <2>3 DEF NewSession
<1>12. CASE HearFresh(r)
  <2>1. worker' \in [Runners -> WorkerRecords]
    BY <1>1, <1>12, GoToTypes, TeardownTypes DEF HearFresh
  <2>2. conn' = conn /\ UNCHANGED <<next, halted, result, program, bought, faults>>
        /\ child' = [child EXCEPT ![r].stdout = Tail(@)]
    BY <1>12 DEF HearFresh, pool
  <2> QED
    BY <1>1, <2>1, <2>2, ReadTypes, TypesAgain
<1>13. CASE SessionTimeOut(r)
  <2>1. Teardown(r, "respawn") /\ UNCHANGED <<next, halted, conn, child, result, program, bought, faults>>
    BY <1>13 DEF SessionTimeOut, pool, link
  <2> QED
    BY <1>1, <2>1, TeardownTypes, StillLinked, TypesAgain
<1>14. CASE Close(r)
  <2>1. worker[r].then \in {"return", "respawn"}
    BY <1>1 DEF WorkerRecords
  <2>2. /\ GoTo(r, worker[r].then) /\ UNCHANGED <<next, halted, result, program, bought, faults>>
        /\ conn' = [conn EXCEPT ![r] = "none"] /\ child' = [child EXCEPT ![r] = NoChild]
    BY <1>14 DEF Close, pool
  <2>3. worker' \in [Runners -> WorkerRecords]
    BY <1>1, <2>1, <2>2, GoToTypes
  <2>4. conn' \in [Runners -> {"none", "up", "down"}]
        /\ \A s \in Runners : LinkType(child'[s], conn'[s])
    BY <2>2, NewbornTypes, LinkTypes
  <2> QED
    BY <1>1, <2>2, <2>3, <2>4, TypesAgain
<1>15. CASE Respawn(r)
  <2>1. worker' \in [Runners -> WorkerRecords]
    BY <1>1, <1>15, GoToTypes DEF Respawn
  <2>2. UNCHANGED <<next, halted, result, program, bought>>
    BY <1>15 DEF Respawn, pool
  <2> QED
    BY <1>1, <1>15, <2>1, <2>2, SpawnTypes, TypesAgain DEF Respawn
<1> QED
  BY <1>4, <1>5, <1>6, <1>7, <1>8, <1>9, <1>10, <1>11, <1>12, <1>13, <1>14, <1>15 DEF RunnerStep

\* The steps of a process, and the notice of its death.
LEMMA ProcessStepTypes ==
  ASSUME Inv, TypeOK, NEW r \in Runners,
         ExitEvent(r) \/ Unheard(r) \/ Serve(r) \/ Answer(r) \/ Dies(r)
  PROVE  TypeOK'
<1>1. /\ worker \in [Runners -> WorkerRecords] /\ worker[r] \in WorkerRecords
      /\ conn[r] \in {"none", "up", "down"}
      /\ result \in [Calls -> ResultRecords] /\ bought \in [Calls -> Nat]
      /\ next \in Nat /\ halted \in BOOLEAN /\ program \in {"up", "down"}
      /\ faults \in 0..MaxFaults /\ LinkType(child[r], conn[r])
  BY TypesInParts
<1>2. DOMAIN child[r] = ChildNames /\ conn = [conn EXCEPT ![r] = conn[r]]
  BY LinkFacts, Same
<1>3. CASE ExitEvent(r)
  <2>1. /\ UNCHANGED <<next, halted, program, bought, faults>>
        /\ conn' = [conn EXCEPT ![r] = "down"] /\ child' = [child EXCEPT ![r] = NoChild]
    BY <1>3 DEF ExitEvent, pool
  <2>2. worker' \in [Runners -> WorkerRecords] /\ result' \in [Calls -> ResultRecords]
    <3>1. CASE worker[r].pc = "turn" /\ Failed(r, ClosedVerdict(worker[r].accepted))
      <4>1. Item(r) \in Calls /\ ClosedVerdict(worker[r].accepted) \in Accepted
        BY <3>1, Busy DEF ClosedVerdict, Accepted
      <4> QED
        BY <1>1, <3>1, <4>1, FailedTypes
    <3>2. CASE Teardown(r, "respawn") /\ UNCHANGED result
      BY <1>1, <3>2, TeardownTypes
    <3>3. CASE UNCHANGED <<worker, result>>
      BY <1>1, <3>3
    <3> QED
      BY <1>3, <3>1, <3>2, <3>3 DEF ExitEvent
  <2> QED
    BY <1>1, <2>1, <2>2, NewbornTypes, LinkTypes, TypesAgain
<1>4. CASE Unheard(r)
  <2>1. /\ UNCHANGED <<next, halted, worker, conn, result, program, bought, faults>>
        /\ child' = [child EXCEPT ![r].stdout = Tail(@)]
    BY <1>4 DEF Unheard, pool
  <2> QED
    BY <1>1, <2>1, ReadTypes, TypesAgain
<1>5. CASE Serve(r)
  <2> DEFINE line == Head(child[r].stdin)
             c == child'[r]
  <2>1. UNCHANGED <<next, halted, worker, conn, result, program, faults>> /\ child[r].alive
        /\ child[r].stdin # <<>>
    BY <1>5 DEF Serve, pool
  <2>2. line.type = "prompt" => line.call \in Calls
    <3>1. \/ line = Line("prompt", Item(r)) /\ Item(r) \in Calls
          \/ line = Line("abort", Item(r)) \/ line = Line("new_session", Nobody)
      BY <2>1, ServeLine
    <3> HIDE DEF line
    <3> QED
      BY <3>1 DEF Line
  <2>3. bought' \in [Calls -> Nat]
    BY <1>1, <1>5, <2>2 DEF Serve
  <2>4. child' = [child EXCEPT ![r] = c]
    BY <1>5 DEF Serve, Inv, Shapes
  <2>5. /\ c.alive = child[r].alive
        /\ c.session \in {child[r].session, {}, child[r].session \cup {line.call}}
        /\ c.on \in {child[r].on, Nobody, line.call}
        /\ line.type = "prompt" \/ (c.session \in {child[r].session, {}}
                                    /\ c.on \in {child[r].on, Nobody})
    <3> DEFINE k == child[r]
               rest == Tail(k.stdin)
               d == [k EXCEPT !.stdin = rest]
               done == [d EXCEPT !.on = Nobody]
    <3>1. /\ DOMAIN d = ChildNames /\ d.alive = k.alive /\ d.session = k.session /\ d.on = k.on
          /\ DOMAIN done = ChildNames /\ done.alive = k.alive /\ done.session = k.session
          /\ done.on = Nobody
      BY <1>2 DEF ChildNames
    <3>2. \A x : child' = [child EXCEPT ![r] = x] => c = x
      BY DEF Inv, Shapes
    <3>3. \/ /\ line.type = "prompt"
             /\ c = Says([d EXCEPT !.on = line.call, !.session = d.session \cup {line.call}],
                         Event("accept", line.call, {}))
          \/ c = Says(d, Event("refuse", line.call, {}))
          \/ c = Says([done EXCEPT !.session = {}], Event("fresh", Nobody, {}))
          \/ c = Says(d, Event("stale", Nobody, {}))
          \/ c = d \/ c = Says(done, Event("end", k.on, k.session))
      BY <1>5, <3>2 DEF Serve
    <3> HIDE DEF c, line, d, done
    <3>4. \A e : /\ Says(d, e).alive = k.alive /\ Says(d, e).session = k.session
                 /\ Says(d, e).on = k.on
                 /\ Says(done, e).alive = k.alive /\ Says(done, e).session = k.session
                 /\ Says(done, e).on = Nobody
      BY <3>1 DEF Says, ChildNames
    <3>5. \A e : LET x == Says([done EXCEPT !.session = {}], e)
                 IN  x.alive = k.alive /\ x.session = {} /\ x.on = Nobody
      BY <3>1 DEF Says, ChildNames
    <3>6. \A e, n : LET x == Says([d EXCEPT !.on = n, !.session = d.session \cup {n}], e)
                    IN  x.alive = k.alive /\ x.session = k.session \cup {n} /\ x.on = n
      BY <3>1 DEF Says, ChildNames
    <3>7. CASE \/ c = Says(d, Event("refuse", line.call, {}))
               \/ c = Says(d, Event("stale", Nobody, {})) \/ c = d
               \/ c = Says(done, Event("end", k.on, k.session))
      <4>1. c.alive = k.alive /\ c.session = k.session /\ c.on \in {k.on, Nobody}
        BY <3>1, <3>4, <3>7
      <4> QED
        BY <4>1
    <3>8. CASE c = Says([done EXCEPT !.session = {}], Event("fresh", Nobody, {}))
      <4>1. c.alive = k.alive /\ c.session = {} /\ c.on = Nobody
        BY <3>5, <3>8
      <4> QED
        BY <4>1
    <3>9. CASE /\ line.type = "prompt"
               /\ c = Says([d EXCEPT !.on = line.call, !.session = d.session \cup {line.call}],
                           Event("accept", line.call, {}))
      <4>1. c.alive = k.alive /\ c.session = k.session \cup {line.call} /\ c.on = line.call
        BY <3>6, <3>9
      <4> QED
        BY <3>9, <4>1
    <3> QED
      BY <3>3, <3>7, <3>8, <3>9
  <2>6. LinkType(c, conn[r])
    BY <1>1, <2>2, <2>5 DEF LinkType, Calls
  <2> HIDE DEF c
  <2>7. conn' = [conn EXCEPT ![r] = conn[r]]
    BY <1>2, <2>1
  <2> QED
    BY <1>1, <2>1, <2>3, <2>4, <2>6, <2>7, LinkTypes, TypesAgain
<1>6. CASE Answer(r)
  <2> DEFINE d == [child[r] EXCEPT !.on = Nobody]
             c == Says(d, Event("end", child[r].on, child[r].session))
  <2>1. /\ UNCHANGED <<next, halted, worker, conn, result, program, bought, faults>>
        /\ child' = [child EXCEPT ![r] = c]
    BY <1>6 DEF Answer, pool
  <2>2. c.alive = child[r].alive /\ c.session = child[r].session /\ c.on = Nobody
    BY <1>2 DEF Says, ChildNames
  <2>3. LinkType(c, conn[r])
    BY <1>1, <2>2 DEF LinkType
  <2> HIDE DEF c
  <2>4. conn' = [conn EXCEPT ![r] = conn[r]]
    BY <1>2, <2>1
  <2> QED
    BY <1>1, <2>1, <2>3, <2>4, LinkTypes, TypesAgain
<1>7. CASE Dies(r)
  <2> DEFINE c == [child[r] EXCEPT !.alive = FALSE]
  <2>1. /\ UNCHANGED <<next, halted, worker, conn, result, program, bought>>
        /\ child' = [child EXCEPT ![r] = c] /\ faults' \in 0..MaxFaults
    BY <1>1, <1>7 DEF Dies, pool
  <2>2. ~c.alive /\ c.session = child[r].session /\ c.on = child[r].on
    BY <1>2, Piped
  <2>3. LinkType(c, conn[r])
    BY <1>1, <2>2 DEF LinkType
  <2> HIDE DEF c
  <2>4. conn' = [conn EXCEPT ![r] = conn[r]]
    BY <1>2, <2>1
  <2> QED
    BY <1>1, <2>1, <2>3, <2>4, LinkTypes, TypesAgain
<1> QED
  BY <1>3, <1>4, <1>5, <1>6, <1>7

\* The pool, its runners and their processes keep their types; in particular
\* no call is restarted more often than the limit allows.
THEOREM TypeCorrect == Spec => []TypeOK
<1>1. Init => TypeOK
  <2> SUFFICES ASSUME Init PROVE TypeOK
    OBVIOUS
  <2>1. 0 \in 0..MaxRestarts /\ 0 \in 0..Items /\ 0 \in 0..MaxFaults
    OBVIOUS
  <2>2. AtRest \in WorkerRecords /\ Unanswered \in ResultRecords
    BY <2>1 DEF AtRest, WorkerRecords, Unanswered, ResultRecords, Accepted, Outcomes
  <2>3. \A r \in Runners : LinkType(child[r], conn[r])
    BY NewbornTypes DEF Init
  <2>4. /\ worker \in [Runners -> WorkerRecords] /\ result \in [Calls -> ResultRecords]
        /\ conn \in [Runners -> {"none", "up", "down"}] /\ bought \in [Calls -> Nat]
    BY <2>2 DEF Init
  <2> QED
    BY <2>1, <2>3, <2>4, TypesInParts DEF Init
<1>2. Inv /\ TypeOK /\ [Next]_vars => TypeOK'
  <2> SUFFICES ASSUME Inv, TypeOK, [Next]_vars PROVE TypeOK'
    OBVIOUS
  <2>1. CASE UNCHANGED vars
    BY <2>1 DEF vars, pool, link, TypeOK
  <2> QED
    BY <2>1, WorkerStepTypes, ProcessStepTypes DEF Next
<1> QED
  BY <1>1, <1>2, InvAlways, PTL DEF Spec

-----------------------------------------------------------------------------
(* The pool implements a prompt service *)

Begun == {i \in Calls : i < next}

\* What complete() returns for an item that had no reply is its reply.
LEMMA ReplyMade ==
  ASSUME Inv, Inv', NEW r \in Runners, worker[r].pc \notin {"idle", "done"},
         result[Item(r)].outcome = "none",
         NEW x, x.outcome # "none", x.outcome = "ok" => x.accepted = "yes",
         result' = [result EXCEPT ![Item(r)] = x], UNCHANGED <<next, halted, bought>>
  PROVE  Service!Next
<1> DEFINE i == Item(r)
<1>1. i \in Calls /\ i \in Begun /\ Begun' = Begun
  BY Busy DEF Inv, Ahead, Begun
<1>2. result'[i] = x /\ \A j \in Calls \ {i} : result'[j] = result[j]
  BY <1>1 DEF Inv, Shapes
<1>3. ResultOK(i, bought[i], x)
  BY <1>1, <1>2 DEF Inv, Settled
<1>4. Service!Tells(i, result'[i])
  BY <1>2, <1>3 DEF Service!Tells, ResultOK
<1>5. Service!Reply(i)
  BY <1>1, <1>2, <1>4 DEF Service!Reply, Begun
<1> QED
  BY <1>1, <1>5 DEF Service!Next

LEMMA ReturnsReplies ==
  ASSUME Inv, Inv', NEW r \in Runners, worker[r].pc \notin {"idle", "done"},
         result[Item(r)].outcome = "none", NEW o, o \notin {"none", "ok"}, NEW a,
         Returns(r, o, a), UNCHANGED <<next, halted, bought>>
  PROVE  Service!Next
<1> DEFINE x == [result[Item(r)] EXCEPT !.outcome = o, !.accepted = a]
<1>1. DOMAIN result[Item(r)] = ResultNames
  BY Busy DEF ResultOK
<1>2. x.outcome = o
  BY <1>1, Returned
<1>3. result' = [result EXCEPT ![Item(r)] = x]
  BY Same DEF Returns
<1> HIDE DEF x
<1> QED
  BY <1>2, <1>3, ReplyMade

LEMMA FailedReplies ==
  ASSUME Inv, Inv', NEW r \in Runners, worker[r].pc \notin {"idle", "done"},
         result[Item(r)].outcome = "none", NEW a, Failed(r, a), UNCHANGED <<next, halted, bought>>
  PROVE  Service!Next \/ UNCHANGED Service!vars
<1>1. CASE UNCHANGED result
  BY <1>1 DEF Service!vars
<1>2. CASE Returns(r, "timeout:process_crash", a)
  BY <1>2, ReturnsReplies
<1> QED
  BY <1>1, <1>2 DEF Failed

\* The pool gives its items out in order until one of them has failed.
LEMMA PoolServes ==
  ASSUME Inv, TypeOK, NEW r \in Runners, Take(r) \/ Return(r)
  PROVE  Service!Next \/ UNCHANGED Service!vars
<1>1. next \in Nat /\ halted \in BOOLEAN /\ Calls \subseteq Int
  BY DEF TypeOK, Calls
<1>2. CASE Take(r)
  <2>1. UNCHANGED <<bought, result, halted>>
    BY <1>2 DEF Take
  <2>2. CASE UNCHANGED next
    BY <2>1, <2>2 DEF Service!vars
  <2>3. CASE ~halted /\ next' = next + 1 /\ next > Items
    <3>1. Begun' = Begun
      BY <1>1, <2>3 DEF Begun, Calls
    <3> QED
      BY <2>1, <3>1 DEF Service!vars, Begun
  <2>4. CASE ~halted /\ next' = next + 1 /\ next \in Calls
    <3>1. /\ next \in Calls \ Begun /\ Begun' = Begun \cup {next}
          /\ \A j \in Calls : j < next => j \in Begun
      <4>1. \A j \in Calls : j < next' <=> j < next \/ j = next
        BY <1>1, <2>4
      <4>2. ~(next < next)
        BY <1>1
      <4> QED
        BY <2>4, <4>1, <4>2 DEF Begun
    <3>2. Service!Begin
      BY <2>1, <2>4, <3>1 DEF Service!Begin, Begun
    <3> QED
      BY <3>2 DEF Service!Next
  <2>5. next > Items \/ next \in Calls \/ next = 0
    BY <1>1 DEF Calls
  <2>6. CASE ~halted /\ next' = next + 1 /\ next = 0
    <3>1. Begun' = Begun
      BY <2>6 DEF Begun, Calls
    <3> QED
      BY <2>1, <3>1 DEF Service!vars, Begun
  <2> QED
    BY <1>2, <2>2, <2>3, <2>4, <2>5, <2>6 DEF Take
<1>3. CASE Return(r)
  <2>1. UNCHANGED <<next, result, bought>> /\ (halted' = halted \/ halted' = TRUE)
    BY <1>3 DEF Return
  <2> QED
    BY <1>1, <2>1 DEF Service!Next, Service!Halt, Service!vars
<1> QED
  BY <1>2, <1>3

\* Where complete() is, the item has no reply yet.
LEMMA CompleteServes ==
  ASSUME Inv, Inv', NEW r \in Runners,
         \/ Warm(r) \/ Send(r) \/ Hear(r) \/ Overflow(r) \/ TimeOut(r) \/ ExitEvent(r)
  PROVE  Service!Next \/ UNCHANGED Service!vars
<1> USE DEF At, pool
<1>1. UNCHANGED <<next, halted, bought>>
  BY DEF Warm, Send, Hear, Overflow, TimeOut, ExitEvent
<1>2. worker[r].pc \in {"warm", "send", "turn"} => result[Item(r)].outcome = "none"
  BY Busy DEF Stage
<1>3. CASE UNCHANGED result
  BY <1>1, <1>3 DEF Service!vars
<1>4. ASSUME worker[r].pc \in {"warm", "send", "turn"},
             \/ Returns(r, "timeout:process_unavailable", "no")
             \/ Returns(r, "error:prompt_rejected", "no")
             \/ Returns(r, "output_limit", "yes")
             \/ Returns(r, "timeout", worker[r].accepted)
      PROVE  Service!Next
  BY <1>1, <1>2, <1>4, ReturnsReplies
<1>5. ASSUME worker[r].pc \in {"send", "turn"}, NEW a, Failed(r, a)
      PROVE  Service!Next \/ UNCHANGED Service!vars
  BY <1>1, <1>2, <1>5, FailedReplies
<1>6. ASSUME worker[r].pc = "turn", NEW e,
             result' = [result EXCEPT ![Item(r)] =
               [outcome |-> "ok", accepted |-> "yes", of |-> e.call, seen |-> e.seen]]
      PROVE  Service!Next
  <2> DEFINE x == [outcome |-> "ok", accepted |-> "yes", of |-> e.call, seen |-> e.seen]
  <2>1. x.outcome = "ok" /\ x.accepted = "yes" /\ result' = [result EXCEPT ![Item(r)] = x]
    BY <1>6
  <2> HIDE DEF x
  <2> QED
    BY <1>1, <1>2, <1>6, <2>1, ReplyMade
<1>7. CASE Warm(r)
  BY <1>3, <1>4, <1>7 DEF Warm
<1>8. CASE Send(r)
  BY <1>3, <1>5, <1>8 DEF Send
<1>9. CASE Hear(r)
  BY <1>3, <1>4, <1>6, <1>9 DEF Hear
<1>10. CASE Overflow(r) \/ TimeOut(r)
  BY <1>4, <1>10 DEF Overflow, TimeOut
<1>11. CASE ExitEvent(r)
  BY <1>3, <1>5, <1>11 DEF ExitEvent
<1> QED
  BY <1>7, <1>8, <1>9, <1>10, <1>11

\* A process takes up the prompt of a call that has no reply, or one that
\* does not say.
LEMMA ServeServes ==
  ASSUME Inv, NEW r \in Runners, Serve(r)
  PROVE  Service!Next \/ UNCHANGED Service!vars
<1> DEFINE i == Item(r)
           line == Head(child[r].stdin)
<1>1. UNCHANGED <<next, halted, result>> /\ child[r].alive /\ child[r].stdin # <<>>
  BY DEF Serve, pool
<1>2. CASE UNCHANGED bought
  BY <1>1, <1>2 DEF Service!vars
<1>3. CASE line.type = "prompt" /\ bought' = [bought EXCEPT ![line.call] = bought[line.call] + 1]
  <2>1. /\ i \in Calls /\ line.call = i /\ bought[i] = 0
        /\ result[i].outcome = "none" \/ result[i].accepted = "null"
    <3>1. /\ i \in Calls
          /\ \/ line = Line("prompt", i) /\ bought[i] = 0
                /\ (worker[r].pc = "turn" \/ result[i].accepted = "null")
             \/ line \in {Line("abort", i), Line("new_session", Nobody)}
      <4> HIDE DEF i, line
      <4> QED
        BY <1>1, ServeLine DEF Sent, i, line
    <3>2. worker[r].pc = "turn" => result[i].outcome = "none"
      BY TurnFacts
    <3> HIDE DEF line, i
    <3> QED
      BY <1>3, <3>1, <3>2 DEF Line
  <2>2. i \in Begun /\ Begun' = Begun
    BY <1>1, <2>1 DEF Inv, Ahead, Begun
  <2>3. bought' = [bought EXCEPT ![i] = 1]
    <3>1. bought' = [bought EXCEPT ![i] = bought[i] + 1] /\ bought[i] + 1 = 1
      <4> HIDE DEF line
      <4> QED
        BY <1>3, <2>1
    <3> QED
      BY <3>1
  <2>4. Service!TakeUp(i)
    BY <1>1, <2>1, <2>2, <2>3 DEF Service!TakeUp, Begun
  <2> QED
    BY <2>1, <2>4 DEF Service!Next
<1> QED
  BY <1>2, <1>3 DEF Serve

LEMMA ServiceNext ==
  ASSUME Inv, Inv', TypeOK, [Next]_vars
  PROVE  [Service!Next]_(Service!vars)
<1>1. CASE UNCHANGED vars
  BY <1>1 DEF vars, pool, Service!vars
<1>2. ASSUME NEW r \in Runners,
             \/ NewSession(r) \/ HearFresh(r) \/ SessionTimeOut(r) \/ Close(r) \/ Respawn(r)
             \/ Unheard(r) \/ Answer(r) \/ Dies(r)
      PROVE  UNCHANGED Service!vars
  <2>1. UNCHANGED <<next, halted, bought, result>>
    BY <1>2 DEF NewSession, HearFresh, SessionTimeOut, Close, Respawn, Unheard, Answer, Dies, pool
  <2> QED
    BY <2>1 DEF Service!vars
<1> QED
  BY <1>1, <1>2, PoolServes, CompleteServes, ServeServes DEF Next, RunnerStep

\* Every behaviour of the pool, its runners and their processes is one of a
\* prompt service: calls begin in order, a prompt is taken up once at most and
\* never after a "no", and each has one reply, which is its own.
THEOREM PoolIsService == Spec => ImplementsService
<1>1. Init => Service!Init
  BY DEF Init, Service!Init, Unanswered, Calls
<1>2. Inv /\ Inv' /\ TypeOK /\ [Next]_vars => [Service!Next]_(Service!vars)
  BY ServiceNext
<1> QED
  BY <1>1, <1>2, InvAlways, TypeCorrect, PTL DEF Spec, ImplementsService, Service!Spec
=============================================================================
