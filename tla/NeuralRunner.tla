---------------------------- MODULE NeuralRunner ----------------------------
(***************************************************************************)
(* A pool of warm model processes (tools/neural-runner-pool.mjs,           *)
(* tools/neural-model-runner.mjs, tools/neural-rpc-transport.mjs).         *)
(*                                                                         *)
(* mapWithRunnerPool hands the items of a list to its runners, one at a    *)
(* time each.  A runner keeps one child process and talks to it over two   *)
(* pipes: a prompt and the events of its turn, then a new session, so that *)
(* no answer sees an earlier prompt.  The process may be slow, refuse,     *)
(* say too much, or die at any point, and its death is noticed later than  *)
(* it happens.                                                             *)
(***************************************************************************)
EXTENDS Integers, Sequences

CONSTANTS
  Runners,
  Items,         \* length of the list
  MaxRestarts,   \* maxCallRestarts
  MaxFaults      \* bound of deaths and failed spawns

ASSUME RunnerAssumption ==
  Items \in Nat /\ MaxRestarts \in Nat /\ MaxFaults \in Nat

Calls == 1..Items
Nobody == 0

VARIABLES
  next, halted,   \* the pool: nextIndex, stopped
  worker,         \* a worker of the pool, and the complete() it waits for
  conn,           \* the connection of a runner: none, up, or known closed
  child,          \* its process: the pipes, the session, what it works on
  result,         \* what complete() returned for an item
  program,        \* the program these run in: up or down
  \* history
  bought,         \* how often a process took up the prompt of an item
  faults

pool == <<next, halted>>
link == <<conn, child>>
vars == <<pool, worker, link, result, program, bought, faults>>

NoChild == [alive |-> FALSE, stdin |-> <<>>, stdout |-> <<>>, session |-> {}, on |-> Nobody]
Fresh == [NoChild EXCEPT !.alive = TRUE]
Unanswered == [outcome |-> "none", accepted |-> "null", of |-> Nobody, seen |-> {}]
AtRest == [pc |-> "idle", item |-> Nobody, restarts |-> 0, accepted |-> "null", then |-> "return"]

Init ==
  /\ next = 1 /\ halted = FALSE
  /\ worker = [r \in Runners |-> AtRest]
  /\ conn = [r \in Runners |-> "none"] /\ child = [r \in Runners |-> NoChild]
  /\ result = [i \in Calls |-> Unanswered]
  /\ program = "up" /\ bought = [i \in Calls |-> 0] /\ faults = 0

At(r, pc) == program = "up" /\ worker[r].pc = pc
Item(r) == worker[r].item
GoTo(r, pc) == worker' = [worker EXCEPT ![r].pc = pc]

\* teardown, and then either the end of complete() or a new process first.
Teardown(r, then) == worker' = [worker EXCEPT ![r].pc = "close", ![r].then = then]

Returns(r, outcome, accepted) ==
  result' = [result EXCEPT ![Item(r)].outcome = outcome, ![Item(r)].accepted = accepted]

\* A line into the pipe of a process that is gone is lost, or it raises an
\* error on a stream nobody listens to, which ends the program.
Put(c, line) == IF c.alive THEN [c EXCEPT !.stdin = Append(@, line)] ELSE c
MayEnd(c) == program' \in IF c.alive THEN {program} ELSE {program, "down"}
Written(r, line) ==
  child' = [child EXCEPT ![r] = Put(@, line)] /\ MayEnd(child[r])

-----------------------------------------------------------------------------
(* The pool *)

\* A worker takes the next item, unless one has failed or none is left.
Take(r) ==
  /\ At(r, "idle")
  /\ IF halted THEN GoTo(r, "done") /\ UNCHANGED next
     ELSE /\ next' = next + 1
          /\ worker' = [worker EXCEPT ![r] =
               IF next > Items THEN [@ EXCEPT !.pc = "done"]
               ELSE [AtRest EXCEPT !.pc = "warm", !.item = next]]
  /\ UNCHANGED <<halted, link, result, program, bought, faults>>

\* processItem resolves, or throws for what it got.
Return(r) ==
  /\ At(r, "return")
  /\ \/ GoTo(r, "idle") /\ UNCHANGED halted
     \/ GoTo(r, "done") /\ halted' = TRUE
  /\ UNCHANGED <<next, link, result, program, bought, faults>>

-----------------------------------------------------------------------------
(* complete() *)

Spawned(r) ==
  conn' = [conn EXCEPT ![r] = "up"] /\ child' = [child EXCEPT ![r] = Fresh] /\ UNCHANGED faults
SpawnFails == faults < MaxFaults /\ faults' = faults + 1 /\ UNCHANGED link

\* Mutant: one more.
MayRestartOnceMore(r) == worker[r].restarts <= MaxRestarts

MayRestart(r) == worker[r].restarts < MaxRestarts

\* ensureWarm; a process that cannot be had counts as a restart.
Warm(r) ==
  /\ At(r, "warm")
  /\ \/ conn[r] = "up" /\ GoTo(r, "send") /\ UNCHANGED <<link, result, faults>>
     \/ conn[r] # "up" /\ Spawned(r) /\ GoTo(r, "send") /\ UNCHANGED result
     \/ /\ conn[r] # "up" /\ SpawnFails
        /\ IF MayRestart(r)
           THEN worker' = [worker EXCEPT ![r].restarts = @ + 1] /\ UNCHANGED result
           ELSE GoTo(r, "return") /\ Returns(r, "timeout:process_unavailable", "no")
  /\ UNCHANGED <<pool, program, bought>>

\* The turn was rejected: only what certainly never left is tried again.
Failed(r, accepted) ==
  IF accepted = "no" /\ MayRestart(r)
  THEN /\ worker' = [worker EXCEPT ![r].pc = "close", ![r].then = "respawn",
                                   ![r].restarts = @ + 1]
       /\ UNCHANGED result
  ELSE Teardown(r, "return") /\ Returns(r, "timeout:process_crash", accepted)

\* runTurn: the listeners are on and the prompt is written, unless the
\* transport closed in the handoff.
Send(r) ==
  /\ At(r, "send")
  /\ IF conn[r] = "down"
     THEN Failed(r, "no") /\ UNCHANGED <<child, program>>
     ELSE /\ Written(r, [type |-> "prompt", call |-> Item(r)])
          /\ worker' = [worker EXCEPT ![r].pc = "turn", ![r].accepted = "null"]
          /\ UNCHANGED result
  /\ UNCHANGED <<pool, conn, bought, faults>>

\* Mutant: the next prompt joins the conversation.
NoReset == "return"

\* The context is reset after an answer; a process that is abandoned in its
\* turn is not used again.
AfterAnswer == "reset"

\* A line of the turn.  Its own response, or any event, counts as its
\* acceptance, and agent_end is its end.
Hear(r) ==
  /\ At(r, "turn") /\ child[r].stdout # <<>>
  /\ LET e == Head(child[r].stdout) IN
     CASE e.type = "accept" /\ e.call = Item(r) ->
            worker' = [worker EXCEPT ![r].accepted = "yes"] /\ UNCHANGED result
       [] e.type = "refuse" /\ e.call = Item(r) ->
            GoTo(r, AfterAnswer) /\ Returns(r, "error:prompt_rejected", "no")
       [] e.type = "end" ->
            /\ GoTo(r, AfterAnswer)
            /\ result' = [result EXCEPT ![Item(r)] =
                 [outcome |-> "ok", accepted |-> "yes", of |-> e.call, seen |-> e.seen]]
       [] OTHER -> UNCHANGED <<worker, result>>
  /\ child' = [child EXCEPT ![r].stdout = Tail(@)]
  /\ UNCHANGED <<pool, conn, program, bought, faults>>

\* The events of the turn are more than the limit: it is given up.
Overflow(r) ==
  LET abort == [type |-> "abort", call |-> Item(r)] IN
  /\ At(r, "turn") /\ child[r].stdout # <<>> /\ Head(child[r].stdout).type = "end"
  /\ child' = [child EXCEPT ![r] = Put([child[r] EXCEPT !.stdout = Tail(@)], abort)]
  /\ MayEnd(child[r])
  /\ Teardown(r, "return") /\ Returns(r, "output_limit", "yes")
  /\ UNCHANGED <<pool, conn, bought, faults>>

\* Mutant: a turn waits for its process.
NoTimer == FALSE

TimerArmed == TRUE

\* The turn has taken too long: an abort is written and nothing retried.
TimeOut(r) ==
  /\ At(r, "turn") /\ TimerArmed
  /\ Written(r, [type |-> "abort", call |-> Item(r)])
  /\ Teardown(r, "return") /\ Returns(r, "timeout", worker[r].accepted)
  /\ UNCHANGED <<pool, conn, bought, faults>>

\* newSession
NewSession(r) ==
  /\ At(r, "reset")
  /\ IF conn[r] = "down" THEN Teardown(r, "respawn") /\ UNCHANGED <<child, program>>
     ELSE Written(r, [type |-> "new_session", call |-> Nobody]) /\ GoTo(r, "fresh")
  /\ UNCHANGED <<pool, conn, result, bought, faults>>

\* Any answer to a new_session command is taken for the one waited for.
HearFresh(r) ==
  /\ At(r, "fresh") /\ child[r].stdout # <<>>
  /\ LET e == Head(child[r].stdout) IN
     CASE e.type = "fresh" -> GoTo(r, "return")
       [] e.type = "stale" -> Teardown(r, "respawn")
       [] OTHER -> UNCHANGED worker
  /\ child' = [child EXCEPT ![r].stdout = Tail(@)]
  /\ UNCHANGED <<pool, conn, result, program, bought, faults>>

SessionTimeOut(r) ==
  /\ At(r, "fresh") /\ Teardown(r, "respawn")
  /\ UNCHANGED <<pool, link, result, program, bought, faults>>

\* The end of teardown: the process has left, or it is killed.
Close(r) ==
  /\ At(r, "close") /\ GoTo(r, worker[r].then)
  /\ conn' = [conn EXCEPT ![r] = "none"] /\ child' = [child EXCEPT ![r] = NoChild]
  /\ UNCHANGED <<pool, result, program, bought, faults>>

\* The second half of restart(), whose failure is left to the next ensureWarm.
Respawn(r) ==
  /\ At(r, "respawn") /\ (Spawned(r) \/ SpawnFails)
  /\ GoTo(r, IF result[Item(r)].outcome = "none" THEN "warm" ELSE "return")
  /\ UNCHANGED <<pool, result, program, bought>>

\* Mutant: what was not accepted may be sent again.
ClosedIsRefused(accepted) == IF accepted = "yes" THEN "yes" ELSE "no"

\* What the runner makes of a process that closed in a turn.
ClosedVerdict(accepted) == IF accepted = "yes" THEN "yes" ELSE "null"

\* The exit of the process is noticed: its reader is detached, with what it
\* has not read, and whoever waits is told.
ExitEvent(r) ==
  /\ program = "up" /\ conn[r] = "up" /\ ~child[r].alive
  /\ conn' = [conn EXCEPT ![r] = "down"] /\ child' = [child EXCEPT ![r] = NoChild]
  /\ CASE worker[r].pc = "turn" -> Failed(r, ClosedVerdict(worker[r].accepted))
       [] worker[r].pc = "fresh" -> Teardown(r, "respawn") /\ UNCHANGED result
       [] OTHER -> UNCHANGED <<worker, result>>
  /\ UNCHANGED <<pool, program, bought, faults>>

\* A line that comes while nobody listens.
Unheard(r) ==
  /\ program = "up" /\ worker[r].pc \notin {"turn", "fresh"} /\ child[r].stdout # <<>>
  /\ child' = [child EXCEPT ![r].stdout = Tail(@)]
  /\ UNCHANGED <<pool, worker, conn, result, program, bought, faults>>

RunnerStep(r) ==
  \/ Take(r) \/ Return(r) \/ Warm(r) \/ Send(r) \/ Hear(r) \/ Overflow(r)
  \/ TimeOut(r) \/ NewSession(r) \/ HearFresh(r) \/ SessionTimeOut(r) \/ Close(r) \/ Respawn(r)

-----------------------------------------------------------------------------
(* The process *)

Says(c, e) == [c EXCEPT !.stdout = Append(@, e)]
Event(type, call, seen) == [type |-> type, call |-> call, seen |-> seen]

\* It takes up a prompt, or refuses it; a new session forgets what came
\* before, and an abort ends the turn.
Serve(r) ==
  /\ child[r].alive /\ child[r].stdin # <<>>
  /\ LET c == child[r]
         line == Head(c.stdin)
         d == [c EXCEPT !.stdin = Tail(@)]
         done == [d EXCEPT !.on = Nobody]
     IN \/ /\ line.type = "prompt" /\ c.on = Nobody
           /\ child' = [child EXCEPT ![r] =
                Says([d EXCEPT !.on = line.call, !.session = @ \cup {line.call}],
                     Event("accept", line.call, {}))]
           /\ bought' = [bought EXCEPT ![line.call] = @ + 1]
        \/ /\ line.type = "prompt"
           /\ child' = [child EXCEPT ![r] = Says(d, Event("refuse", line.call, {}))]
           /\ UNCHANGED bought
        \/ /\ line.type = "new_session"
           /\ \/ child' = [child EXCEPT ![r] =
                   Says([done EXCEPT !.session = {}], Event("fresh", Nobody, {}))]
              \/ child' = [child EXCEPT ![r] = Says(d, Event("stale", Nobody, {}))]
           /\ UNCHANGED bought
        \/ /\ line.type = "abort"
           /\ child' = [child EXCEPT ![r] =
                IF c.on = Nobody THEN d ELSE Says(done, Event("end", c.on, c.session))]
           /\ UNCHANGED bought
  /\ UNCHANGED <<pool, worker, conn, result, program, faults>>

Answer(r) ==
  /\ child[r].alive /\ child[r].on # Nobody
  /\ child' = [child EXCEPT ![r] =
       Says([@ EXCEPT !.on = Nobody], Event("end", child[r].on, child[r].session))]
  /\ UNCHANGED <<pool, worker, conn, result, program, bought, faults>>

Dies(r) ==
  /\ child[r].alive /\ faults < MaxFaults /\ faults' = faults + 1
  /\ child' = [child EXCEPT ![r].alive = FALSE]
  /\ UNCHANGED <<pool, worker, conn, result, program, bought>>

Next ==
  \E r \in Runners :
    RunnerStep(r) \/ ExitEvent(r) \/ Unheard(r) \/ Serve(r) \/ Answer(r) \/ Dies(r)

\* The program goes on and its timers fire; nothing is asked of a process.
Spec == Init /\ [][Next]_vars /\ \A r \in Runners : WF_vars(RunnerStep(r))

-----------------------------------------------------------------------------
(* What the pool implements *)

Service == INSTANCE PromptService WITH begun <- {i \in Calls : i < next}

\* The pool and its processes are a prompt service: calls begin in order, a
\* prompt is taken up once at most, and each has one reply, which is true of
\* its prompt then and stays so, whatever the process does afterwards.
ImplementsService == Service!Spec

-----------------------------------------------------------------------------
(* Properties *)

Accepted == {"yes", "no", "null"}
Outcomes == {"none", "ok", "error:prompt_rejected", "output_limit", "timeout",
             "timeout:process_crash", "timeout:process_unavailable"}

TypeOK ==
  /\ next \in Nat /\ halted \in BOOLEAN /\ program \in {"up", "down"}
  /\ worker \in [Runners -> [pc : {"idle", "warm", "send", "turn", "reset", "fresh", "close",
                                   "respawn", "return", "done"},
                             item : 0..Items, restarts : 0..MaxRestarts,
                             accepted : Accepted, then : {"return", "respawn"}]]
  /\ conn \in [Runners -> {"none", "up", "down"}]
  /\ \A r \in Runners : /\ child[r].session \subseteq Calls /\ child[r].on \in 0..Items
                        /\ child[r].alive => conn[r] = "up"
  /\ result \in [Calls -> [outcome : Outcomes, accepted : Accepted,
                           of : 0..Items, seen : SUBSET Calls]]
  /\ bought \in [Calls -> Nat] /\ faults \in 0..MaxFaults

\* Each answer is the answer to its own prompt, given in a conversation that
\* saw no other: "document N never sees document N-1", through refusals,
\* timeouts, deaths and restarts (neural-model-runner.mjs 110-114, 235-264).
AnswerIsOwn ==
  \A i \in Calls : result[i].outcome = "ok" => result[i].of = i /\ result[i].seen = {i}

\* No prompt is taken up twice, and what a receipt says of its acceptance is
\* so: "yes" was taken up and "no" never is (neural-model-runner.mjs 217-231,
\* 300-333, 350-351).
AcceptanceIsTrue ==
  \A i \in Calls :
    /\ bought[i] <= 1
    /\ result[i].outcome # "none" =>
         /\ result[i].accepted = "yes" => bought[i] = 1
         /\ result[i].accepted = "no" => bought[i] = 0

\* The pool settles, however its processes behave, unless the program is
\* brought down (neural-runner-pool.mjs 54-59, neural-model-runner.mjs 218).
PoolSettles == <>(program = "down" \/ \A r \in Runners : worker[r].pc = "done")
=============================================================================
