--------------------------- MODULE SupervisedRun ---------------------------
(***************************************************************************)
(* Long paid runs under the terminal controller:                           *)
(* tools/tui-run-controller.mjs, the program of                            *)
(* tools/wide-context-extractor.mjs that it spawns, and the cooperative    *)
(* stop of tools/graceful-stop.mjs between them.                           *)
(*                                                                         *)
(* A run claims units through the queue, writes a started receipt before   *)
(* it buys and a completion after, drains on SIGINT, and leaves an         *)
(* artifact; the controller admits, spawns and adopts runs, and records    *)
(* how each ended.  Its key handlers are asynchronous, so that several may *)
(* be in start() at once; it may die and come back, and the detached runs  *)
(* go on without it.  What CustodiedInference, UnitQueue and               *)
(* CheckpointJournal say of one session in detail is a step here.  A unit  *)
(* is given one attempt, as under every contract without a retry policy.   *)
(***************************************************************************)
EXTENDS Integers, FiniteSets

CONSTANTS
  Units,
  Handlers,      \* key presses that may be served at one time
  Concurrency,   \* workers of a run
  MaxRuns, MaxFaults   \* bounds of spawns, and of deaths of runs and controllers

ASSUME SupervisedAssumption ==
  /\ IsFiniteSet(Units) /\ Concurrency \in Nat \ {0}
  /\ MaxRuns \in Nat /\ MaxFaults \in Nat

Runs == 1..MaxRuns
NoRun == 0
Receipts == {"none", "started", "ok", "failed"}
Outputs == {"absent", "stopped", "incomplete", "complete"}   \* "stopped": incomplete, work pending
Verdicts == {"none", "paused", "failed", "complete"}

VARIABLES
  journal,   \* the last receipt of a unit in the checkpoint
  opened,    \* the checkpoint exists
  bought,    \* how often a unit was dispatched, over all runs
  output,    \* the requested artifact
  run,       \* the runs, spawned in the order of their numbers
  spawned,
  handler,   \* the start() of each key handler
  owned,     \* `state` in the controller's memory
  saved,     \* ... and in its file
  watching,  \* the runs whose exit has a listener
  faults,
  \* history
  raced      \* two start() at once, an exit heard too late, or a run forgotten

paid == <<journal, opened, bought>>
control == <<handler, owned, saved, watching>>
vars == <<journal, opened, bought, output, run, spawned, handler, owned, saved,
          watching, faults, raced>>

RunRecords ==
  [pc : {"none", "boot", "work", "write", "exit", "gone"}, known : [Units -> Receipts],
   unit : [Units -> {"pending", "leased", "ok", "quarantined", "skipped"}],
   aborted : BOOLEAN, stopped : BOOLEAN,
   code : {"none", "0", "75", "error", "cut"}]
Calls == [pc : {"idle", "spawn", "own", "save"}, run : Runs \cup {NoRun}]
States == [run : Runs \cup {NoRun}, exit : Verdicts]

Unspawned == [pc |-> "none", known |-> [u \in Units |-> "none"],
              unit |-> [u \in Units |-> "pending"],
              aborted |-> FALSE, stopped |-> FALSE, code |-> "none"]
Resting == [pc |-> "idle", run |-> NoRun]
NoState == [run |-> NoRun, exit |-> "none"]

Init ==
  /\ journal = [u \in Units |-> "none"] /\ opened = FALSE
  /\ bought = [u \in Units |-> 0] /\ output = "absent"
  /\ run = [r \in Runs |-> Unspawned] /\ spawned = 0
  /\ handler = [h \in Handlers |-> Resting]
  /\ owned = NoState /\ saved = NoState /\ watching = {}
  /\ faults = 0 /\ raced = FALSE

Live(r) == run[r].pc \notin {"none", "gone"}
InState(r, s) == {u \in Units : run[r].unit[u] = s}
Orphans == {u \in Units : journal[u] = "started"}

-----------------------------------------------------------------------------
(* A run: the main of the extractor *)

\* Of a run that is over, its units and its exit code are remembered.
End(r, code) ==
  [run EXCEPT ![r] = [Unspawned EXCEPT !.pc = "gone", !.unit = run[r].unit, !.code = code]]

\* The stop is installed and the journal opened; before that, the sources or
\* the journal's header may refuse.
Open(r) ==
  /\ run[r].pc = "boot"
  /\ \/ /\ run' = [run EXCEPT ![r].pc = "work", ![r].known = journal]
        /\ opened' = TRUE
     \/ run' = End(r, "error") /\ UNCHANGED opened
  /\ UNCHANGED <<journal, bought, output, spawned, control, faults, raced>>

Admits(r) == ~run[r].aborted /\ ~run[r].stopped

Settle(r, u, state) == run' = [run EXCEPT ![r].unit[u] = state]

\* The budget grants the call, and its receipt is written first.  What a run
\* has spent only grows: a cap that was reached once stays so.
Buy(r, u) ==
  /\ run[r].known[u] = "none" /\ InState(r, "skipped") = {} /\ Settle(r, u, "leased")
  /\ journal' = [journal EXCEPT ![u] = IF @ = "none" THEN "started" ELSE @]
  /\ bought' = [bought EXCEPT ![u] = @ + 1]

\* A cap is reached: the unit is skipped without a receipt, and the queue
\* goes on to the next.
Skip(r, u) ==
  run[r].known[u] = "none" /\ Settle(r, u, "skipped") /\ UNCHANGED <<journal, bought>>

\* An answer has overdrawn the budget: its refusal stops the queue.
Refuse(r, u) ==
  /\ run[r].known[u] = "none" /\ InState(r, "ok") \cup InState(r, "quarantined") # {}
  /\ run' = [run EXCEPT ![r].unit[u] = "quarantined", ![r].stopped = TRUE]
  /\ UNCHANGED <<journal, bought>>

\* A completion read from the checkpoint is replayed; a receipt without one
\* is given the completion of a call of unknown acceptance.
Replay(r, u) ==
  /\ run[r].known[u] # "none"
  /\ Settle(r, u, IF run[r].known[u] = "ok" THEN "ok" ELSE "quarantined")
  /\ journal' = [journal EXCEPT ![u] = IF run[r].known[u] = "started" THEN "failed" ELSE @]
  /\ UNCHANGED bought

Claim(r, u) ==
  /\ run[r].pc = "work" /\ Admits(r) /\ run[r].unit[u] = "pending"
  /\ Cardinality(InState(r, "leased")) < Concurrency
  /\ Buy(r, u) \/ Skip(r, u) \/ Refuse(r, u) \/ Replay(r, u)
  /\ UNCHANGED <<opened, output, spawned, control, faults, raced>>

\* The answer is recorded; a failure, or the rate of failures, may stop the
\* queue.
Finish(r, u) ==
  /\ run[r].pc = "work" /\ run[r].unit[u] = "leased"
  /\ \E ok \in BOOLEAN, stop \in {run[r].stopped, TRUE} :
       /\ run' = [run EXCEPT ![r].unit[u] = IF ok THEN "ok" ELSE "quarantined",
                             ![r].stopped = stop]
       /\ journal' = [journal EXCEPT ![u] = IF ok THEN "ok" ELSE "failed"]
  /\ UNCHANGED <<opened, bought, output, spawned, control, faults, raced>>

\* Mutants: an aborted run does not wait for what it dispatched, or waits
\* for what it will not claim.
StopsAtOnce(r) == run[r].aborted \/ (InState(r, "leased") = {} /\ InState(r, "pending") = {})
WaitsForAll(r) == InState(r, "leased") = {} /\ InState(r, "pending") = {}

\* runQueue returns.
Drained(r) ==
  /\ InState(r, "leased") = {}
  /\ InState(r, "pending") = {} \/ ~Admits(r)

\* The journal is closed and the signal handlers are removed.
EndQueue(r) ==
  /\ run[r].pc = "work" /\ Drained(r)
  /\ run' = [run EXCEPT ![r].pc = "write"]
  /\ UNCHANGED <<paid, output, spawned, control, faults, raced>>

Paused(r) == run[r].aborted /\ InState(r, "pending") \cup InState(r, "leased") # {}

\* Mutant: a run with units left is called paused in its place.
PausedInPlace(r) == IF InState(r, "pending") # {} THEN {"paused"} ELSE {"complete"}

\* classifyWideContextResultStatus of a run that is not paused, and whether
\* the artifact counts pending units.  Skipped units do not count; a truncated
\* or an unpriced answer, which is data here, leaves the result incomplete.
Status(r) ==
  IF InState(r, "pending") # {} THEN {"stopped"}
  ELSE IF InState(r, "quarantined") # {} \/ run[r].stopped THEN {"incomplete"}
  ELSE {"incomplete", "complete"}

\* A paused artifact goes beside the requested output, which it leaves alone.
Write(r) ==
  /\ run[r].pc = "write"
  /\ run' = [run EXCEPT ![r].pc = "exit", ![r].code = IF Paused(r) THEN "75" ELSE "0"]
  /\ output' \in IF Paused(r) THEN {output} ELSE Status(r)
  /\ UNCHANGED <<paid, spawned, control, faults, raced>>

Leave(r) ==
  /\ run[r].pc = "exit" /\ run' = End(r, run[r].code)
  /\ UNCHANGED <<paid, output, spawned, control, faults, raced>>

RunStep(r) ==
  Open(r) \/ EndQueue(r) \/ Write(r) \/ Leave(r) \/ \E u \in Units : Claim(r, u) \/ Finish(r, u)

\* SIGINT: heard while the handlers are installed, the end before and after.
Interrupted(r) ==
  IF run[r].pc = "work" THEN [run EXCEPT ![r].aborted = TRUE] ELSE End(r, "error")

\* The process is killed, or its journal cannot be written any more.
Dies(r) ==
  /\ Live(r) /\ faults < MaxFaults /\ faults' = faults + 1
  /\ run' = End(r, "cut")
  /\ UNCHANGED <<paid, output, spawned, control, raced>>

-----------------------------------------------------------------------------
(* The controller *)

\* Mutant: any state at all is taken for an old one.
NobodyRuns == FALSE

\* runningNow: the process `state` names still has that identity.
Running == owned.run # NoRun /\ Live(owned.run)

\* A fresh start finds neither checkpoint nor output; a resume finds a
\* checkpoint without orphans and an output it may replace.
Admissible(mode) ==
  IF mode = "start"
  THEN ~opened /\ output = "absent"
  ELSE opened /\ Orphans = {} /\ output # "complete"

\* start() up to its gates; another start() may be under way.
Ask(h) ==
  /\ handler[h].pc = "idle" /\ ~Running /\ spawned < MaxRuns
  /\ \E mode \in {"start", "resume"} : Admissible(mode)
  /\ handler' = [handler EXCEPT ![h].pc = "spawn"]
  /\ raced' = (raced \/ \E g \in Handlers : handler[g].pc # "idle")
  /\ UNCHANGED <<paid, output, run, spawned, owned, saved, watching, faults>>

\* After the paid gate, the load and the list of models.
Spawn(h) ==
  /\ handler[h].pc = "spawn" /\ spawned < MaxRuns
  /\ spawned' = spawned + 1
  /\ run' = [run EXCEPT ![spawned + 1].pc = "boot"]
  /\ handler' = [handler EXCEPT ![h].pc = "own", ![h].run = spawned + 1]
  /\ UNCHANGED <<paid, output, owned, saved, watching, faults, raced>>

\* The exits of earlier runs have been heard: start() does not wait for the
\* listener, which completes whatever `state` it finds.
AllHeard == \A r \in watching : Live(r)

\* The identity of the process is found, or it has exited before.
Own(h) ==
  LET r == handler[h].run IN
  /\ handler[h].pc = "own" /\ raced' = (raced \/ ~AllHeard)
  /\ IF Live(r)
     THEN /\ owned' = [run |-> r, exit |-> "none"]
          /\ handler' = [handler EXCEPT ![h].pc = "save"]
     ELSE handler' = [handler EXCEPT ![h] = Resting] /\ UNCHANGED owned
  /\ UNCHANGED <<paid, output, run, spawned, saved, watching, faults>>

\* The state is in its file, and only now the exit gets its listener: one
\* that came before is not heard, nor any if the file cannot be written.
Save(h) ==
  LET r == handler[h].run IN
  /\ handler[h].pc = "save"
  /\ \/ /\ saved' = [run |-> r, exit |-> "none"]
        /\ watching' = watching \cup {x \in {r} : Live(x)}
     \/ UNCHANGED <<saved, watching>>
  /\ handler' = [handler EXCEPT ![h] = Resting]
  /\ UNCHANGED <<paid, output, run, spawned, owned, faults, raced>>

\* Mutant: exit 0 is success.
ExitZero(code, artifact) ==
  CASE code = "75" -> "paused" [] code = "0" -> "complete" [] OTHER -> "failed"

\* classifyRunnerCompletion
Classified(code, artifact) ==
  CASE code = "75" -> "paused"
    [] code = "0" /\ artifact = "stopped" -> "paused"
    [] code = "0" /\ artifact = "complete" -> "complete"
    [] OTHER -> "failed"

\* The listener: what it reads of the artifact is what is there by then, and
\* the state it completes is the one of now.
Hear(r) ==
  /\ r \in watching /\ ~Live(r)
  /\ owned' = [owned EXCEPT !.exit = Classified(run[r].code, output)]
  /\ saved' = owned' /\ watching' = watching \ {r}
  /\ UNCHANGED <<paid, output, run, spawned, handler, faults, raced>>

\* A pause, asked for with a key or by the load of the host.
Stop ==
  /\ Running /\ run' = Interrupted(owned.run)
  /\ UNCHANGED <<paid, output, spawned, control, faults, raced>>

\* SIGKILL to the process group.
ForceStop ==
  /\ Running /\ run' = End(owned.run, "cut")
  /\ UNCHANGED <<paid, output, spawned, control, faults, raced>>

\* The controller dies and is started again: it reads its file.  A run that
\* lives and is not there is unknown to it.
Restart ==
  /\ faults < MaxFaults /\ faults' = faults + 1
  /\ raced' = (raced \/ \E r \in Runs : Live(r) /\ r # saved.run)
  /\ handler' = [h \in Handlers |-> Resting]
  /\ owned' = saved /\ watching' = {}
  /\ UNCHANGED <<paid, output, run, spawned, saved>>

Next ==
  \/ \E r \in Runs : RunStep(r) \/ Dies(r) \/ Hear(r)
  \/ \E h \in Handlers : Ask(h) \/ Spawn(h) \/ Own(h) \/ Save(h)
  \/ Stop \/ ForceStop \/ Restart

\* A run goes on by itself: its calls have timeouts.
Spec == Init /\ [][Next]_vars /\ \A r \in Runs : WF_vars(RunStep(r))

-----------------------------------------------------------------------------
(* What the runs of one checkpoint implement *)

\* What the receipt of a unit says of its one call.
Answer ==
  [u \in Units |-> CASE journal[u] = "none" -> "none"
                    [] journal[u] = "started" -> "awaited"
                    [] journal[u] = "ok" -> "valid"
                    [] OTHER -> "failed"]

Paid == INSTANCE PaidWork WITH
          MaxAttempts <- 1, answer <- Answer, verdict <- [u \in Units |-> "open"]

\* While nothing raced, all the runs of a checkpoint together are one paid
\* work: a unit is bought once, by whichever run comes to it, what is learnt
\* is the answer to that call, and no later run buys or answers it again
\* (custodied-inference.mjs 495-512, wide-context-extractor.mjs 1513-1569).
ImplementsPaidWork == Paid!Init /\ [][~raced => [Paid!Next]_(Paid!vars)]_vars

-----------------------------------------------------------------------------
(* Properties *)

TypeOK ==
  /\ journal \in [Units -> Receipts] /\ opened \in BOOLEAN
  /\ bought \in [Units -> Nat] /\ output \in Outputs
  /\ run \in [Runs -> RunRecords] /\ spawned \in 0..MaxRuns
  /\ handler \in [Handlers -> Calls] /\ owned \in States /\ saved \in States
  /\ watching \subseteq Runs /\ raced \in BOOLEAN
  /\ faults \in 0..MaxFaults

\* A cooperative pause, whenever it comes, leaves no started receipt without
\* a completion: an orphan was in the hands of a run that is still at work,
\* or that was cut off (graceful-stop.mjs 1-3, unit-queue.mjs 185-224).
PauseLeavesNoOrphan ==
  \A u \in Orphans : \E r \in Runs :
    run[r].unit[u] = "leased" /\ (run[r].pc = "work" \/ run[r].code = "cut")

\* No unit is bought twice, through pauses, kills, resumes and restarts of
\* the controller, as long as no run is admitted past one the controller
\* does not know (tui-run-controller.mjs 369-386, custodied-inference.mjs
\* 495-512).
BoughtOnce == ~raced => \A u \in Units : bought[u] <= 1

\* What the controller recorded of the last run is true of the checkpoint:
\* after "complete" the output says so and every unit is answered, but for
\* those a cap of the budget refused, of which nothing was bought or lost;
\* after "paused" a resume will be admitted (tui-run-controller.mjs 150-188,
\* wide-context-extractor.mjs 90-99).
VerdictIsTrue ==
  (~raced /\ saved.run = spawned) =>
    /\ saved.exit = "complete" =>
         /\ output = "complete"
         /\ \A u \in Units :
              journal[u] = IF run[saved.run].unit[u] = "skipped" THEN "none" ELSE "ok"
    /\ saved.exit = "paused" => opened /\ Orphans = {} /\ output # "complete"

\* Every run ends, and a paused one after what it has in hand
\* (wide-context-extractor.mjs 1513-1666, graceful-stop.mjs 4-21).
EveryRunEnds == \A r \in Runs : Live(r) ~> ~Live(r)
=============================================================================
