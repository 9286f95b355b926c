# A TLA+ model of Affinity Scrybe (ascrybe)

This directory holds TLA+ specifications of the stateful core of ascrybe, the
TLC configurations that model-check them, and proofs that the TLA+ proof system
checks. `PROJECT.json` maps every definition to the lines it models, lists the
runs, the mutants that show each property can fail, the hazards the properties
are for, and the findings. Paths below are relative to the repository, which
`PROJECT.json` calls `src/`.

## 1. The system

Ascrybe turns source repositories into a graph. A run goes through
*materialize* (git trees pinned by commit) - *extract* (a deterministic parser
per file) - *merge* - *remap* - *semantic claims* (documents read by a paid
model) - *project* (nodes and edges of one generation) - *stage* it in the graph
database under the `working` head - *promote* it to the `selected` head by
compare-and-set - serve it (query surface, dashboard). Most of the code is pure
transformation of large documents. What is hard is in seven places: the money
(model calls must not be paid twice), the journal (what was paid for must
survive a crash), the fleet (many calls at once, against a provider that may be
broken), the processes it talks to (slow, refusing or dead), the long run under
its controller (paused, killed and resumed), the shared cache of an update, and
the database (a reader must never see half a generation).

### Inventory

| Component | State | Operations | Interacts with | Hard behaviour | What makes it correct |
|---|---|---|---|---|---|
| Leased unit queue and worker fleet, `tools/unit-queue.mjs` | rows (state, lease, outcome, attempts), failure window, stop reason; workers' positions | claim, heartbeat, settle, sweep; admission ramp, abort | `processUnit` of the extractor, abort signal of the run controller | leases that expire under a live worker, late results, waiters that must be woken, a window that slides while units are in flight | leases are exclusive, nothing is redispatched blindly, outcomes are final and counted once, the overshoot is bounded, `runQueue` returns |
| Custodied inference, `tools/custodied-inference.mjs`, with `materialization-ledger.mjs` and `inference-custody.mjs` | journal records (start, completion, retry schedule, final), attempt loop of each unit | start, dispatch, complete, interrupt, schedule a retry, finalize, replay, inspect | journal (put/get), budget, runner | crash between any two steps, unknown acceptance, runner or journal that throws, resume | an attempt is sent once over all sessions, nothing is bought after a verdict, final records survive replay |
| Inference budget (same file) | accounted and reserved calls, known cost, unpriced attempts, sticky stop, waiters | beforeDispatch, waitBeforeDispatch, account | every concurrent unit | contention, lost wakeups, double counting | spend stays within the cap, waiters are released |
| Checkpoint journal, `tools/checkpoint-journal.mjs` | the file's lines, the map of values, the promise chain | open, repair, put, close | custody, and every other paid stage | torn writes, loss of power, failed writes, concurrent puts | what is acknowledged survives, one line per key, torn bytes only at the end |
| Estate projection, `tools/estate-graph-projection.mjs`, `estate-projection-heads.mjs`, `project-estate-map.mjs` | heads of each estate, projection records, rows | stage, promote, prune | graph database, concurrent operators, readers | query-by-query interleaving, operators that die, shared contents | what is selected is whole, labels are true, retention is bounded |
| Interpretation sidecar store, `tools/ontology/sidecar-store.mjs` | heads and records of interpretations | stage, promote, roll back, prune | graph database | as above, with rollback | as above |
| Extraction cache, `tools/extraction-cache.mjs` | entries and lock directories | lock, materialize, publish by rename | extraction | crash that leaves the lock | an entry is complete or absent |
| Delta builds, `tools/delta/*`, `delta-update-run.mjs`, `file-extraction-adapter.mjs` | cache entry and lock of each unit, manifest of each output | resolve, plan, reuse, quarantine, produce, publish, compare, exit | the file system, the ref, other updaters | readers take no lock and remove by path; locks have no owner; entries tear; the ref moves | what is staged is what a full build gives, a race never causes a refusal, every update ends |
| Evaluation journal, `tools/eval/journal.mjs`, `retry.mjs` | append-only file under locks | append, retry | evaluation commands | concurrent commands | no run is recorded twice |
| Runners, their pool and RPC transport, `tools/neural-model-runner.mjs`, `neural-rpc-transport.mjs`, `neural-runner-pool.mjs` | the pool's index, each runner's connection and restarts, two pipes, the process's conversation | take, warm, send, hear, time out, overflow, new session, close, respawn | custody, model processes | a process that refuses, is silent, says too much or dies unnoticed; late lines; unknown acceptance | an answer is that of its own prompt in its own conversation, acceptance is told truly, the pool settles |
| Run controller, `tools/tui-run-controller.mjs`, `graceful-stop.mjs`, `checkpoint-telemetry.mjs` | its state in memory and in its file, the exits it listens for | start, resume, stop, force stop, verdict, restart | the extractor's process, its checkpoint and its artifact | signals at any moment, overlapping key presses, its own death, exits nobody hears | a pause strands no paid call, nothing is bought twice, the recorded verdict is true |
| Wide context extraction, `tools/wide-context-extractor.mjs` | units of a run, checkpoint, artifact | open, claim, buy or replay, drain, write, leave | queue, custody, journal, controller | pauses and kills between any two steps, resumes | as the controller |
| Other callers of custody | stages, validators, policies | run stages through custody | custody | resumes | as custody |
| Campaign and coverage loops | candidates, receipts | generate, diagnose, route, stop | providers | termination | the loop stops |
| Canonical graph store, C3 projection | immutable artifacts | publish by rename | - | crash during publish | an artifact is whole |
| Graph content (merge, entity, semantic, dataflow, identity) | documents | pure functions | - | conservation | counts and identities are conserved |
| Source extraction | trees | parse, read git | - | - | determinism |
| Query surface | - | resolve a head, read its rows | database | a prune under a reader | an answer is of one whole generation |
| Dashboard, cartography, review tools | presentation | - | query surface | - | - |

## 2. Modules

| Module | What it is |
|---|---|
| `UnitQueue` | the queue and `runQueue`, one action per stretch of code between two awaits |
| `WorkList` | what the queue promises: units are handed out once and in order, each gets one outcome, the list closes for its caller or for a failure |
| `UnitQueue_proofs` | the inductive invariant of `UnitQueue`, the theorems from it, and the proof that the queue implements `WorkList` |
| `PaidWork` | what custody promises of a unit: buy, learn, buy again only after a known transient failure, one verdict; also what all the runs of one checkpoint promise, with one attempt |
| `CustodiedInference` | `runCustodiedInference` for concurrent units with the shared budget, crashes and resumes; implements `PaidWork` |
| `CustodiedInference_proofs` | the inductive invariant of custody and the theorems from it |
| `CustodyPromise_proofs` | the accounts, the spend of a first session, the inertness of an inspection, the waiters and their wakers, and the proof that custody implements `PaidWork` |
| `CheckpointJournal` | the bytes under `put`: lines, torn tails, syncs, losses |
| `DurableMap` | what the journal promises: a map read once a session, written before it is answered for, whose secured keys are lost only where a rewrite has exposed them |
| `CheckpointJournal_proofs` | its invariant, what each step does to the synced keys, the theorems from them, and the proof that the journal implements `DurableMap` |
| `EstateProjection` | operators that stage, promote and prune, query by query |
| `EstateRegister` | what the estate promises: a register of whole generations, replaced by compare-and-set |
| `EstateProjection_proofs` | the invariants of the labels, the rows, the records' order and of what prunes spare, the theorems from them, and the proof that the estate implements `EstateRegister` |
| `EstateRetention` | `EstateProjection` with a history of what was selected before |
| `DeltaUpdate` | `ascrybe update` by concurrent processes over one unit cache |
| `DeltaUpdate_proofs` | its invariant and the theorems from it |
| `SupervisedRun` | the controller, the runs of the extractor it spawns, and the checkpoint between them |
| `SupervisedRun_proofs` | its invariant, the theorems from it, and the proof that the runs of a checkpoint implement `PaidWork` |
| `NeuralRunner` | the pool, the persistent runners, their pipes and their processes |
| `PromptService` | what the pool promises: a prompt is taken up at most once, and the one reply to a call is true of it and stays so |
| `NeuralRunner_proofs` | what may be in the pipes at each point of a call, the theorems from it, and the proof that the pool implements `PromptService` |
| `MC...` | values of the constants and symmetry sets for TLC |

`CustodiedInference` takes a journal put to be one durable step;
`CheckpointJournal` looks inside that step and shows what it relies on.
`SupervisedRun` composes them from above: a whole session of queue, custody and
journal is a few steps of it (claim with a started receipt and a dispatch, finish
with a completion, drain), so that it can put several sessions, their signals and
their controller side by side. `NeuralRunner` looks inside a dispatch. The
database's statements are atomic, as Cypher's are, and are external to the
repository.

### UnitQueue

One process runs everything, so a step is the code between two awaits.
`rowState`, `holder`, `outcome` and `attempts` are the fields of a row, `window`
and `stopped` the closure variables of `createUnitQueue`, and `pc`, `unitOf`,
`admits` and `completions` those of `runQueue` and its workers. `StartWorker` is
the start delay, `AwaitAdmission` a turn of `awaitAdmission`, `Claim` and
`LeaveLoop` the loop head with the sweep that `claim` begins with, `Settle` the
end of `processUnit` with the settle of either branch, `Finish` the `finally`
block. Time is the set `overdue`: any lease may run out at any moment, and only
a sweep or a heartbeat notices. `LeaseRunsOut` is therefore more liberal than any
clock. The sweep's test of the failure rate after every expired lease is one test
after the last, since a failure never lowers the rate.

### CustodiedInference

A unit's `pc` is the await it is suspended at. `started`, `completion`,
`scheduled` and `final` are the four kinds of journal records, by unit and
attempt; they survive a `Crash`, which resets everything else and may start a
session that only inspects. `dispatched` counts what was really sent to the
provider. `Materialized` are the units with an attempt policy; the others take
the code's older path with one attempt. `Account`, `Affordable`, `Contended` and
`Woken` are the budget. A provider's answer is one of `Answers`, which tell apart
what the ledger tells apart: valid or not, retryable outcome, acceptance known,
terminal, cost, unpriced. `PutRejected` is a failed journal, after which every
put of the session is rejected, as the journal's chain is. Backoff delays are
left out: a schedule may become due at once.

### CheckpointJournal

`lines` are the complete lines of the file and `torn` whether bytes follow them;
`durable` is how many lines are on stable storage. `OpenTorn` and `WriteBack` are
the truncation and the rewriting of `fs.writeFile`. A dead process leaves what it
wrote; a loss of power keeps any prefix from `durable` on, and may keep part of
the next line. The rewritten lines are on no stable storage (`durable` is zero from
`OpenTorn` on) until the next put's sync or the close, since the code does not sync
them. `IoError` is a write or a sync that fails, after which the promise
chain is rejected for good.

### EstateProjection

Each query of `projectEstateMap` is a step, and other operators run between any
two. `selected` and `working` are the head nodes, `status`, `owner` and
`processed` properties of the projection record, `newer` the order the prune
lists the records in (`coalesce(selected_at, verified_at, created_at)`), `rows`
the batches present. An operator serves the one estate its configuration names
(`op[o].estate`, chosen in `Init`). A generation is named by its content, so two estates may
come to the same one and share its record and rows. `Leave` is an operator that
dies at any point, `StagingFails` a query that fails.

### DeltaUpdate

An updater is a process and a call of the file system a step: `Look`
(`existsSync`), `Read`, `SetAside` and `Remove` (`quarantine`), `AcquireLock` and
`LockTimesOut` (`mkdirSync` and its retries), `Publish` (`renameSync`), `Release`.
`up` is the local state of an updater, `entry` and `lock` the directories of a
unit, `head` the tree the ref names. Digests are what they stand for: a unit id is
a pair of file and content. An entry is `whole`; `lacking`, when it recomputes from
its own bytes and has not all the records of its unit; or `corrupt`. What is reused
from a lacking entry is a `forged` receipt, and only the comparison with the full
arm (`Equivalent`) can tell. Producers are functions of their unit, and those in
`Refusing` throw. `Damage`, `ClearLock`, `Die` and `Commit` are the disk, a person,
the end of a process and the world.

### SupervisedRun

A run of the extractor is a process: `Open` its journal, `Claim` and `Finish` units,
`EndQueue`, `Write` the artifact, `Leave` with a code. Its `known` is what it read
of the checkpoint when it opened it and is never read again, as in the code. A claimed
unit without a receipt asks the budget first: it is bought (`Buy`, the started receipt
and the call), skipped because a cap is reached (`Skip`: no receipt, no call, and the
queue goes on), or refused because an answer has overdrawn the budget (`Refuse`, which
stops the queue). One with a receipt is not bought: `Replay` takes its completion, or
writes one of unknown acceptance for a started receipt that has none. What a run has
spent only grows, so after a skip it buys nothing more; which cap it meets, and when, is
left open. `Status` does not count skipped units, as in the code.

The controller's `start()` is cut at its awaits into `Ask` (its gates), `Spawn`, `Own`
(the process is identified) and `Save` (the state is in its file and the exit gets
its listener, or the file cannot be written and `start()` throws, the run going on
without a listener); `Hear` is that listener. `handler` are the key presses being served,
which nothing serialises. `Restart` is the death of the controller and the next one,
which reads `saved`; detached runs go on.

`raced` is a history variable that becomes true where the controller loses sight of
what it started: two `start()` overlapped; or one identified its run while the exit of an
earlier one was still unheard (`AllHeard`; its listener would complete the new run's
state), which `start()` does nothing to exclude but takes a listing of the models and a
process to get that far; or a restart found a file that does not name a run that lives.
`VerdictIsTrue` and `ImplementsPaidWork` say nothing from there on.

Left to the modules below: lease expiry and heartbeats (`UnitQueue`), the order of
receipt and dispatch and the retries of a unit (`CustodiedInference`), and the bytes
(`CheckpointJournal`); a journal that cannot be written ends a run as `Dies` does. A unit
has one attempt here, which is what every extraction contract but v26 and v28 gives it.
Under those two a retry may be refused by a cap after a first answer, so that a skipped
unit has receipts; that composition is not modelled. Nor are the rewrites of the state
file by the load audit, which write again what `Save` wrote, two of its writes at a time
(they share a temporary name, which is one way for `Save` to fail), or a verdict that
cannot be written, which leaves the record as an unheard exit does.

### NeuralRunner

A worker of `mapWithRunnerPool` takes an item (`Take`) and is in `complete()` until
`Return`. `pc` is where `complete()` waits: `warm`, `send`, `turn`, `reset`, `fresh`
(for the answer to `new_session`), `close`, `respawn`. `child` is the process with
its two pipes, what it works on and `session`, the prompts its conversation has
seen; it is external, and modelled from what the runner writes and expects:
it may take up a prompt or refuse it, answer or not, and die at any point, also
after it was given up. `conn` is what the runner knows of it. A death is noticed by
`ExitEvent`, which drops what is unread in the pipes; before that, writing to the
dead process loses the line or, since nobody listens for errors of that stream, ends
the program (`program`). `bought` counts how often a process took up an item's
prompt. A resent prompt and a reused process are where answers could mix.

## 3. Runs

| Run | Question | Bounds | Result |
|---|---|---|---|
| `unit_queue` | Are leases exclusive, outcomes sampled once, the overshoot bounded, is `WorkList` implemented (nothing dispatched twice, outcomes final), and does `runQueue` return? | 5 units, 3 workers with 1 admitted at first, window 3, 2 samples, rate 1/2; success, provider failure, explicit stop | holds |
| `custody` | Is an attempt sent once, nothing bought after a verdict, are final records sound, accounts right, inspection inert, and `PaidWork` implemented? | 2 units, one with 3 attempts and one without a policy; 2 crashes, runner and journal faults | holds |
| `custody_budget` | Is spend within the cap, and does every unit end? | 3 units, 2 attempts, room for one reservation | holds |
| `custody_leak` | Are waiters released when a put is rejected? | 2 units | violated, see 6 |
| `journal` | Is `DurableMap` implemented (what was synced survives, but for what the rewrite of a torn file exposes), one line per key, torn bytes only at the end? | 3 keys, 2 puts in flight, 2 losses of either kind, I/O errors | holds |
| `journal_repair` | Does an interrupted repair keep what was acknowledged? | 3 keys, 2 crashes | violated, see 6 |
| `estate` | Is what is selected whole under concurrent staging and promotion, are labels true, prunes clean and bounded, and is `EstateRegister` implemented? | 2 operators, 2 estates, 2 shared generations of 2 batches, no retention | holds |
| `delta` | Is what is staged what a full build gives, is an update refused only for a bad entry, is nothing repaired in place, and does every update end? | 2 updaters, 2 files of 2 contents, one producer that refuses, one unit in the cache at first; 1 commit, 2 faults, 2 starts | holds |
| `supervised` | Does a pause leave no orphan, is `PaidWork` implemented by all runs together (nothing bought twice), is the recorded verdict true, and does every run end? | 2 units, 2 workers, 1 key press at a time; 2 runs, 1 fault: the death of a run or of the controller | holds |
| `runner` | Is each answer its own, is `PromptService` implemented (acceptance told truly, nothing taken up twice), are restarts bounded, does the pool settle? | 2 runners, 2 items, 1 restart, 2 deaths or failed spawns | holds |
| `estate_prune_race` | The same with a prune concurrent to a promotion | 2 operators, 1 estate, 3 generations | violated, see 6 |
| `estate_predecessor` | Is the predecessor kept to go back to? | 1 operator, 3 generations, 1 retained | violated, see 6 |

Why these bounds are enough. *Queue*: three workers with one admitted give a
waiter behind a waiter; five units are one more than the overshoot bound allows
to be dispatched, so that bound can fail, and the window of three slides.
*Custody*: three attempts give a retry of a retry and a last one; two crashes give
a resume of a resume, which is where an orphaned start is closed and then
replayed; custody's invariants speak of one unit at a time and units meet only in
the budget, for which `custody_budget` has three. Two units of which one holds
the only reservation are the smallest contention; the third makes a waiter be
woken and wait again. *Journal*: the second loss hits a journal that was already
torn once. *Estate*: two operators race for one head or for two heads over one
generation; two generations are a selection and its replacement; nothing retained
makes the prune as eager as it can be. *Delta*: a race needs a reader and a writer of
one unit, or two readers of one damaged entry, which the unit that is cached at first
gives them; two faults damage an entry twice, or damage one and clear a lock under its
owner; the two starts may be of one updater, whose own manifest is then its parent,
or of both at once. *Supervised*: two runs are one and its resume, or two beside each
other after a restart of the controller; two units and two workers let a pause come
with one unit in hand and one not begun, and a cap skip one unit of two. The one fault
is a restart, or the death of a run; a run can also be force-stopped at any time and
the state file fail, neither of which is bounded. Two key presses at once take TLC beyond
any useful time; `raced` still becomes true through the restart, and the theorems are
for any number of them. *Runner*: two items are an answer and the next one in the same
process; two runners are one that fails while the other works; two faults kill a
process and its successor, and one restart is used up by the first of them.
The numbers of crashes and faults (`MaxCrashes`, `MaxLosses`, `MaxFaults`), of commits, starts and runs (`MaxCommits`,
`MaxStarts`, `MaxRuns`) and of puts in flight (`MaxQueue`) are the only caps put on
counters; the remaining state is finite by itself. The runner's `MaxRestarts` is the
code's own `maxCallRestarts`.

`DispatchedOnce` and `OutcomeIsFinal` of the queue, `StaysSecured` and `SecuredIsAnswered`
of the journal, `BoughtOnce` of the runs and `AcceptanceIsTrue` of the runner are in no configuration:
each follows from the abstract specification its run checks in their place, and each
is a theorem of its own.

`CHECK_DEADLOCK FALSE` is set where the system really stops: the queue when all
workers have returned, custody when all units have ended, the journal when the
bounded losses are used up and the open has failed, updates when their starts are used
up, the controller when its runs are over, the pool when its list is done. The
estate never stops.

Fairness. `UnitQueue!Fairness` is weak fairness of each worker's own steps: an
event loop runs every continuation that is ready, and `processUnit` ends because
custody bounds it by a timeout of the runner. Nothing is assumed of heartbeats,
expiries or the caller. `CustodiedInference!Fairness` is weak fairness of each
unit's steps: calls are answered or fail, puts resolve or reject. A waiting unit
has no step of its own and must be woken by another. `DeltaUpdate`
has weak fairness of each updater's steps while it lives (a process that runs goes
on, and its wait for a lock has a limit), `SupervisedRun` of each run's (its calls have
timeouts), `NeuralRunner` of each runner's (its own code and its timers): nothing is
asked of the model processes, of the controller, or of whoever could clear a lock.
Nothing fair is assumed of crashes, faults, or operators of the estate.

## 4. Proofs

The theorems are for every value of the constants the named assumptions allow:
`QueueAssumption` (units, workers, window, ramp and rate are numbers, not zero
where the code divides or counts down by them), `CustodyAssumption` (at least one
attempt and a positive cap, answers of the shape the ledger reads) and
`JournalAssumption`, `ProjectionAssumption`, `DeltaAssumption`, `SupervisedAssumption` and
`RunnerAssumption` (the losses are of the two kinds and a key is not a header; bounds are numbers, the set of units of a run is finite). They hold for any number
of crashes, units, attempts, workers, operators, updaters, runs and runners, where
section 3 has two or three.

*Queue* (`UnitQueue_proofs`). `LeaseIsHeld` is not inductive: that no two workers
have one unit in hand holds because a claim takes a pending unit, and a unit in
hand is no longer pending. The invariant `IInv` adds `InHand` (what a busy worker
holds is no longer pending), `AttemptsMatchState` (a unit was dispatched once
unless it is pending) and `OutcomeMatchesState` (an outcome is recorded exactly
when the row is neither pending nor leased). `SweepRows` says what a sweep
preserves, since `claim`, `leave` and every turn of the admission begin with one.
From `IInv`: `TypeCorrect`, `LeasesAreExclusive`, `NoBlindRedispatch`, and
`OutcomesAreFinal`, an action property, step by step in `OutcomeStep`.
`OutcomesAreSampledOnce` counts what a step settles against what it appends to the
window (`SampleStep`), for a sweep as for a settle. `OvershootIsSmall` needs
`FailuresStop`: where every outcome so far is a failure, the window holds nothing
else, and from `MinSamples` of them on the queue has stopped; what is dispatched is
terminal or leased, and leases are no more than workers. It needs a rate below one,
for otherwise no window exceeds it. `NothingIsLeft` rests on why a worker has
returned (`ReturnedForCause`), and on such a cause staying. `WaitersHaveWakers` is what
can be proved of `RunQueueReturns`: while a worker waits for its admission there is work
left, and another has a unit in hand or is about to claim one. It needs `Wakers`: the
workers admitted at first never wait, and a queue that has stopped under a waiter still
has a unit in somebody's hands, whose end wakes it. `QueueIsList` is the refinement of
`WorkList`, from `IInv` and `ListInv`: a worker that is not busy has no unit
(`HandsAreKnown`), the pending units are the last ones (`InOrder`), and a failure in the
window is the outcome of some unit (`SamplesAreOutcomes`), so that a stop has a cause.
A claim with its sweep is a `Take`, a settle or a sweep a `Decide`, `Finish` a `Release`.

*Custody* (`CustodiedInference_proofs`). `SingleDispatch` needs to know that an
attempt about to be sent never was, in any session. `IInv` says so unit by unit, of
the journal and of the session's place in it together: `Sent` (a call follows its
start receipt), `Ladder` (an answer is of a started attempt, and a later attempt
is started only after a known transient failure), `Place` (what each await of
`runCustodiedInference` relies on) and `Verdict` (what a final record says). A crash
drops the place, and the rest of the invariant is what the next session needs to
take it up again (`CrashStep`). `FirstValidIs` and `FirstValidNone` replace the search
for the first valid completion by what it finds. Units meet only in the budget, so
`Others` carries the units a step does not concern. From `IInv`: `TypeCorrect`,
`CallsAreSentOnce`, `VerdictsEndBuying` and `FinalRecordsSurvive`; the last says
in particular that no resume finds a journal it refuses.

*Custody's promise* (`CustodyPromise_proofs`), on top of `IInv`. `BooksMatchJournal`
needs `Books`: nothing ahead of a unit's present attempt is accounted or reserved,
and the present one only as its place says. `SpendIsCapped` needs `FirstSession`:
before any crash there is nothing to replay, so what is accounted was reserved, at
a reserve no answer exceeds; over several sessions the cap does not hold, since each
starts a budget of zero. `CustodyKeepsPromise` is the refinement, with `InOrder` (the attempts
started are the first so many, so that the abstract count of calls is the number of
the latest): a start is a purchase, a completion what was learnt, a final record
the verdict (`PutStartedBuys`, `PutCompletionLearns`, `PutFinalCloses`), and every
other step, crashes among them, a stutter.
`InspectionStaysInert` rests on `Idle`: no unit of an inspection is on its way to a
call, and a unit without a policy has no second attempt to schedule (`OneAttempt`).
`WaitersHaveWakers` is the safe half of `EveryUnitEnds`: a unit waits for headroom only
while another holds a reservation, and who holds one is on its way to `account`, which
wakes every waiter (`Wakers`, `Held`). Its exception, a unit that threw with its
reservation, needs a fault, and is the finding `custody_leak`.

*Journal* (`CheckpointJournal_proofs`). `OneLinePerKey` and `TornOnlyAtEnd` are not
inductive. An append of a key that has no line is an append of a key that is not in
the map, and that needs `MapIsCurrent`: the map answers for every line but the one
that waits for its sync. A line is never joined to torn bytes because of `TornIsSafe`:
they are left only where the next open will meet them, or where the chain takes no
more puts. A key is secured when a line of it is in the durable prefix. `SyncedAreFound` says
that it stays there through any number of losses of either kind, since a dead process
leaves the file as it is and a loss of power cuts it no shorter than that prefix, and that every session
that is open answers for it; only `OpenTorn`, the rewrite of a torn file, takes lines out
of the prefix, because it truncates them and does not sync what it writes back. It has no
premise about when losses come.
`JournalIsMap` has none either: `DurableMap` itself says what a rewrite exposes. While it
lasts, any end of the session may lose any key, which is the finding `journal_repair`; from its end
to the next sync or close, only a loss of power may, since nothing is secured yet. What is
stored is what is in the lines, or, during a repair, in those about to be written; an append
is a `Write` of a key that is not stored, which needs that a line waiting for its sync is not
yet answered for (in `MapIsCurrent`); its sync is the `Confirm`, which secures all that is
stored, repaired lines included.

*Estate* (`EstateProjection_proofs`). `LabelsAreTrue` is inductive once an
operator that stages or promotes is known to hold a generation (`HeadTypes`). The
step that matters is `Promote`, where the replaced generation may be what another
estate still selects. It holds with concurrent prunes too. `RowsAreRecorded`
is for prunes that run alone, which its premise `PrunesAlone` says. `RowsInv` adds
that while one prunes nobody stages or promotes, that a generation being written
has its record, and that a record about to be deleted has no rows left.
`TypeCorrect`, again with concurrent prunes, is about the list a prune works through:
`newer` is a strict total order of the finitely many records (`Ordering`), so `Rank`
numbers the candidates one to one and the `CHOOSE` of `Listing` has its element.
From `PrunesAlone` and `PruneInv` follow `SelectedStaysIntact` and `RetentionHolds`:
what a prune spares are all the heads of now, since nobody moves one meanwhile, what it
deletes is no head, and what it leaves besides are at most `Retain` (`Spares`); and a
generation that was verified is whole until it is promoted, and from then on while it is
selected (`Whole`). `EstateIsRegister` has no premise: the selection of an estate changes
only by compare-and-set against what its operator read before it staged, also beside
prunes; that it names a whole generation is promised where prunes run alone, and
`estate_prune_race` shows why not elsewhere.

*Delta* (`DeltaUpdate_proofs`). The invariant says of each updater what its receipts
are: those got so far are of the files no longer to do, each either what a fresh
producer gives (up to reuse) or forged from a lacking entry. It speaks of nobody
else's place, because no step of another touches what has been read: that is why
races over paths and locks cannot reach the records. From it `StagedIsFullAlways` and
`RefusedForCauseAlways`; `NeverRepaired` needs only that a rename onto an entry fails.
`TypeCorrect` is inductive as it stands.

*Supervised* (`SupervisedRun_proofs`). `PauseLeavesNoOrphan` is inductive with the
types and `Ordered` (runs exist up to `spawned`, and only a run that is over was cut
off). `BoughtOnce` needs, while nothing raced, `Lone` (one `start()` at a time, which
spawns where nothing lives; what lives is the run it has in hand or the one the
controller owns) and `Accounted` (what was bought has a receipt, and what a run at work
has read of a unit it has not come to is still so in the checkpoint of now). From them `NoOrphanByPause`, which needs no
condition, `BoughtOnceAlways` and `TypeCorrect`. `VerdictIsTrueAlways` needs `Told`:
only the last run lives and writes; its `Story` follows the checkpoint and the
output from the gates that admitted it to its exit; what is watched is what is
owned; and a verdict was read off the exit and the output of the last run (`Heard`).
`Story` has a unit that was skipped without a receipt, and one that was answered with a
valid completion; since a complete output has no other units, what is missing from it
was neither bought nor lost.
`RunsKeepPromise` is the refinement of `PaidWork` by all the runs of a checkpoint, with
one attempt a unit, until something races. A claim buys where nothing was bought
(`Accounted`), or gives up a call that has no answer, or is a stutter; an answer is recorded to a call that awaits one, because what the run at
work has in hand has a started receipt and no other answer (`InProgress`).

*Runner* (`NeuralRunner_proofs`). The invariant `Inv` lists, for each point of
`complete()`, what the two pipes and the conversation may hold (`Stage`): in a turn, a
prompt is lost, sent, worked on, answered or refused, and nothing else; when a new
session is waited for, its answer and nothing of the turn; at rest, nothing at all. A
process that was given up keeps unread lines (`InClosing`), and may still take the
prompt up, which is why its receipt may not say "no". `Apart` and `Ahead` say that an
item is with one runner and untouched before it is taken. `OneRunner` reduces a step
to the runner that takes it. From it `AnswersAreOwn` and `AcceptanceIsTold`,
and `TypeCorrect`, which needs it to know whose items the lines in the pipes name.
`PoolIsService` is the refinement of `PromptService`: `Take` begins a call, a process that
takes a prompt up is the `TakeUp` of its item, `Return` gives the reply. It adds to
`AcceptanceIsTold` that the order of the steps is right: a reply, once given, stays, and a
prompt that was replied to with "no" is not taken up later either.

## 5. What only TLC shows, and what is out of reach

Liveness is out of the prover's reach and stays with TLC: `RunQueueReturns`,
`EveryUnitEnds`, `EveryUpdateEnds`, `EveryRunEnds` and `PoolSettles`. Of the first two it is
proved that no waiter is left without somebody to wake it, not that somebody does. Every
other property of a passing run is proved. Some theorems have a premise:
`OvershootIsBounded` that the rate is below one, `SpendStaysWithinCap` that no answer
costs more than the reserve, `SelectedStaysIntact`, `RetentionHolds` and `RowsAreRecorded`
that prunes run alone (`PrunesAlone`). The constants of the runs satisfy them; the code can
leave `PrunesAlone`, and `estate_prune_race` shows what it costs. `BoughtOnce`, `VerdictIsTrue`
and `ImplementsPaidWork` of the runs speak of the time before anything raced. The
refinements of `EstateRegister` and `DurableMap` have no premise: what prunes and rewrites may
cost is part of the abstract specifications. TLC's results are about the bounds of section
3 only.

## 6. Findings

With a run that shows them (`findings` in `PROJECT.json` quotes code and text):

* `custody_leak`: a rejected put never returns its reservation, and a unit
  waiting for headroom waits for ever. `account` is the only place that wakes
  waiters.
* `journal_repair`: the repair of a torn tail empties the file before it writes
  the complete lines back; a second crash in between loses acknowledged work. Since the
  rewrite is not synced, a loss of power after it, before the next sync, loses it too.
* `estate_prune_race`: heads are read two queries before the candidates are
  listed and are not looked at again; a promotion in between is pruned.
* `estate_predecessor`: a generation that was staged and never promoted outranks
  the superseded one, which is deleted.

Without a run of their own, met while modelling, and reproducible by changing a
configuration as said:

* An inspect-only session with an attempt policy meets `inspectOnly` only where an
  attempt has no completion (`custodied-inference.mjs:318`). A replay over stored
  completions that has no final record yet goes on to write the retry schedule
  (425) or the final record (409, 447), though the comment at 478 says it never
  writes. `InspectionIsInert` says what does hold: no start, no call, and nothing
  at all without a policy. No caller passes both options.
* A put of a key read back from the file resolves without a sync
  (`checkpoint-journal.mjs:54`), although the session that wrote it may have died
  before its own sync; a loss of power then forgets an acknowledged key
  (`MCJournal.cfg` with `AcknowledgedSurvive`).
* A crash while the header is written leaves a file the open truncates and
  rejects (39) and later opens refuse (`wx`, 45).
* Staging reads the heads (`estate-graph-projection.mjs:1165`) and marks the record
  `working` in a later query (1175). If another operator promotes the same
  generation in between, or another estate serves it, the selected generation
  carries the label of a working one and counts of zero until it is verified. The
  rows stay whole (`SelectedIsIntact` in `estate`); `SelectedLabelIsTrue` states
  the direction of the label that does hold.

Hazards the models show, of which no text of the repository says otherwise (so that
they are no disagreement):

* Two overlapping key presses of the controller, or its death between a spawn and
  its state file, or after a state file that could not be written, admit a second run on
  a checkpoint that has no lock, and units are bought twice. `BoughtOnce` without `~raced`
  is refuted by TLC, with two handlers and with one and a restart.
* A run whose budget does not reach its last unit skips the rest
  (`unit-queue.mjs:120`), which neither its status (`wide-context-extractor.mjs:96`) nor
  the controller's verdict (`tui-run-controller.mjs:178`) counts: the output is complete, and a
  resume with a larger budget is refused. The artifact still lists the units as
  `skipped_bound`. TLC refutes that every unit is answered after "complete";
  `VerdictIsTrue` says what is true then.
* The controller attaches its exit listener after it has awaited the state file
  (`tui-run-controller.mjs:435`); an exit in between is never heard.
* Nobody listens for errors of a model process's stdin
  (`neural-rpc-transport.mjs:97`): a line written to a process that has just died can
  end the program. `PoolSettles` has it as its exception.
* The unit cache's locks have no owner and no age (`delta/unit-cache.mjs:36`): one a
  dead updater has left makes later updates of its unit fail, though none waits for
  ever.

## 7. Not modelled

The components with status `not_modelled` in `PROJECT.json`, each with its reason:
pure transformations of documents, presentation, input and output, and those
below that are planned. Of the modelled components, left out are: identities and
digests (a key is a value), wording of errors and receipts, backoff delays, the
`onTerminal` hook that no caller passes, `assertAttemptCapacity`, the fingerprint of a
journal, the edges of a generation (they follow its nodes and go with them), the
schema set-up, and the content of a generation; of updates, the reuse of
documentary units, the classification of files and the ordinary extract's use of
the cache; of the controller, the figures of its telemetry, its screen and the
replay gate; of the extractor, windows, prompts, the validation and reduction of
answers; of the runners, the one-shot runner, the mock, the framing of lines, the
parsing of answers, usage and cost. Two processes on one journal, which has no lock,
are in `SupervisedRun` as two runs on one checkpoint, and not in `CheckpointJournal`
byte by byte.

## 8. Plan

Done in this order, most important first: queue, custody with its promise,
journal, estate, delta updates, supervised runs, runners. Next:

1. `CustodyRun`: queue, custody and journal composed with a budget over several
   sessions, for the budget that starts at zero in each of them.
2. `SidecarStore`: `EstateProjection` with rollback.
3. The extraction cache (a lock without expiry) and the evaluation journal.
4. Pure algorithms beside reference definitions: retry eligibility and the outcome
   algebra, conservation.
5. An abstract build for `DeltaUpdate`: an update as one step that stages what a full
   build of its tree gives, or refuses. The other components have their abstract
   specifications (`WorkList`, `PaidWork`, `DurableMap`, `EstateRegister`,
   `PromptService`).
