----------------------------- MODULE UnitQueue -----------------------------
(***************************************************************************)
(* The leased work queue for concurrent paid units, and the worker fleet   *)
(* that drains it (tools/unit-queue.mjs).                                  *)
(*                                                                         *)
(* One process, one event loop: a step below is the code between two       *)
(* awaits.  Units are numbered in queue order; worker w is the code's      *)
(* worker of index w - 1.  The clock is abstracted to the set of leases    *)
(* that have run past their expiry: time may pass for any lease, and only  *)
(* a sweep (expireLeases) or a heartbeat notices.  The findings of a unit  *)
(* and its payload are left out.                                           *)
(***************************************************************************)
EXTENDS Integers, Sequences, FiniteSets

CONSTANTS
  NumUnits,         \* units in the queue, all pending at the start
  Concurrency,      \* workers runQueue starts
  InitialWorkers,   \* workers admitted before any completion
  Results,          \* what processUnit may do: return or throw an outcome
  Heartbeats,       \* whether heartbeat_every_ms > 0
  WindowSize,       \* terminal outcomes the failure rate is taken over (64)
  MinSamples,       \* fleet_stop.min_samples
  RateNum, RateDen  \* fleet_stop.failure_rate, as a fraction

UNIT_OUTCOMES ==
  {"ok", "partial", "overflow", "quarantined", "provider_failure",
   "unresolved_due_to_bound", "acceptance_unknown", "fleet_stop"}

FLEET_FAILURE_OUTCOMES == {"acceptance_unknown", "provider_failure", "fleet_stop"}

UNIT_STATES ==
  {"pending", "leased", "done", "quarantined", "acceptance_unknown", "skipped_bound"}

ASSUME QueueAssumption ==
  /\ NumUnits \in Nat
  /\ Concurrency \in Nat \ {0}
  /\ InitialWorkers \in 1..Concurrency
  /\ Results \subseteq [threw : BOOLEAN, outcome : UNIT_OUTCOMES \cup {"undeclared"}]
  /\ Heartbeats \in BOOLEAN
  /\ MinSamples \in Nat \ {0}
  /\ WindowSize \in Nat /\ WindowSize >= MinSamples
  /\ RateNum \in Nat /\ RateDen \in Nat \ {0}

Units == 1..NumUnits
Workers == 1..Concurrency
NoUnit == 0
NoWorker == 0
None == "none"

VARIABLES
  rowState,     \* row.state
  holder,       \* row.lease.worker, or NoWorker when there is no lease
  overdue,      \* the units whose lease has run past expires_at
  outcome,      \* row.outcome, or None
  attempts,     \* row.attempts
  window,       \* terminalWindow: whether each recorded outcome is a failure
  stopped,      \* the queue's stop reason, or None
  aborted,      \* signal.aborted
  pc,           \* where each worker is suspended
  unitOf,       \* the unit a worker has claimed
  admits,       \* admitsAnotherWorker, between settle and finally
  completions   \* successfulCompletions

rowVars == <<rowState, holder, overdue, outcome, attempts>>
fleetVars == <<window, stopped>>
vars == <<rowState, holder, overdue, outcome, attempts, window, stopped,
          aborted, pc, unitOf, admits, completions>>

-----------------------------------------------------------------------------
(* The failure window. *)

\* Keep the newest WindowSize samples.
Slide(s) ==
  IF Len(s) > WindowSize THEN SubSeq(s, Len(s) - WindowSize + 1, Len(s)) ELSE s

Failures(s) == Cardinality({i \in DOMAIN s : s[i]})

\* Mutant: the window must hold more than MinSamples outcomes.
RateExceededLate(s) ==
  /\ Len(s) > MinSamples
  /\ Failures(s) * RateDen > RateNum * Len(s)

RateExceeded(s) ==
  /\ Len(s) >= MinSamples
  /\ Failures(s) * RateDen > RateNum * Len(s)

\* recordTerminal: the window and the stop reason after one more outcome.
WindowAfter(o) == Slide(Append(window, o \in FLEET_FAILURE_OUTCOMES))

StoppedAfter(o) ==
  IF o = "fleet_stop" THEN "explicit_fleet_stop"
  ELSE IF RateExceeded(WindowAfter(o)) THEN "fleet_failure_rate_exceeded"
  ELSE stopped

-----------------------------------------------------------------------------
(* expireLeases: every overdue lease becomes acceptance_unknown and counts  *)
(* as a failure.  The code tests the rate after each of them; a failure     *)
(* never lowers the rate, so the test after the last one decides.           *)

Expired == {u \in overdue : rowState[u] = "leased"}

\* Mutant: an expired lease returns its unit to the queue.
SweptRequeued == [u \in Units |-> IF u \in Expired THEN "pending" ELSE rowState[u]]

SweptState == [u \in Units |-> IF u \in Expired THEN "acceptance_unknown" ELSE rowState[u]]
SweptWindow == Slide(window \o [i \in 1..Cardinality(Expired) |-> TRUE])
SweptStopped ==
  IF Expired # {} /\ RateExceeded(SweptWindow) THEN "fleet_failure_rate_exceeded"
  ELSE stopped

\* What a sweep does to the leases it expires, besides the row's state.
SweepLeases ==
  /\ outcome' = [u \in Units |-> IF u \in Expired THEN "acceptance_unknown" ELSE outcome[u]]
  /\ overdue' = overdue \ Expired
  /\ window' = SweptWindow
  /\ stopped' = SweptStopped

Sweep ==
  /\ SweepLeases
  /\ rowState' = SweptState
  /\ holder' = [u \in Units |-> IF u \in Expired THEN NoWorker ELSE holder[u]]
  /\ UNCHANGED attempts

\* Mutant: the scan for a pending unit starts one too far.
PendingSkipsFirst == {u \in 2..NumUnits : rowState[u] = "pending"}

Pending == {u \in Units : rowState[u] = "pending"}

-----------------------------------------------------------------------------
(* runQueue: one action per stretch of worker code between two awaits. *)

Init ==
  /\ rowState = [u \in Units |-> "pending"]
  /\ holder = [u \in Units |-> NoWorker]
  /\ overdue = {}
  /\ outcome = [u \in Units |-> None]
  /\ attempts = [u \in Units |-> 0]
  /\ window = <<>>
  /\ stopped = None
  /\ aborted = FALSE
  /\ pc = [w \in Workers |-> "starting"]
  /\ unitOf = [w \in Workers |-> NoUnit]
  /\ admits = [w \in Workers |-> FALSE]
  /\ completions = 0

\* The start delay has passed (index * startDelay, or at once).
StartWorker(w) ==
  /\ pc[w] = "starting"
  /\ pc' = [pc EXCEPT ![w] = IF w <= InitialWorkers THEN "looping" ELSE "admission"]
  /\ UNCHANGED <<rowVars, fleetVars, aborted, unitOf, admits, completions>>

RequiredCompletions(w) == w - InitialWorkers

\* awaitAdmission, one turn: a late worker joins, gives up, or waits.
AwaitAdmission(w) ==
  /\ pc[w] = "admission"
  /\ IF aborted \/ stopped # None
     THEN /\ pc' = [pc EXCEPT ![w] = "returned"]
          /\ UNCHANGED <<rowVars, fleetVars>>
     ELSE /\ Sweep
          /\ pc' = [pc EXCEPT ![w] =
                     IF Pending = {} THEN "returned"
                     ELSE IF completions >= RequiredCompletions(w) THEN "looping"
                     ELSE "waiting"]
  /\ UNCHANGED <<aborted, unitOf, admits, completions>>

\* Mutant: nobody is woken.
NobodyWoken(f) == f

\* wakeAdmission: every waiter re-evaluates its condition.
Woken(f) == [w \in Workers |-> IF f[w] = "waiting" THEN "admission" ELSE f[w]]

\* The loop head finds the signal aborted, or claim returns null.
LeaveLoop(w) ==
  /\ pc[w] = "looping"
  /\ \/ aborted /\ UNCHANGED <<rowVars, fleetVars>>
     \/ ~aborted /\ (SweptStopped # None \/ Pending = {}) /\ Sweep
  /\ pc' = [pc EXCEPT ![w] = "returned"]
  /\ UNCHANGED <<aborted, unitOf, admits, completions>>

\* claim leases the first pending unit to w; the waiters are woken.
Claim(w) ==
  /\ pc[w] = "looping" /\ ~aborted
  /\ SweptStopped = None
  /\ \E u \in Pending :
       /\ \A v \in Pending : u <= v
       /\ SweepLeases
       /\ rowState' = [SweptState EXCEPT ![u] = "leased"]
       /\ holder' = [v \in Units |-> IF v = u THEN w
                                     ELSE IF v \in Expired THEN NoWorker ELSE holder[v]]
       /\ attempts' = [attempts EXCEPT ![u] = @ + 1]
       /\ unitOf' = [unitOf EXCEPT ![w] = u]
  /\ pc' = [Woken(pc) EXCEPT ![w] = "processing"]
  /\ UNCHANGED <<aborted, admits, completions>>

Admitting == {"ok", "partial", "overflow"}

\* A throw, or a returned outcome settle refuses, quarantines the unit
\* unless the error carries a declared unit_outcome.
SettledOutcome(r) == IF r.outcome \in UNIT_OUTCOMES THEN r.outcome ELSE "quarantined"

\* Mutant: the outcome is stored as the state.
StateIsOutcome(o) == o

StateFor(o) ==
  IF o \in Admitting THEN "done"
  ELSE IF o \in {"quarantined", "provider_failure", "fleet_stop"} THEN "quarantined"
  ELSE IF o = "unresolved_due_to_bound" THEN "skipped_bound"
  ELSE "acceptance_unknown"

\* Mutant: a late result is recorded like any other.
LateIsRecorded(u) == FALSE

\* The lease of u was swept while its worker was still processing.
LateResult(u) == rowState[u] = "acceptance_unknown"

\* processUnit has returned or thrown and settle runs.  A unit whose lease
\* was swept keeps its acceptance_unknown: a late result changes nothing.
\* (settle's LEASE_NOT_HELD is unreachable from runQueue: LeaseIsHeld.)
Settle(w) ==
  /\ pc[w] = "processing"
  /\ \E r \in Results :
       LET u == unitOf[w]
           o == SettledOutcome(r)
       IN /\ IF LateResult(u)
             THEN UNCHANGED <<rowVars, fleetVars>>
             ELSE /\ rowState' = [rowState EXCEPT ![u] = StateFor(o)]
                  /\ outcome' = [outcome EXCEPT ![u] = o]
                  /\ holder' = [holder EXCEPT ![u] = NoWorker]
                  /\ overdue' = overdue \ {u}
                  /\ window' = WindowAfter(o)
                  /\ stopped' = StoppedAfter(o)
                  /\ UNCHANGED attempts
          /\ admits' = [admits EXCEPT ![w] = ~r.threw /\ r.outcome \in Admitting]
  /\ pc' = [pc EXCEPT ![w] = "settled"]
  /\ UNCHANGED <<aborted, unitOf, completions>>

\* The finally block, a turn after settle.
Finish(w) ==
  /\ pc[w] = "settled"
  /\ completions' = IF admits[w] THEN completions + 1 ELSE completions
  /\ admits' = [admits EXCEPT ![w] = FALSE]
  /\ unitOf' = [unitOf EXCEPT ![w] = NoUnit]
  /\ pc' = [Woken(pc) EXCEPT ![w] = "looping"]
  /\ UNCHANGED <<rowVars, fleetVars, aborted>>

\* The heartbeat timer of a processing worker: it renews a lease nobody has
\* swept yet, even an overdue one.
Heartbeat(w) ==
  /\ Heartbeats
  /\ pc[w] = "processing"
  /\ rowState[unitOf[w]] = "leased"
  /\ unitOf[w] \in overdue
  /\ overdue' = overdue \ {unitOf[w]}
  /\ UNCHANGED <<rowState, holder, outcome, attempts, fleetVars, aborted, pc,
                 unitOf, admits, completions>>

\* The clock passes a lease's expires_at.
LeaseRunsOut(u) ==
  /\ rowState[u] = "leased"
  /\ u \notin overdue
  /\ overdue' = overdue \cup {u}
  /\ UNCHANGED <<rowState, holder, outcome, attempts, fleetVars, aborted, pc,
                 unitOf, admits, completions>>

\* The caller asks for a cooperative pause.
Abort ==
  /\ ~aborted
  /\ aborted' = TRUE
  /\ pc' = Woken(pc)
  /\ UNCHANGED <<rowVars, fleetVars, unitOf, admits, completions>>

WorkerStep(w) ==
  \/ StartWorker(w) \/ AwaitAdmission(w) \/ LeaveLoop(w)
  \/ Claim(w) \/ Settle(w) \/ Finish(w)

Next ==
  \/ \E w \in Workers : WorkerStep(w) \/ Heartbeat(w)
  \/ \E u \in Units : LeaseRunsOut(u)
  \/ Abort

Spec == Init /\ [][Next]_vars

\* The event loop runs every ready continuation, and processUnit ends.
Fairness == \A w \in Workers : WF_vars(WorkerStep(w))

FairSpec == Spec /\ Fairness

-----------------------------------------------------------------------------
(* What the queue implements *)

List == INSTANCE WorkList WITH
          Alarming <- FLEET_FAILURE_OUTCOMES,
          handed <- {u \in Units : attempts[u] > 0},
          hand <- unitOf,
          fate <- outcome,
          closed <- aborted \/ stopped # None

\* The queue and its fleet are a work list: units go out in order, once, to
\* one worker each; outcomes are given once, to units in hand; and the fleet
\* stops for its caller or for a failure, and hands out nothing after.
ImplementsList == List!Spec

-----------------------------------------------------------------------------
(* Properties *)

PCs == {"starting", "admission", "waiting", "looping", "processing", "settled", "returned"}

\* Types of the queue's rows and of the workers' local state.
TypeOK ==
  /\ rowState \in [Units -> UNIT_STATES]
  /\ holder \in [Units -> Workers \cup {NoWorker}]
  /\ overdue \subseteq Units
  /\ outcome \in [Units -> UNIT_OUTCOMES \cup {None}]
  /\ attempts \in [Units -> Nat]
  /\ window \in Seq(BOOLEAN)
  /\ stopped \in {None, "explicit_fleet_stop", "fleet_failure_rate_exceeded"}
  /\ aborted \in BOOLEAN
  /\ pc \in [Workers -> PCs]
  /\ unitOf \in [Workers -> Units \cup {NoUnit}]
  /\ admits \in [Workers -> BOOLEAN]
  /\ completions \in Nat

Busy(w) == pc[w] \in {"processing", "settled"}

\* A lease is held by a worker that is processing its unit, and no other
\* worker has that unit in hand: settle's LEASE_NOT_HELD never fires and
\* "two workers never receive the same unit" (tests/unit-queue.test.mjs).
LeaseIsHeld ==
  /\ \A u \in Units : rowState[u] = "leased" =>
       \E w \in Workers : holder[u] = w /\ pc[w] = "processing" /\ unitOf[w] = u
  /\ \A v, w \in Workers : Busy(v) /\ Busy(w) /\ v # w => unitOf[v] # unitOf[w]

\* A unit is dispatched at most once over the whole run, whatever expires,
\* fails or comes late ("Blind redispatch is how you pay twice").
DispatchedOnce == \A u \in Units : attempts[u] <= 1

\* The outcome a unit is given is final: neither a late result nor a sweep
\* overwrites it, and a unit with an outcome never becomes claimable again.
OutcomeIsFinal ==
  [][\A u \in Units : outcome[u] # None =>
       outcome'[u] = outcome[u] /\ rowState'[u] = rowState[u]]_vars

Terminal == {u \in Units : rowState[u] \notin {"pending", "leased"}}

\* The failure rate is taken over the terminal outcomes, each counted once:
\* late results and repeated sweeps add no sample.
EachOutcomeSampledOnce ==
  Len(window) = IF Cardinality(Terminal) > WindowSize THEN WindowSize
                ELSE Cardinality(Terminal)

\* When the provider fails every unit, the fleet dispatches fewer than
\* MinSamples units besides those in the workers' hands before it stops.
OvershootIsBounded ==
  (\A u \in Terminal : outcome[u] \in FLEET_FAILURE_OUTCOMES) =>
     Cardinality({u \in Units : attempts[u] > 0}) <= MinSamples - 1 + Concurrency

AllReturned == \A w \in Workers : pc[w] = "returned"

\* When runQueue returns no lease is left behind, and every unit was tried
\* unless the fleet stopped or the caller aborted.
NothingLeftBehind ==
  AllReturned =>
    \A u \in Units : /\ rowState[u] # "leased"
                     /\ rowState[u] = "pending" => aborted \/ stopped # None

\* No worker waits for an admission that nobody can grant: while one waits
\* there is work left, and some worker has a unit in hand, or is about to claim
\* one from a queue that has not stopped.  Both end by waking the waiters.
WaiterHasWaker ==
  \A w \in Workers : pc[w] = "waiting" =>
    /\ ~aborted /\ Pending # {}
    /\ \E v \in Workers :
         Busy(v) \/ (stopped = None /\ v <= InitialWorkers /\ pc[v] \in {"starting", "looping"})

\* runQueue returns: no worker waits for an admission that nobody grants,
\* whichever way the other workers leave.
RunQueueReturns == <>AllReturned
=============================================================================
