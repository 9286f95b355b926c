------------------------- MODULE CustodiedInference -------------------------
(***************************************************************************)
(* Paid inference under custody (tools/custodied-inference.mjs), with the  *)
(* attempt ledger (tools/materialization-ledger.mjs) and the budget the    *)
(* concurrent units share.                                                 *)
(*                                                                         *)
(* Each unit is one call of runCustodiedInference, suspended at its awaits *)
(* while the others run.  The checkpoint journal survives a crash: a put   *)
(* is durable when it resolves, so it is one step here (CheckpointJournal  *)
(* models its bytes).  Everything else is lost, and the next session       *)
(* replays the journal.  The provider's side of a call - that it was made  *)
(* and paid for - is what no crash can undo.                               *)
(*                                                                         *)
(* Materialized are the units whose caller passes an attempt_policy; for   *)
(* the others the code's older path makes a single attempt and keeps no    *)
(* final record.  A completion stands for one provider call.  Tags,        *)
(* digests and receipts are left out.                                      *)
(***************************************************************************)
EXTENDS Integers, FiniteSets

CONSTANTS
  Units,          \* logical units, one content-addressed key each
  MaxAttempts,    \* attempt_policy.max_attempts
  Materialized,   \* the units given an attempt_policy
  Answers,        \* what a call can end in
  CallCap,        \* max_calls
  CostCap,        \* max_known_cost_usd
  Reserve,        \* cost_reserve_per_call_usd
  UnpricedCap,    \* max_unpriced_attempts
  Faults,         \* what may fail: "runner", "journal"
  Inspections,    \* whether a session may be inspectOnly
  MaxCrashes      \* bound: crashes or restarts of the process

Attempts == 1..MaxAttempts
Calls == Units \X Attempts

\* What a completion tells the ledger apart: it validates; its outcome is in
\* the policy's list; the provider's acceptance is known; the validator calls
\* it terminal_incomplete; its reported cost; whether it is unpriced.
Answer ==
  [valid : BOOLEAN, retryable : BOOLEAN, known : BOOLEAN, terminal : BOOLEAN,
   cost : Nat, unpriced : {0, 1}]

ASSUME CustodyAssumption ==
  /\ MaxAttempts \in Nat \ {0}
  /\ Materialized \subseteq Units
  /\ Answers \subseteq Answer
  /\ CallCap \in Nat \ {0} /\ CostCap \in Nat \ {0}
  /\ Reserve \in Nat /\ UnpricedCap \in Nat
  /\ Faults \subseteq {"runner", "journal"}
  /\ Inspections \subseteq BOOLEAN /\ FALSE \in Inspections
  /\ MaxCrashes \in Nat

NoAnswer == [none |-> TRUE]
NoFinal == [status |-> "open", attempt |-> 0]

\* interruptedInferenceCustody: a call that was started and never answered.
Interrupted ==
  [valid |-> FALSE, retryable |-> FALSE, known |-> FALSE, terminal |-> FALSE,
   cost |-> 0, unpriced |-> 1]

VARIABLES
  \* The journal, durable.
  started,      \* the attempts with a start receipt
  completion,   \* the answer recorded for each attempt
  scheduled,    \* the attempts with a retry schedule
  final,        \* the materialization record
  \* The session, lost in a crash.
  inspecting,   \* inspectOnly
  journalOk,    \* no put of this session has been rejected
  pc, att, fresh,
  accounted, reserved, accountedCalls, knownCost, unpriced, budgetStop,
  \* The provider.
  dispatched,   \* how often each attempt was sent
  crashes

durable == <<started, completion, scheduled, final>>
local == <<pc, att, fresh>>
budget == <<accounted, reserved, accountedCalls, knownCost, unpriced, budgetStop>>
vars == <<started, completion, scheduled, final, inspecting, journalOk, pc, att,
          fresh, accounted, reserved, accountedCalls, knownCost, unpriced,
          budgetStop, dispatched, crashes>>

Call(u) == <<u, att[u]>>
Recorded(u) == completion[u][att[u]]
Has(u, a) == completion[u][a] # NoAnswer

Goto(u, label) == pc' = [pc EXCEPT ![u] = label]

-----------------------------------------------------------------------------
(* The session starts with an empty budget and replays every unit. *)

Init ==
  /\ started = [u \in Units |-> {}]
  /\ completion = [u \in Units |-> [a \in Attempts |-> NoAnswer]]
  /\ scheduled = [u \in Units |-> {}]
  /\ final = [u \in Units |-> NoFinal]
  /\ inspecting \in Inspections
  /\ journalOk = TRUE
  /\ pc = [u \in Units |-> "begin"]
  /\ att = [u \in Units |-> 1]
  /\ fresh = [u \in Units |-> FALSE]
  /\ accounted = {} /\ reserved = {}
  /\ accountedCalls = 0 /\ knownCost = 0 /\ unpriced = 0
  /\ budgetStop = "none"
  /\ dispatched = [c \in Calls |-> 0]
  /\ crashes = 0

\* The process dies, and a new session opens the journal.
Crash ==
  /\ crashes < MaxCrashes
  /\ crashes' = crashes + 1
  /\ inspecting' \in Inspections
  /\ journalOk' = TRUE
  /\ pc' = [u \in Units |-> "begin"]
  /\ att' = [u \in Units |-> 1]
  /\ fresh' = [u \in Units |-> FALSE]
  /\ accounted' = {} /\ reserved' = {}
  /\ accountedCalls' = 0 /\ knownCost' = 0 /\ unpriced' = 0
  /\ budgetStop' = "none"
  /\ UNCHANGED <<durable, dispatched>>

-----------------------------------------------------------------------------
(* createInferenceBudget *)

\* Mutant: the reservation of an accounted call is kept.
AccountKeepsReservation(c, r) ==
  IF c \in accounted
  THEN UNCHANGED budget
  ELSE /\ accounted' = accounted \cup {c}
       /\ accountedCalls' = accountedCalls + 1
       /\ knownCost' = knownCost + r.cost
       /\ unpriced' = unpriced + r.unpriced
       /\ UNCHANGED <<reserved, budgetStop>>

\* account: the call's usage replaces its reservation; a cap it crosses is a
\* sticky stop that the next dispatch meets; every waiter looks again.
Account(c, r) ==
  IF c \in accounted
  THEN UNCHANGED budget
  ELSE /\ accounted' = accounted \cup {c}
       /\ reserved' = reserved \ {c}
       /\ accountedCalls' = accountedCalls + 1
       /\ knownCost' = knownCost + r.cost
       /\ unpriced' = unpriced + r.unpriced
       /\ budgetStop' = IF budgetStop # "none" THEN budgetStop
                        ELSE IF unpriced' > UnpricedCap THEN "unpriced"
                        ELSE IF knownCost' > CostCap THEN "cost"
                        ELSE "none"

\* Mutant: accounting a call wakes nobody.
NobodyWoken(f) == f

Woken(f) == [v \in Units |-> IF f[v] = "waiting" THEN "reserve" ELSE f[v]]

\* Mutant: only the new call's own reserve is counted.
ReserveAlone == Reserve > 0 /\ knownCost + Reserve > CostCap

\* The reservation a call needs, while the others are in flight, is too much.
ReserveExceedsCap == Reserve > 0 /\ knownCost + (Cardinality(reserved) + 1) * Reserve > CostCap

\* beforeDispatch would refuse u's call for good.
StopRefuses(u) ==
  \/ budgetStop = "cost"
  \/ budgetStop = "unpriced" /\ att[u] = 1

\* The contention is transient: an owned call in flight may free headroom.
Contended(u) ==
  /\ ~StopRefuses(u) /\ knownCost < CostCap
  /\ ReserveExceedsCap
  /\ reserved # {} /\ knownCost + Reserve <= CostCap

Affordable(u) ==
  /\ ~StopRefuses(u) /\ knownCost < CostCap
  /\ ~ReserveExceedsCap
  /\ accountedCalls + Cardinality(reserved) + 1 <= CallCap

-----------------------------------------------------------------------------
(* runCustodiedInference *)

\* A stored final record is replayed, otherwise the attempt loop starts.
Begin(u) ==
  /\ pc[u] = "begin"
  /\ Goto(u, IF final[u] # NoFinal THEN "replay" ELSE "attempt")
  /\ UNCHANGED <<durable, inspecting, journalOk, att, fresh, budget, dispatched, crashes>>

FirstValid(u) ==
  LET valid == {a \in Attempts : Has(u, a) /\ completion[u][a].valid}
  IN IF valid = {} THEN 0 ELSE CHOOSE a \in valid : \A b \in valid : a <= b

\* What a final record must say of the completions it covers.
FinalIsSound(u) ==
  IF final[u].status = "selected" THEN FirstValid(u) = final[u].attempt
  ELSE FirstValid(u) = 0

\* Replay of one attempt of a final record; the last one settles the unit.
Replay(u) ==
  /\ pc[u] = "replay"
  /\ IF Has(u, att[u])
     THEN /\ Account(Call(u), Recorded(u))
          /\ IF att[u] < final[u].attempt
             THEN att' = [att EXCEPT ![u] = @ + 1] /\ pc' = Woken(pc)
             ELSE /\ pc' = [Woken(pc) EXCEPT ![u] =
                              IF FinalIsSound(u) THEN "done" ELSE "corrupt"]
                  /\ UNCHANGED att
     ELSE Goto(u, "corrupt") /\ UNCHANGED <<att, budget>>
  /\ UNCHANGED <<durable, inspecting, journalOk, fresh, dispatched, crashes>>

\* Mutant: a start receipt without an answer is taken for a call not made.
OrphanIgnored(u) == FALSE

\* The attempt was started in an earlier session and never answered.
Orphaned(u) == att[u] \in started[u]

\* Mutant: an inspection closes orphaned starts.
InspectionClosesOrphans(u) == inspecting /\ att[u] \notin started[u]

InspectionStops(u) == inspecting

\* The head of the attempt loop: a recorded completion is accounted without
\* a call; without one an inspection stops, an orphaned start is closed, and
\* a retry needs its durable schedule.
AttemptHead(u) ==
  /\ pc[u] = "attempt"
  /\ fresh' = [fresh EXCEPT ![u] = FALSE]
  /\ Goto(u, IF Has(u, att[u]) THEN "account"
             ELSE IF InspectionStops(u) THEN "threw"
             ELSE IF Orphaned(u) THEN "interrupted"
             ELSE IF att[u] > 1 /\ att[u] \notin scheduled[u] THEN "corrupt"
             ELSE "reserve")
  /\ UNCHANGED <<durable, inspecting, journalOk, att, budget, dispatched, crashes>>

\* waitBeforeDispatch, one turn.  (Its early return for a call that is
\* already accounted or reserved is unreachable: AccountsMatchJournal.)
BeforeDispatch(u) ==
  /\ pc[u] = "reserve"
  /\ \/ /\ Affordable(u)
        /\ reserved' = reserved \cup {Call(u)}
        /\ Goto(u, "start")
     \/ /\ Contended(u)
        /\ Goto(u, "waiting")
        /\ UNCHANGED reserved
     \/ /\ ~Affordable(u) /\ ~Contended(u)
        /\ Goto(u, "refused")
        /\ UNCHANGED reserved
  /\ UNCHANGED <<durable, inspecting, journalOk, att, fresh, accounted, accountedCalls,
                 knownCost, unpriced, budgetStop, dispatched, crashes>>

\* The start receipt is durable before the call is made.
PutStarted(u) ==
  /\ pc[u] = "start" /\ journalOk
  /\ started' = [started EXCEPT ![u] = @ \cup {att[u]}]
  /\ Goto(u, "dispatch")
  /\ UNCHANGED <<completion, scheduled, final, inspecting, journalOk, att, fresh,
                 budget, dispatched, crashes>>

\* runner.complete sends the prompt.
Dispatch(u) ==
  /\ pc[u] = "dispatch"
  /\ dispatched' = [dispatched EXCEPT ![Call(u)] = @ + 1]
  /\ Goto(u, "calling")
  /\ UNCHANGED <<durable, inspecting, journalOk, att, fresh, budget, crashes>>

\* The answer arrives and its completion is put, or an orphaned start is
\* recorded as interrupted.
PutCompletion(u) ==
  /\ journalOk
  /\ \/ /\ pc[u] = "calling"
        /\ \E r \in Answers : completion' = [completion EXCEPT ![u][att[u]] = r]
        /\ fresh' = [fresh EXCEPT ![u] = TRUE]
     \/ /\ pc[u] = "interrupted"
        /\ completion' = [completion EXCEPT ![u][att[u]] = Interrupted]
        /\ UNCHANGED fresh
  /\ Goto(u, "account")
  /\ UNCHANGED <<started, scheduled, final, inspecting, journalOk, att, budget,
                 dispatched, crashes>>

AccountCompletion(u) ==
  /\ pc[u] = "account"
  /\ Account(Call(u), Recorded(u))
  /\ pc' = [Woken(pc) EXCEPT ![u] = "assess"]
  /\ UNCHANGED <<durable, inspecting, journalOk, att, fresh, dispatched, crashes>>

\* attempt_policy.max_attempts; one attempt without a policy.
Limit(u) == IF u \in Materialized THEN MaxAttempts ELSE 1

\* Mutant: a call of unknown acceptance may be retried.
RetriesUnknown(u) ==
  LET r == Recorded(u)
  IN ~r.valid /\ att[u] < Limit(u) /\ (r.retryable \/ ~r.known)

\* Mutant: one attempt too many.
RetriesOnceMore(u) ==
  LET r == Recorded(u)
  IN ~r.valid /\ att[u] <= Limit(u) /\ r.retryable /\ r.known

\* retryEligibility
MayRetry(u) ==
  LET r == Recorded(u)
  IN ~r.valid /\ att[u] < Limit(u) /\ r.retryable /\ r.known

\* The completion does not validate and is retried: the schedule of the next
\* attempt is made durable unless it already is.
ScheduleRetry(u) ==
  /\ pc[u] = "assess" /\ MayRetry(u)
  /\ journalOk \/ att[u] + 1 \in scheduled[u]
  /\ scheduled' = [scheduled EXCEPT ![u] = @ \cup {att[u] + 1}]
  /\ att' = [att EXCEPT ![u] = @ + 1]
  /\ Goto(u, "attempt")
  /\ UNCHANGED <<started, completion, final, inspecting, journalOk, fresh, budget,
                 dispatched, crashes>>

\* Where a unit ends: a fresh failure opens the circuit, unless the ledger
\* holds a terminal_incomplete.
EndOf(u) ==
  IF ~Recorded(u).valid /\ fresh[u] /\ ~(u \in Materialized /\ Recorded(u).terminal)
  THEN "circuit" ELSE "done"

\* Mutant: the record names the first attempt.
RecordsFirstAttempt(u) ==
  [status |-> IF Recorded(u).valid THEN "selected" ELSE "terminal_incomplete", attempt |-> 1]

\* The first valid completion is selected, or the last failure is terminal.
FinalRecord(u) ==
  [status |-> IF Recorded(u).valid THEN "selected" ELSE "terminal_incomplete",
   attempt |-> att[u]]

PutFinal(u) ==
  /\ pc[u] = "assess" /\ ~MayRetry(u)
  /\ u \in Materialized => journalOk
  /\ final' = IF u \notin Materialized THEN final
              ELSE [final EXCEPT ![u] = FinalRecord(u)]
  /\ Goto(u, EndOf(u))
  /\ UNCHANGED <<started, completion, scheduled, inspecting, journalOk, att, fresh,
                 budget, dispatched, crashes>>

\* The runner throws instead of answering.
RunnerThrows(u) ==
  /\ "runner" \in Faults
  /\ pc[u] = "calling"
  /\ Goto(u, "threw")
  /\ UNCHANGED <<durable, inspecting, journalOk, att, fresh, budget, dispatched, crashes>>

\* A put is rejected, and every later put of the session with it.  The
\* append may fail, or only the sync after it: then the record stays.
PutRejected(u) ==
  /\ "journal" \in Faults
  /\ \/ pc[u] \in {"start", "calling", "interrupted"}
     \/ pc[u] = "dispatch"
     \/ pc[u] = "account" /\ fresh[u]
     \/ pc[u] = "assess" /\ MayRetry(u) /\ att[u] + 1 \notin scheduled[u]
     \/ pc[u] = "assess" /\ ~MayRetry(u) /\ u \in Materialized
  /\ journalOk' = FALSE
  /\ Goto(u, "threw")
  /\ UNCHANGED <<durable, inspecting, att, fresh, budget, dispatched, crashes>>

UnitStep(u) ==
  \/ Begin(u) \/ Replay(u) \/ AttemptHead(u) \/ BeforeDispatch(u)
  \/ PutStarted(u) \/ Dispatch(u) \/ PutCompletion(u) \/ AccountCompletion(u)
  \/ ScheduleRetry(u) \/ PutFinal(u) \/ RunnerThrows(u) \/ PutRejected(u)

Next == Crash \/ \E u \in Units : UnitStep(u)

Spec == Init /\ [][Next]_vars

\* Every call is answered or fails, every put resolves or rejects, and the
\* event loop runs what is ready.
Fairness == \A u \in Units : WF_vars(UnitStep(u))

FairSpec == Spec /\ Fairness

-----------------------------------------------------------------------------
(* The promise this implements: PaidWork over what the journal records. *)

Latest(u) == Cardinality(started[u])

LastAnswer(u) ==
  IF Latest(u) = 0 THEN "none"
  ELSE IF ~Has(u, Latest(u)) THEN "awaited"
  ELSE LET r == completion[u][Latest(u)]
       IN IF r.valid THEN "valid"
          ELSE IF ~r.known THEN "unknown"
          ELSE IF r.retryable THEN "transient" ELSE "failed"

Promise == INSTANCE PaidWork WITH
  bought <- [u \in Units |-> Latest(u)],
  answer <- [u \in Units |-> LastAnswer(u)],
  verdict <- [u \in Units |-> final[u].status]

\* The sessions, crashes and budgets together give each unit the promise of
\* PaidWork: one call at a time, no call after a verdict or an unknown.
ImplementsPaidWork == Promise!Spec

-----------------------------------------------------------------------------
(* Properties *)

PCs == {"begin", "replay", "attempt", "interrupted", "reserve", "waiting", "start",
        "dispatch", "calling", "account", "assess", "done", "circuit", "refused",
        "threw", "corrupt"}

Ended == {"done", "circuit", "refused", "threw"}

\* Types of the journal's records, the session and the provider's count.
TypeOK ==
  /\ started \in [Units -> SUBSET Attempts]
  /\ completion \in [Units -> [Attempts -> Answers \cup {Interrupted, NoAnswer}]]
  /\ scheduled \in [Units -> SUBSET Attempts]
  /\ final \in [Units -> {NoFinal} \cup
                         [status : {"selected", "terminal_incomplete"}, attempt : Attempts]]
  /\ inspecting \in BOOLEAN /\ journalOk \in BOOLEAN
  /\ pc \in [Units -> PCs]
  /\ att \in [Units -> Attempts]
  /\ fresh \in [Units -> BOOLEAN]
  /\ accounted \subseteq Calls /\ reserved \subseteq Calls
  /\ accountedCalls \in Nat /\ knownCost \in Nat /\ unpriced \in Nat
  /\ budgetStop \in {"none", "unpriced", "cost"}
  /\ dispatched \in [Calls -> Nat]
  /\ crashes \in 0..MaxCrashes

\* Custody: an attempt is sent to the provider at most once over all the
\* sessions, and never without its durable start receipt.
SingleDispatch ==
  \A u \in Units, a \in Attempts :
    /\ dispatched[<<u, a>>] <= 1
    /\ dispatched[<<u, a>>] = 1 => a \in started[u]

\* Nothing more is bought for a unit once an answer of unknown acceptance, a
\* valid one, or one the policy does not retry is on record.
NothingBoughtAfterVerdict ==
  \A u \in Units, a, b \in Attempts :
    /\ a < b /\ b \in started[u]
    => /\ Has(u, a)
       /\ LET r == completion[u][a] IN ~r.valid /\ r.retryable /\ r.known

\* The record a resume trusts is the right one: a selected attempt is the
\* first valid completion, a terminal one says that none is, and its replay
\* never fails.
FinalRecordsAreSound ==
  \A u \in Units :
    /\ pc[u] # "corrupt"
    /\ final[u] # NoFinal =>
         /\ \A a \in 1..final[u].attempt : Has(u, a)
         /\ FinalIsSound(u)

\* Every accounted call is a recorded one, and a call holds its reservation
\* from the start receipt until it is accounted: none is counted twice.
AccountsMatchJournal ==
  /\ accountedCalls = Cardinality(accounted)
  /\ accounted \cap reserved = {}
  /\ \A u \in Units, a \in Attempts : <<u, a>> \in accounted => Has(u, a)
  /\ \A u \in Units :
       /\ pc[u] \in {"start", "dispatch", "calling"} => Call(u) \in reserved
       /\ pc[u] \in {"attempt", "reserve", "waiting"} => Call(u) \notin accounted \cup reserved

\* With a reserve no call exceeds, the calls of one session together never
\* cost more than the cap, however many are in flight.
SpendStaysWithinCap ==
  (crashes = 0 /\ \A r \in Answers : r.cost <= Reserve) =>
    /\ knownCost + Cardinality(reserved) * Reserve <= CostCap
    /\ accountedCalls + Cardinality(reserved) <= CallCap

\* For a unit without an attempt policy an inspection writes nothing and
\* sends nothing ("In inspect-only mode we never write and never dispatch").
\* With a policy it still writes schedules and final records of completions
\* that are already on record.
InspectionIsInert ==
  [][inspecting /\ crashes' = crashes =>
       /\ UNCHANGED <<started, dispatched>>
       /\ \A u \in Units \ Materialized : UNCHANGED <<completion[u], scheduled[u], final[u]>>]_vars

InFlight == {"start", "dispatch", "calling", "account"}

\* Nobody waits for headroom on nobody: some other unit holds a reservation and
\* is on its way to account for it, which wakes every waiter - unless a fault
\* has made that unit throw, which is what custody_leak shows.
WaiterHasWaker ==
  \A u \in Units : pc[u] = "waiting" =>
    \E v \in Units \ {u} :
      Call(v) \in reserved /\ (pc[v] \in InFlight \/ (pc[v] = "threw" /\ Faults # {}))

\* Every unit comes to an end in the session that remains, those included that
\* wait for headroom (custodied-inference.mjs 73-92).
EveryUnitEnds == \A u \in Units : <>[](pc[u] \in Ended)

\* A unit that waits for headroom is let go: "wait for one owned call to
\* produce a durable usage receipt, then evaluate the real headroom".
WaitersAreReleased == \A u \in Units : pc[u] = "waiting" ~> pc[u] # "waiting"
=============================================================================
