-------------------------- MODULE UnitQueue_proofs --------------------------
(***************************************************************************)
(* Proofs about UnitQueue for every number of units and workers, every     *)
(* window, rate and ramp, with or without heartbeats.                      *)
(***************************************************************************)
EXTENDS UnitQueue, FiniteSetTheorems, SequenceTheorems, TLAPS

USE QueueAssumption

-----------------------------------------------------------------------------
(* Lemmas about the operators. *)

\* The units are finitely many, and so is every set of them.
LEMMA UnitsFinite ==
  ASSUME NEW S, S \subseteq Units
  PROVE  IsFiniteSet(S) /\ Cardinality(S) \in Nat
<1>1. IsFiniteSet(Units)
  BY FS_Interval DEF Units
<1> QED
  BY <1>1, FS_Subset, FS_CardinalityType

\* Sliding keeps a sequence of samples a sequence of samples, and leaves the
\* shorter of its length and the window.
LEMMA SlideType ==
  ASSUME NEW s \in Seq(BOOLEAN)
  PROVE  /\ Slide(s) \in Seq(BOOLEAN)
         /\ Len(Slide(s)) = IF Len(s) > WindowSize THEN WindowSize ELSE Len(s)
<1>1. CASE Len(s) > WindowSize
  <2>1. Len(s) - WindowSize + 1 \in 1..Len(s) + 1 /\ Len(s) \in Nat
    BY <1>1
  <2>2. SubSeq(s, Len(s) - WindowSize + 1, Len(s)) \in Seq(BOOLEAN)
    BY <2>1
  <2>3. Len(SubSeq(s, Len(s) - WindowSize + 1, Len(s))) = WindowSize
    BY <2>1, <1>1
  <2> QED
    BY <1>1, <2>2, <2>3 DEF Slide
<1>2. CASE ~(Len(s) > WindowSize)
  BY <1>2 DEF Slide
<1> QED
  BY <1>1, <1>2

\* One more outcome leaves a sequence of samples.
LEMMA WindowAfterType ==
  ASSUME window \in Seq(BOOLEAN), NEW o
  PROVE  WindowAfter(o) \in Seq(BOOLEAN)
<1>1. (o \in FLEET_FAILURE_OUTCOMES) \in BOOLEAN
  OBVIOUS
<1>2. Append(window, o \in FLEET_FAILURE_OUTCOMES) \in Seq(BOOLEAN)
  BY <1>1
<1> QED
  BY <1>2, SlideType DEF WindowAfter

\* A sweep leaves a sequence of samples.
LEMMA SweptWindowType ==
  ASSUME window \in Seq(BOOLEAN), overdue \subseteq Units
  PROVE  SweptWindow \in Seq(BOOLEAN)
<1> DEFINE n == Cardinality(Expired)
           more == [i \in 1..n |-> TRUE]
<1>1. n \in Nat
  BY UnitsFinite DEF Expired
<1>2. more \in Seq(BOOLEAN)
  <2> HIDE DEF n
  <2>1. more \in [1..n -> BOOLEAN]
    OBVIOUS
  <2> QED
    BY <1>1, <2>1, SeqDef
<1>3. window \o more \in Seq(BOOLEAN)
  BY <1>2
<1> QED
  BY <1>3, SlideType DEF SweptWindow

-----------------------------------------------------------------------------
(* The inductive invariant. *)

\* A busy worker has a dispatched unit in hand, and until it settles the
\* unit is leased or was swept: no settle meets a row that is already done.
InHand ==
  \A w \in Workers :
    /\ Busy(w) => unitOf[w] \in Units /\ rowState[unitOf[w]] # "pending"
    /\ pc[w] = "processing" => rowState[unitOf[w]] \in {"leased", "acceptance_unknown"}

\* A unit is pending exactly until its first and only dispatch.
AttemptsMatchState ==
  \A u \in Units : attempts[u] = IF rowState[u] = "pending" THEN 0 ELSE 1

\* A unit has an outcome exactly when it is terminal.
OutcomeMatchesState ==
  \A u \in Units : outcome[u] = None <=> rowState[u] \in {"pending", "leased"}

IInv ==
  /\ TypeOK
  /\ InHand
  /\ AttemptsMatchState
  /\ OutcomeMatchesState
  /\ LeaseIsHeld

LEMMA InitIInv == Init => IInv
<1> SUFFICES ASSUME Init PROVE IInv
  OBVIOUS
<1>1. \A w \in Workers : ~Busy(w) /\ pc[w] # "processing"
  BY DEF Init, Busy
<1>2. \A u \in Units : rowState[u] = "pending" /\ outcome[u] = None /\ attempts[u] = 0
  BY DEF Init
<1>3. window \in Seq(BOOLEAN)
  BY EmptySeq DEF Init
<1>4. TypeOK
  BY <1>3 DEF Init, TypeOK, UNIT_STATES, PCs, None, NoWorker, NoUnit
<1>5. InHand /\ AttemptsMatchState /\ OutcomeMatchesState
  BY <1>1, <1>2 DEF InHand, AttemptsMatchState, OutcomeMatchesState
<1>6. LeaseIsHeld
  BY <1>1, <1>2 DEF LeaseIsHeld
<1> QED
  BY <1>4, <1>5, <1>6 DEF IInv

\* Waking the waiters changes no worker's claim to a unit.
LEMMA WokenPC ==
  ASSUME TypeOK, NEW w \in Workers
  PROVE  /\ Woken(pc) \in [Workers -> PCs]
         /\ Woken(pc)[w] # "processing" <=> pc[w] # "processing"
         /\ Woken(pc)[w] # "settled" <=> pc[w] # "settled"
  BY DEF Woken, TypeOK, PCs

\* A sweep on its own preserves what the invariant says of the rows.
LEMMA SweepRows ==
  ASSUME IInv, Sweep, UNCHANGED unitOf,
         \A w \in Workers : pc'[w] = "processing" <=> pc[w] = "processing",
         \A w \in Workers : pc'[w] = "settled" <=> pc[w] = "settled"
  PROVE  /\ rowState' \in [Units -> UNIT_STATES]
         /\ holder' \in [Units -> Workers \cup {NoWorker}]
         /\ overdue' \subseteq Units
         /\ outcome' \in [Units -> UNIT_OUTCOMES \cup {None}]
         /\ attempts' \in [Units -> Nat]
         /\ window' \in Seq(BOOLEAN)
         /\ stopped' \in {None, "explicit_fleet_stop", "fleet_failure_rate_exceeded"}
         /\ InHand' /\ AttemptsMatchState' /\ OutcomeMatchesState' /\ LeaseIsHeld'
<1> USE DEF IInv
<1>1. window' \in Seq(BOOLEAN)
  BY SweptWindowType DEF TypeOK, Sweep, SweepLeases
<1>2. /\ rowState' \in [Units -> UNIT_STATES]
      /\ holder' \in [Units -> Workers \cup {NoWorker}]
      /\ overdue' \subseteq Units
      /\ outcome' \in [Units -> UNIT_OUTCOMES \cup {None}]
      /\ attempts' \in [Units -> Nat]
      /\ stopped' \in {None, "explicit_fleet_stop", "fleet_failure_rate_exceeded"}
  BY DEF TypeOK, Sweep, SweepLeases, SweptState, SweptStopped, UNIT_STATES, UNIT_OUTCOMES
<1>3. \A u \in Units : rowState'[u] = IF u \in Expired THEN "acceptance_unknown" ELSE rowState[u]
  BY DEF Sweep, SweptState
<1>4. \A u \in Expired : rowState[u] = "leased"
  BY DEF Expired
<1>5. \A w \in Workers : Busy(w)' <=> Busy(w)
  BY DEF Busy
<1>6. InHand'
  BY <1>3, <1>4, <1>5 DEF InHand, Busy
<1>7. AttemptsMatchState'
  BY <1>3, <1>4 DEF AttemptsMatchState, Sweep
<1>8. OutcomeMatchesState'
  BY <1>3, <1>4 DEF OutcomeMatchesState, Sweep, SweepLeases, None
<1>9. LeaseIsHeld'
  <2>1. \A u \in Units : rowState'[u] = "leased" => u \notin Expired /\ rowState[u] = "leased"
    BY <1>3
  <2>2. \A u \in Units : rowState'[u] = "leased" => holder'[u] = holder[u]
    BY <2>1 DEF Sweep
  <2> QED
    BY <2>1, <2>2, <1>5 DEF LeaseIsHeld
<1> QED
  BY <1>1, <1>2, <1>6, <1>7, <1>8, <1>9

LEMMA NextIInv == IInv /\ [Next]_vars => IInv'
<1> SUFFICES ASSUME IInv, [Next]_vars
             PROVE  IInv'
  OBVIOUS
<1> USE DEF IInv
<1>1. ASSUME NEW w \in Workers, StartWorker(w)
      PROVE  IInv'
  BY <1>1 DEF StartWorker, rowVars, fleetVars, TypeOK, PCs, InHand,
     AttemptsMatchState, OutcomeMatchesState, LeaseIsHeld, Busy
<1>2. ASSUME NEW w \in Workers, AwaitAdmission(w)
      PROVE  IInv'
  <2>1. /\ pc' \in [Workers -> PCs]
        /\ unitOf' = unitOf /\ aborted' \in BOOLEAN
        /\ admits' \in [Workers -> BOOLEAN] /\ completions' \in Nat
        /\ unitOf' \in [Workers -> Units \cup {NoUnit}]
    BY <1>2 DEF AwaitAdmission, TypeOK, PCs
  <2>2. /\ \A v \in Workers : pc'[v] = "processing" <=> pc[v] = "processing"
        /\ \A v \in Workers : pc'[v] = "settled" <=> pc[v] = "settled"
    BY <1>2 DEF AwaitAdmission, TypeOK, PCs
  <2>3. CASE Sweep
    BY <2>1, <2>2, <2>3, SweepRows DEF TypeOK
  <2>4. CASE UNCHANGED <<rowVars, fleetVars>>
    BY <2>1, <2>2, <2>4 DEF rowVars, fleetVars, TypeOK, InHand, AttemptsMatchState,
       OutcomeMatchesState, LeaseIsHeld, Busy
  <2> QED
    BY <1>2, <2>3, <2>4 DEF AwaitAdmission
<1>3. ASSUME NEW w \in Workers, LeaveLoop(w)
      PROVE  IInv'
  <2>1. /\ pc' \in [Workers -> PCs]
        /\ unitOf' = unitOf /\ aborted' \in BOOLEAN
        /\ admits' \in [Workers -> BOOLEAN] /\ completions' \in Nat
        /\ unitOf' \in [Workers -> Units \cup {NoUnit}]
    BY <1>3 DEF LeaveLoop, TypeOK, PCs
  <2>2. /\ \A v \in Workers : pc'[v] = "processing" <=> pc[v] = "processing"
        /\ \A v \in Workers : pc'[v] = "settled" <=> pc[v] = "settled"
    BY <1>3 DEF LeaveLoop, TypeOK, PCs
  <2>3. CASE Sweep
    BY <2>1, <2>2, <2>3, SweepRows DEF TypeOK
  <2>4. CASE UNCHANGED <<rowVars, fleetVars>>
    BY <2>1, <2>2, <2>4 DEF rowVars, fleetVars, TypeOK, InHand, AttemptsMatchState,
       OutcomeMatchesState, LeaseIsHeld, Busy
  <2> QED
    BY <1>3, <2>3, <2>4 DEF LeaveLoop
<1>4. ASSUME NEW w \in Workers, Claim(w)
      PROVE  IInv'
  <2>1. PICK u \in Pending :
          /\ SweepLeases
          /\ rowState' = [SweptState EXCEPT ![u] = "leased"]
          /\ holder' = [v \in Units |-> IF v = u THEN w
                                        ELSE IF v \in Expired THEN NoWorker ELSE holder[v]]
          /\ attempts' = [attempts EXCEPT ![u] = @ + 1]
          /\ unitOf' = [unitOf EXCEPT ![w] = u]
    BY <1>4 DEF Claim
  <2>2. pc[w] = "looping" /\ pc' = [Woken(pc) EXCEPT ![w] = "processing"]
        /\ UNCHANGED <<aborted, admits, completions>>
    BY <1>4 DEF Claim
  <2>3. u \in Units /\ rowState[u] = "pending" /\ u \notin Expired
    BY DEF Pending, Expired
  <2>4. \A v \in Units : rowState'[v] = IF v = u THEN "leased"
                           ELSE IF v \in Expired THEN "acceptance_unknown" ELSE rowState[v]
    BY <2>1, <2>3 DEF SweptState
  <2>5. \A v \in Expired : rowState[v] = "leased"
    BY DEF Expired
  <2>6. TypeOK'
    <3>1. window' \in Seq(BOOLEAN)
      BY <2>1, SweptWindowType DEF TypeOK, SweepLeases
    <3>2. rowState' \in [Units -> UNIT_STATES]
      BY <2>1 DEF TypeOK, SweptState, UNIT_STATES
    <3>3. pc' \in [Workers -> PCs]
      BY <2>2, WokenPC DEF PCs
    <3>4. outcome' \in [Units -> UNIT_OUTCOMES \cup {None}] /\ overdue' \subseteq Units
          /\ stopped' \in {None, "explicit_fleet_stop", "fleet_failure_rate_exceeded"}
      BY <2>1 DEF TypeOK, SweepLeases, SweptStopped, UNIT_OUTCOMES
    <3>5. holder' \in [Units -> Workers \cup {NoWorker}] /\ attempts' \in [Units -> Nat]
          /\ unitOf' \in [Workers -> Units \cup {NoUnit}]
      BY <2>1, <2>3 DEF TypeOK
    <3> QED
      BY <2>2, <3>1, <3>2, <3>3, <3>4, <3>5 DEF TypeOK
  <2>7. /\ \A v \in Workers : v # w => (Busy(v)' <=> Busy(v)) /\ unitOf'[v] = unitOf[v]
        /\ Busy(w)' /\ unitOf'[w] = u /\ pc'[w] = "processing"
        /\ \A v \in Workers : v # w => (pc'[v] = "processing" <=> pc[v] = "processing")
    BY <2>1, <2>2, WokenPC DEF Busy, TypeOK, Woken
  <2>8. InHand'
    <3>1. \A v \in Workers : v # w /\ Busy(v) => unitOf[v] # u
      BY <2>3 DEF InHand
    <3> QED
      BY <3>1, <2>3, <2>4, <2>5, <2>7 DEF InHand, Busy
  <2>9. AttemptsMatchState'
    BY <2>1, <2>3, <2>4, <2>5 DEF AttemptsMatchState, TypeOK
  <2>10. OutcomeMatchesState'
    BY <2>1, <2>3, <2>4, <2>5 DEF OutcomeMatchesState, SweepLeases, None
  <2>11. LeaseIsHeld'
    <3>1. \A v \in Units : rowState'[v] = "leased" =>
            \E x \in Workers : holder'[v] = x /\ pc'[x] = "processing" /\ unitOf'[x] = v
      <4> SUFFICES ASSUME NEW v \in Units, rowState'[v] = "leased"
                   PROVE  \E x \in Workers : holder'[v] = x /\ pc'[x] = "processing" /\ unitOf'[x] = v
        OBVIOUS
      <4>1. CASE v = u
        BY <4>1, <2>1, <2>7
      <4>2. CASE v # u
        <5>1. rowState[v] = "leased" /\ holder'[v] = holder[v]
          BY <4>2, <2>1, <2>4
        <5>2. PICK x \in Workers : holder[v] = x /\ pc[x] = "processing" /\ unitOf[x] = v
          BY <5>1 DEF LeaseIsHeld
        <5>3. x # w
          BY <5>2, <2>2
        <5> QED
          BY <5>1, <5>2, <5>3, <2>7
      <4> QED
        BY <4>1, <4>2
    <3>2. \A v \in Workers : Busy(v) => unitOf[v] # u
      BY <2>3 DEF InHand
    <3>3. \A v, x \in Workers : Busy(v)' /\ Busy(x)' /\ v # x => unitOf'[v] # unitOf'[x]
      BY <3>2, <2>7 DEF LeaseIsHeld
    <3> QED
      BY <3>1, <3>3 DEF LeaseIsHeld
  <2> QED
    BY <2>6, <2>8, <2>9, <2>10, <2>11
<1>5. ASSUME NEW w \in Workers, Settle(w)
      PROVE  IInv'
  <2> DEFINE u == unitOf[w]
  <2>1. pc[w] = "processing" /\ pc' = [pc EXCEPT ![w] = "settled"]
        /\ UNCHANGED <<aborted, unitOf, completions>>
    BY <1>5 DEF Settle
  <2>2. PICK r \in Results :
          /\ IF LateResult(u)
             THEN UNCHANGED <<rowVars, fleetVars>>
             ELSE /\ rowState' = [rowState EXCEPT ![u] = StateFor(SettledOutcome(r))]
                  /\ outcome' = [outcome EXCEPT ![u] = SettledOutcome(r)]
                  /\ holder' = [holder EXCEPT ![u] = NoWorker]
                  /\ overdue' = overdue \ {u}
                  /\ window' = WindowAfter(SettledOutcome(r))
                  /\ stopped' = StoppedAfter(SettledOutcome(r))
                  /\ UNCHANGED attempts
          /\ admits' = [admits EXCEPT ![w] = ~r.threw /\ r.outcome \in Admitting]
    BY <1>5 DEF Settle
  <2> DEFINE o == SettledOutcome(r)
  <2>3. o \in UNIT_OUTCOMES /\ StateFor(o) \in UNIT_STATES \ {"pending", "leased"}
    BY DEF SettledOutcome, StateFor, UNIT_OUTCOMES, UNIT_STATES, Admitting
  <2>4. u \in Units /\ rowState[u] # "pending" /\ Busy(w)
    BY <2>1 DEF InHand, Busy
  <2>5. \A v \in Workers : (Busy(v)' <=> Busy(v)) /\ (v # w => pc'[v] = pc[v])
    BY <2>1 DEF Busy, TypeOK
  <2>6. /\ pc' \in [Workers -> PCs] /\ admits' \in [Workers -> BOOLEAN]
        /\ unitOf' \in [Workers -> Units \cup {NoUnit}]
        /\ aborted' \in BOOLEAN /\ completions' \in Nat
    <3>1. (~r.threw /\ r.outcome \in Admitting) \in BOOLEAN
      OBVIOUS
    <3> QED
      BY <3>1, <2>1, <2>2 DEF TypeOK, PCs
  <2>7. CASE LateResult(u)
    <3>1. UNCHANGED <<rowVars, fleetVars>>
      BY <2>2, <2>7
    <3>2. TypeOK' /\ InHand' /\ AttemptsMatchState' /\ OutcomeMatchesState'
      BY <3>1, <2>1, <2>5, <2>6 DEF rowVars, fleetVars, TypeOK, InHand,
         AttemptsMatchState, OutcomeMatchesState
    <3>3. LeaseIsHeld'
      BY <3>1, <2>1, <2>5, <2>7 DEF rowVars, LeaseIsHeld, LateResult
    <3> QED
      BY <3>2, <3>3
  <2>8. CASE ~LateResult(u)
    <3>1. /\ rowState' = [rowState EXCEPT ![u] = StateFor(o)]
          /\ outcome' = [outcome EXCEPT ![u] = o]
          /\ holder' = [holder EXCEPT ![u] = NoWorker]
          /\ overdue' = overdue \ {u}
          /\ window' = WindowAfter(o)
          /\ stopped' = StoppedAfter(o)
          /\ UNCHANGED attempts
      BY <2>2, <2>8
    <3>2. TypeOK'
      <4>1. window' \in Seq(BOOLEAN)
        BY <3>1, WindowAfterType DEF TypeOK
      <4>2. stopped' \in {None, "explicit_fleet_stop", "fleet_failure_rate_exceeded"}
        BY <3>1 DEF StoppedAfter, TypeOK
      <4>3. rowState' \in [Units -> UNIT_STATES] /\ outcome' \in [Units -> UNIT_OUTCOMES \cup {None}]
            /\ holder' \in [Units -> Workers \cup {NoWorker}]
            /\ overdue' \subseteq Units /\ attempts' \in [Units -> Nat]
        BY <3>1, <2>3, <2>4 DEF TypeOK
      <4> QED
        BY <4>1, <4>2, <4>3, <2>6 DEF TypeOK
    <3>3. \A v \in Units : rowState'[v] = IF v = u THEN StateFor(o) ELSE rowState[v]
      BY <3>1, <2>4 DEF TypeOK
    <3>4. StateFor(o) # "pending" /\ StateFor(o) # "leased" /\ o # None
      BY <2>3 DEF UNIT_OUTCOMES, None
    <3>5. InHand'
      <4>1. \A v \in Workers : pc'[v] = "processing" => v # w /\ pc[v] = "processing"
                                  /\ Busy(v) /\ unitOf[v] # u
        BY <2>1, <2>4, <2>5 DEF TypeOK, Busy, LeaseIsHeld
      <4>2. \A v \in Workers : Busy(v)' => Busy(v)
        BY <2>5
      <4> QED
        BY <3>3, <3>4, <4>1, <4>2, <2>1, <2>4 DEF InHand
    <3>6. AttemptsMatchState'
      BY <3>1, <3>3, <3>4, <2>4 DEF AttemptsMatchState
    <3>7. OutcomeMatchesState'
      BY <3>1, <3>3, <3>4, <2>4 DEF OutcomeMatchesState, TypeOK
    <3>8. LeaseIsHeld'
      <4>1. \A v \in Units : rowState'[v] = "leased" =>
              v # u /\ rowState[v] = "leased" /\ holder'[v] = holder[v]
        BY <3>1, <3>3, <3>4
      <4>2. \A v \in Units : rowState'[v] = "leased" =>
              \E x \in Workers : holder'[v] = x /\ pc'[x] = "processing" /\ unitOf'[x] = v
        BY <4>1, <2>1, <2>5 DEF LeaseIsHeld
      <4> QED
        BY <4>2, <2>1, <2>5 DEF LeaseIsHeld
    <3> QED
      BY <3>2, <3>5, <3>6, <3>7, <3>8
  <2> QED
    BY <2>7, <2>8
<1>6. ASSUME NEW w \in Workers, Finish(w)
      PROVE  IInv'
  <2>1. pc[w] = "settled" /\ pc' = [Woken(pc) EXCEPT ![w] = "looping"]
        /\ unitOf' = [unitOf EXCEPT ![w] = NoUnit]
        /\ UNCHANGED <<rowVars, fleetVars, aborted>>
    BY <1>6 DEF Finish
  <2>2. /\ \A v \in Workers : v # w => (Busy(v)' <=> Busy(v)) /\ unitOf'[v] = unitOf[v]
                                    /\ (pc'[v] = "processing" <=> pc[v] = "processing")
        /\ ~Busy(w)' /\ pc[w] # "processing"
    BY <2>1, WokenPC DEF Busy, TypeOK, Woken
  <2>3. TypeOK'
    <3>1. pc' \in [Workers -> PCs]
      BY <2>1, WokenPC DEF PCs
    <3>2. admits' \in [Workers -> BOOLEAN] /\ completions' \in Nat
          /\ unitOf' \in [Workers -> Units \cup {NoUnit}]
      BY <1>6, <2>1 DEF Finish, TypeOK
    <3> QED
      BY <3>1, <3>2, <2>1 DEF TypeOK, rowVars, fleetVars
  <2>4. InHand'
    BY <2>1, <2>2 DEF rowVars, InHand, Busy
  <2>5. AttemptsMatchState' /\ OutcomeMatchesState'
    BY <2>1 DEF rowVars, AttemptsMatchState, OutcomeMatchesState
  <2>6. LeaseIsHeld'
    BY <2>1, <2>2 DEF rowVars, LeaseIsHeld
  <2> QED
    BY <2>3, <2>4, <2>5, <2>6
<1>7. ASSUME NEW w \in Workers, Heartbeat(w)
      PROVE  IInv'
  BY <1>7 DEF Heartbeat, fleetVars, TypeOK, InHand, AttemptsMatchState,
     OutcomeMatchesState, LeaseIsHeld, Busy
<1>8. ASSUME NEW u \in Units, LeaseRunsOut(u)
      PROVE  IInv'
  BY <1>8 DEF LeaseRunsOut, fleetVars, TypeOK, InHand, AttemptsMatchState,
     OutcomeMatchesState, LeaseIsHeld, Busy
<1>9. ASSUME Abort
      PROVE  IInv'
  <2>1. /\ \A v \in Workers : Busy(v)' <=> Busy(v)
        /\ \A v \in Workers : pc'[v] = "processing" <=> pc[v] = "processing"
    BY <1>9, WokenPC DEF Abort, Busy
  <2>2. pc' \in [Workers -> PCs] /\ aborted' \in BOOLEAN
    BY <1>9 DEF Abort, Woken, TypeOK, PCs
  <2> QED
    BY <1>9, <2>1, <2>2 DEF Abort, rowVars, fleetVars, TypeOK, InHand, AttemptsMatchState,
       OutcomeMatchesState, LeaseIsHeld
<1>10. CASE UNCHANGED vars
  BY <1>10 DEF vars, TypeOK, InHand, AttemptsMatchState, OutcomeMatchesState,
     LeaseIsHeld, Busy
<1> QED
  BY <1>1, <1>2, <1>3, <1>4, <1>5, <1>6, <1>7, <1>8, <1>9, <1>10 DEF Next, WorkerStep

\* The strengthened invariant holds in every reachable state.
THEOREM Invariance == Spec => []IInv
  BY InitIInv, NextIInv, PTL DEF Spec

-----------------------------------------------------------------------------
(* What follows from it. *)

\* The rows and the workers keep their types.
THEOREM TypeCorrect == Spec => []TypeOK
<1>1. IInv => TypeOK
  BY DEF IInv
<1> QED
  BY <1>1, Invariance, PTL

\* Leases are exclusive: settle never meets a lease of another worker, and
\* no two workers have the same unit in hand.
THEOREM LeasesAreExclusive == Spec => []LeaseIsHeld
<1>1. IInv => LeaseIsHeld
  BY DEF IInv
<1> QED
  BY <1>1, Invariance, PTL

\* No unit is dispatched a second time, whatever expires or comes late.
THEOREM NoBlindRedispatch == Spec => []DispatchedOnce
<1>1. IInv => DispatchedOnce
  BY DEF IInv, AttemptsMatchState, DispatchedOnce
<1> QED
  BY <1>1, Invariance, PTL

-----------------------------------------------------------------------------
(* Action properties. *)

\* A step leaves the units that have an outcome alone.
LEMMA OutcomeStep ==
  ASSUME IInv, [Next]_vars, NEW u \in Units, outcome[u] # None
  PROVE  outcome'[u] = outcome[u] /\ rowState'[u] = rowState[u]
<1>1. rowState[u] \notin {"pending", "leased"} /\ u \notin Expired
  BY DEF IInv, OutcomeMatchesState, Expired
<1>2. CASE Sweep
  BY <1>1, <1>2 DEF Sweep, SweepLeases, SweptState
<1>3. CASE UNCHANGED rowVars
  BY <1>3 DEF rowVars
<1>4. ASSUME NEW w \in Workers, Claim(w)
      PROVE  outcome'[u] = outcome[u] /\ rowState'[u] = rowState[u]
  BY <1>4, <1>1 DEF Claim, Pending, SweepLeases, SweptState
<1>5. ASSUME NEW w \in Workers, Settle(w)
      PROVE  outcome'[u] = outcome[u] /\ rowState'[u] = rowState[u]
  <2>1. CASE LateResult(unitOf[w])
    BY <1>5, <2>1 DEF Settle, rowVars
  <2>2. CASE ~LateResult(unitOf[w])
    <3>1. \E o : rowState' = [rowState EXCEPT ![unitOf[w]] = StateFor(o)]
                 /\ outcome' = [outcome EXCEPT ![unitOf[w]] = o]
      BY <1>5, <2>2 DEF Settle
    <3>2. pc[w] = "processing"
      BY <1>5 DEF Settle
    <3>3. CASE u = unitOf[w]
      BY <1>1, <2>2, <3>2, <3>3 DEF LateResult, IInv, InHand, Busy
    <3>4. CASE u # unitOf[w]
      BY <3>1, <3>4 DEF IInv, TypeOK
    <3> QED
      BY <3>3, <3>4
  <2> QED
    BY <2>1, <2>2
<1>6. CASE \/ \E w \in Workers : \/ StartWorker(w) \/ AwaitAdmission(w) \/ LeaveLoop(w)
                                 \/ Finish(w) \/ Heartbeat(w)
           \/ \E v \in Units : LeaseRunsOut(v)
           \/ Abort
  BY <1>2, <1>3, <1>6 DEF StartWorker, AwaitAdmission, LeaveLoop, Finish, Heartbeat,
     LeaseRunsOut, Abort, rowVars
<1>7. CASE UNCHANGED vars
  BY <1>3, <1>7 DEF vars, rowVars
<1> QED
  BY <1>4, <1>5, <1>6, <1>7 DEF Next, WorkerStep

\* The outcome recorded for a unit is never overwritten.
THEOREM OutcomesAreFinal == Spec => OutcomeIsFinal
<1>1. IInv /\ [Next]_vars =>
        [\A u \in Units : outcome[u] # None =>
           outcome'[u] = outcome[u] /\ rowState'[u] = rowState[u]]_vars
  BY OutcomeStep
<1> QED
  BY <1>1, Invariance, PTL DEF Spec, OutcomeIsFinal

-----------------------------------------------------------------------------
(* The failure window. *)

\* What a step does to the terminal units and their samples: a sweep adds the
\* expired ones as failures, a settle adds one outcome, the others add none.
Swept ==
  /\ Terminal' = Terminal \cup Expired
  /\ window' = SweptWindow /\ stopped' = SweptStopped
  /\ \A u \in Units : outcome'[u] = IF u \in Expired THEN "acceptance_unknown" ELSE outcome[u]

Settled(u, o) ==
  /\ Terminal' = Terminal \cup {u}
  /\ window' = WindowAfter(o) /\ stopped' = StoppedAfter(o)
  /\ outcome' = [outcome EXCEPT ![u] = o]

LEMMA SampleStep ==
  ASSUME IInv, [Next]_vars
  PROVE  \/ Swept
         \/ \E u \in Units \ Terminal, o \in UNIT_OUTCOMES : Settled(u, o)
         \/ UNCHANGED <<Terminal, window, stopped, outcome>>
<1>1. CASE UNCHANGED <<rowState, window, stopped, outcome>>
  BY <1>1 DEF Terminal
<1>2. CASE Sweep
  <2>1. \A u \in Units : rowState'[u] = IF u \in Expired THEN "acceptance_unknown" ELSE rowState[u]
    BY <1>2 DEF Sweep, SweptState
  <2>2. Expired \subseteq Units
    BY DEF Expired, IInv, TypeOK
  <2>3. Terminal' = Terminal \cup Expired
    BY <2>1, <2>2 DEF Terminal
  <2> QED
    BY <1>2, <2>3 DEF Swept, Sweep, SweepLeases
<1>3. ASSUME NEW w \in Workers, Claim(w)
      PROVE  Swept
  <2>1. PICK u \in Pending : SweepLeases /\ rowState' = [SweptState EXCEPT ![u] = "leased"]
    BY <1>3 DEF Claim
  <2>2. \A v \in Units : rowState'[v] = IF v = u THEN "leased"
                                       ELSE IF v \in Expired THEN "acceptance_unknown" ELSE rowState[v]
    BY <2>1 DEF SweptState
  <2>3. Expired \subseteq Units /\ u \notin Expired /\ u \notin Terminal
    BY DEF Expired, IInv, TypeOK, Pending, Terminal
  <2>4. Terminal' = Terminal \cup Expired
    BY <2>2, <2>3 DEF Terminal
  <2> QED
    BY <2>1, <2>4 DEF Swept, SweepLeases
<1>4. ASSUME NEW w \in Workers, Settle(w), ~LateResult(unitOf[w])
      PROVE  \E u \in Units \ Terminal, o \in UNIT_OUTCOMES : Settled(u, o)
  <2> DEFINE u == unitOf[w]
  <2>1. u \in Units /\ rowState[u] = "leased"
    BY <1>4 DEF Settle, LateResult, IInv, InHand, Busy
  <2>2. PICK r \in Results : LET o == SettledOutcome(r)
                            IN  /\ rowState' = [rowState EXCEPT ![u] = StateFor(o)]
                                /\ outcome' = [outcome EXCEPT ![u] = o]
                                /\ window' = WindowAfter(o) /\ stopped' = StoppedAfter(o)
    BY <1>4 DEF Settle
  <2> DEFINE o == SettledOutcome(r)
  <2>3. o \in UNIT_OUTCOMES
    BY DEF SettledOutcome, UNIT_OUTCOMES
  <2>4. StateFor(o) \notin {"pending", "leased"}
    BY DEF StateFor
  <2>5. Terminal' = Terminal \cup {u} /\ u \notin Terminal
    BY <2>1, <2>2, <2>4 DEF Terminal, IInv, TypeOK
  <2>6. Settled(u, o)
    BY <2>2, <2>5 DEF Settled
  <2> QED
    BY <2>1, <2>3, <2>5, <2>6
<1>5. \/ UNCHANGED <<rowState, window, stopped, outcome>> \/ Sweep
      \/ \E w \in Workers : Claim(w) \/ (Settle(w) /\ ~LateResult(unitOf[w]))
  BY DEF Next, WorkerStep, StartWorker, AwaitAdmission, LeaveLoop, Finish, Heartbeat, LeaseRunsOut,
         Abort, Settle, rowVars, fleetVars, vars
<1> QED
  BY <1>1, <1>2, <1>3, <1>4, <1>5

\* The lengths a sweep and a settle give the window.
LEMMA SampleLengths ==
  ASSUME window \in Seq(BOOLEAN), overdue \subseteq Units
  PROVE  LET n == Len(window) + Cardinality(Expired)
         IN  /\ Len(SweptWindow) = IF n > WindowSize THEN WindowSize ELSE n
             /\ \A o : Len(WindowAfter(o)) = IF Len(window) + 1 > WindowSize THEN WindowSize
                                            ELSE Len(window) + 1
<1> DEFINE e == Cardinality(Expired)
           more == [i \in 1..e |-> TRUE]
<1>1. e \in Nat
  BY UnitsFinite DEF Expired
<1>2. more \in Seq(BOOLEAN) /\ Len(more) = e
  <2> HIDE DEF e
  <2>1. more \in [1..e -> BOOLEAN]
    OBVIOUS
  <2> QED
    BY <1>1, <2>1, SeqDef
<1>3. window \o more \in Seq(BOOLEAN) /\ Len(window \o more) = Len(window) + e
  <2> HIDE DEF more, e
  <2> QED
    BY <1>1, <1>2
<1>4. ASSUME NEW o
      PROVE  Len(WindowAfter(o)) = IF Len(window) + 1 > WindowSize THEN WindowSize
                                   ELSE Len(window) + 1
  <2>1. (o \in FLEET_FAILURE_OUTCOMES) \in BOOLEAN
    OBVIOUS
  <2>2. /\ Append(window, o \in FLEET_FAILURE_OUTCOMES) \in Seq(BOOLEAN)
        /\ Len(Append(window, o \in FLEET_FAILURE_OUTCOMES)) = Len(window) + 1
    BY <2>1
  <2> QED
    BY <2>2, SlideType DEF WindowAfter
<1> QED
  BY <1>3, <1>4, SlideType DEF SweptWindow

LEMMA SampledNext ==
  ASSUME IInv, EachOutcomeSampledOnce, [Next]_vars
  PROVE  EachOutcomeSampledOnce'
<1>1. /\ window \in Seq(BOOLEAN) /\ Len(window) \in Nat
      /\ overdue \subseteq Units /\ Expired \subseteq Units
      /\ Expired \cap Terminal = {} /\ Terminal \subseteq Units
  BY DEF IInv, TypeOK, Expired, Terminal
<1>2. /\ IsFiniteSet(Terminal) /\ Cardinality(Terminal) \in Nat
      /\ IsFiniteSet(Expired) /\ Cardinality(Expired) \in Nat
  BY <1>1, UnitsFinite
<1>3. CASE Swept
  <2>1. Cardinality(Terminal') = Cardinality(Terminal) + Cardinality(Expired)
    <3>1. Cardinality(Terminal \cap Expired) = 0
      BY <1>1, FS_EmptySet
    <3>2. Cardinality(Terminal \cup Expired)
            = Cardinality(Terminal) + Cardinality(Expired) - Cardinality(Terminal \cap Expired)
      BY <1>2, FS_Union
    <3> QED
      BY <1>2, <1>3, <3>1, <3>2 DEF Swept
  <2>2. Len(window') = IF Len(window) + Cardinality(Expired) > WindowSize THEN WindowSize
                       ELSE Len(window) + Cardinality(Expired)
    BY <1>1, <1>3, SampleLengths DEF Swept
  <2> QED
    BY <1>1, <1>2, <2>1, <2>2 DEF EachOutcomeSampledOnce
<1>4. ASSUME NEW u \in Units \ Terminal, NEW o \in UNIT_OUTCOMES, Settled(u, o)
      PROVE  EachOutcomeSampledOnce'
  <2>1. Cardinality(Terminal') = Cardinality(Terminal) + 1
    BY <1>2, <1>4, FS_AddElement DEF Settled
  <2>2. Len(window') = IF Len(window) + 1 > WindowSize THEN WindowSize ELSE Len(window) + 1
    BY <1>1, <1>4, SampleLengths DEF Settled
  <2> QED
    BY <1>1, <1>2, <2>1, <2>2 DEF EachOutcomeSampledOnce
<1>5. CASE UNCHANGED <<Terminal, window, stopped, outcome>>
  BY <1>5 DEF EachOutcomeSampledOnce
<1> QED
  BY <1>3, <1>4, <1>5, SampleStep

\* Every terminal outcome is one sample of the failure rate, whatever comes
\* late, expires or is swept twice.
THEOREM OutcomesAreSampledOnce == Spec => []EachOutcomeSampledOnce
<1>1. Init => EachOutcomeSampledOnce
  <2> SUFFICES ASSUME Init PROVE EachOutcomeSampledOnce
    OBVIOUS
  <2>1. Terminal = {} /\ Len(window) = 0
    BY DEF Init, Terminal
  <2> QED
    BY <2>1, FS_EmptySet DEF EachOutcomeSampledOnce
<1>2. IInv /\ EachOutcomeSampledOnce /\ [Next]_vars => EachOutcomeSampledOnce'
  BY SampledNext
<1> QED
  BY <1>1, <1>2, Invariance, PTL DEF Spec

-----------------------------------------------------------------------------
(* What is left when runQueue returns. *)

\* A worker returns only where the queue is stopped, aborted or exhausted.
ReturnedForCause ==
  (\E w \in Workers : pc[w] = "returned") => aborted \/ stopped # None \/ Pending = {}

\* A stop and an abort are for good, and nothing becomes pending again.
LEMMA CausesStay ==
  ASSUME IInv, [Next]_vars
  PROVE  /\ aborted => aborted'
         /\ stopped # None => stopped' # None
         /\ Pending' \subseteq Pending
<1>1. aborted => aborted'
  BY DEF Next, WorkerStep, StartWorker, AwaitAdmission, LeaveLoop, Claim, Settle, Finish, Heartbeat,
         LeaseRunsOut, Abort, vars
<1>2. SweptStopped = stopped \/ SweptStopped # None
  BY DEF SweptStopped, None
<1>3. \A o : StoppedAfter(o) = stopped \/ StoppedAfter(o) # None
  BY DEF StoppedAfter, None
<1>4. stopped # None => stopped' # None
  BY <1>2, <1>3, SampleStep DEF Swept, Settled
<1>5. CASE UNCHANGED rowState
  BY <1>1, <1>4, <1>5 DEF Pending
<1>6. CASE Sweep
  <2>1. Pending' \subseteq Pending
    BY <1>6 DEF Sweep, SweptState, Pending
  <2> QED
    BY <1>1, <1>4, <2>1
<1>7. ASSUME NEW w \in Workers, Claim(w)
      PROVE  Pending' \subseteq Pending
  BY <1>7 DEF Claim, SweptState, Pending
<1>8. ASSUME NEW w \in Workers, Settle(w)
      PROVE  Pending' \subseteq Pending
  <2>1. \A o : StateFor(o) # "pending"
    BY DEF StateFor
  <2>2. rowState' = rowState \/ \E o : rowState' = [rowState EXCEPT ![unitOf[w]] = StateFor(o)]
    BY <1>8 DEF Settle, rowVars
  <2> QED
    BY <2>1, <2>2 DEF Pending, IInv, TypeOK
<1>9. \/ UNCHANGED rowState \/ Sweep \/ \E w \in Workers : Claim(w) \/ Settle(w)
  BY DEF Next, WorkerStep, StartWorker, AwaitAdmission, LeaveLoop, Finish, Heartbeat, LeaseRunsOut,
         Abort, rowVars, vars
<1> QED
  BY <1>1, <1>4, <1>5, <1>6, <1>7, <1>8, <1>9

LEMMA ReturnedNext ==
  ASSUME IInv, ReturnedForCause, [Next]_vars
  PROVE  ReturnedForCause'
<1>1. SUFFICES ASSUME NEW w \in Workers, pc'[w] = "returned", pc[w] # "returned"
               PROVE  aborted' \/ stopped' # None \/ Pending' = {}
  BY CausesStay DEF ReturnedForCause
<1>2. AwaitAdmission(w) \/ LeaveLoop(w)
  BY <1>1 DEF IInv, TypeOK, Next, WorkerStep, StartWorker, AwaitAdmission, LeaveLoop, Claim, Settle,
         Finish, Heartbeat, LeaseRunsOut, Abort, Woken, vars
<1>3. CASE AwaitAdmission(w)
  <2>1. aborted \/ stopped # None \/ Pending = {}
    BY <1>1, <1>3 DEF AwaitAdmission, IInv, TypeOK
  <2> QED
    BY <2>1, CausesStay
<1>4. CASE LeaveLoop(w)
  <2>1. aborted \/ Pending = {} \/ (SweptStopped # None /\ stopped' = SweptStopped)
    BY <1>4 DEF LeaveLoop, Sweep, SweepLeases
  <2> QED
    BY <2>1, CausesStay
<1> QED
  BY <1>2, <1>3, <1>4

\* When all workers have returned no lease is left, and a unit was left
\* untried only because the fleet stopped or the caller aborted.
THEOREM NothingIsLeft == Spec => []NothingLeftBehind
<1>1. Init => ReturnedForCause
  BY DEF Init, ReturnedForCause
<1>2. IInv /\ ReturnedForCause /\ [Next]_vars => ReturnedForCause'
  BY ReturnedNext
<1>3. IInv /\ ReturnedForCause => NothingLeftBehind
  <2> SUFFICES ASSUME IInv, ReturnedForCause, AllReturned, NEW u \in Units
               PROVE  /\ rowState[u] # "leased"
                      /\ rowState[u] = "pending" => aborted \/ stopped # None
    BY DEF NothingLeftBehind
  <2>1. rowState[u] # "leased"
    BY DEF IInv, LeaseIsHeld, AllReturned
  <2>2. \E w \in Workers : pc[w] = "returned"
    <3>1. 1 \in Workers
      BY DEF Workers
    <3> QED
      BY <3>1 DEF AllReturned
  <2>3. rowState[u] = "pending" => u \in Pending
    BY DEF Pending
  <2> QED
    BY <2>1, <2>2, <2>3 DEF ReturnedForCause
<1> QED
  BY <1>1, <1>2, <1>3, Invariance, PTL DEF Spec

-----------------------------------------------------------------------------
(* The overshoot of a fleet whose provider fails. *)

AllFail == \A u \in Terminal : outcome[u] \in FLEET_FAILURE_OUTCOMES
Dispatched == {u \in Units : attempts[u] > 0}
Leased == {u \in Units : rowState[u] = "leased"}

\* While every outcome is a failure, so is every sample, and MinSamples of
\* them have stopped the fleet.
FailuresStop ==
  AllFail => /\ \A i \in 1..Len(window) : window[i]
             /\ Cardinality(Terminal) >= MinSamples => stopped # None

\* Sliding keeps a window of failures one.
LEMMA SlideFails ==
  ASSUME NEW s \in Seq(BOOLEAN), \A i \in 1..Len(s) : s[i]
  PROVE  \A i \in 1..Len(Slide(s)) : Slide(s)[i]
<1>1. CASE Len(s) > WindowSize
  <2> DEFINE m == Len(s) - WindowSize + 1
             t == SubSeq(s, m, Len(s))
  <2>1. m \in 1..Len(s) + 1 /\ Len(s) \in Nat
    BY <1>1
  <2>2. Len(t) = WindowSize /\ \A i \in 1..WindowSize : t[i] = s[m + i - 1]
    BY <2>1, <1>1
  <2>3. \A i \in 1..WindowSize : m + i - 1 \in 1..Len(s)
    BY <2>1
  <2>4. Slide(s) = t
    BY <1>1 DEF Slide
  <2> HIDE DEF t, m
  <2> QED
    BY <2>2, <2>3, <2>4
<1>2. CASE ~(Len(s) > WindowSize)
  BY <1>2 DEF Slide
<1> QED
  BY <1>1, <1>2

\* A long enough window of failures exceeds every rate below one.
LEMMA FailuresExceed ==
  ASSUME RateNum < RateDen, NEW s \in Seq(BOOLEAN), Len(s) >= MinSamples,
         \A i \in 1..Len(s) : s[i]
  PROVE  RateExceeded(s)
<1> DEFINE n == Len(s)
<1>1. n \in Nat /\ n > 0 /\ DOMAIN s = 1..n
  OBVIOUS
<1>2. {i \in DOMAIN s : s[i]} = 1..n
  BY <1>1
<1>3. Failures(s) = n
  <2>1. Cardinality(1..n) = n
    BY <1>1, FS_Interval
  <2> QED
    BY <1>2, <2>1 DEF Failures
<1> HIDE DEF n
<1>4. n * RateDen > RateNum * n
  <2>1. \E d \in Nat : d > 0 /\ RateDen = RateNum + d
    <3>1. RateDen - RateNum \in Nat /\ RateDen - RateNum > 0 /\ RateDen = RateNum + (RateDen - RateNum)
      OBVIOUS
    <3> QED
      BY <3>1
  <2>2. PICK d \in Nat : d > 0 /\ RateDen = RateNum + d
    BY <2>1
  <2>3. n * (RateNum + d) = RateNum * n + n * d /\ n * d > 0 /\ RateNum * n \in Nat /\ n * d \in Nat
    BY <1>1, <2>2
  <2> QED
    BY <2>2, <2>3
<1> QED
  BY <1>3, <1>4 DEF RateExceeded, n

\* Each leased unit has a worker of its own.
LEMMA LeasedFew ==
  ASSUME NEW L, NEW h \in [L -> Workers], \A u, v \in L : h[u] = h[v] => u = v
  PROVE  IsFiniteSet(L) /\ Cardinality(L) \in Nat /\ Cardinality(L) <= Concurrency
<1>1. h \in Injection(L, Workers)
  BY DEF Injection, IsInjective
<1>2. IsFiniteSet(Workers) /\ Cardinality(Workers) = Concurrency
  BY FS_Interval DEF Workers
<1>3. IsFiniteSet(L) /\ Cardinality(L) <= Cardinality(Workers)
  BY <1>1, <1>2, FS_Injection
<1> QED
  BY <1>2, <1>3, FS_CardinalityType

\* If all have failed after a step, all had failed before it.
LEMMA AllFailBefore ==
  ASSUME IInv, [Next]_vars, AllFail'
  PROVE  AllFail
<1>1. Terminal \subseteq Terminal'
  BY SampleStep DEF Swept, Settled
<1>2. \A u \in Terminal : outcome'[u] = outcome[u]
  BY OutcomeStep DEF Terminal, IInv, OutcomeMatchesState
<1> QED
  BY <1>1, <1>2 DEF AllFail

LEMMA FailuresNext ==
  ASSUME RateNum < RateDen, IInv, FailuresStop, EachOutcomeSampledOnce', [Next]_vars
  PROVE  FailuresStop'
<1> SUFFICES ASSUME AllFail'
             PROVE  /\ \A i \in 1..Len(window') : window'[i]
                    /\ Cardinality(Terminal') >= MinSamples => stopped' # None
  BY DEF FailuresStop
<1>1. /\ \A i \in 1..Len(window) : window[i]
      /\ Cardinality(Terminal) >= MinSamples => stopped # None
      /\ window \in Seq(BOOLEAN) /\ overdue \subseteq Units
  BY AllFailBefore DEF FailuresStop, IInv, TypeOK
<1>2. window' \in Seq(BOOLEAN)
  BY <1>1, SweptWindowType, WindowAfterType, SampleStep DEF Swept, Settled
<1>3. (\A i \in 1..Len(window') : window'[i]) /\ Cardinality(Terminal') >= MinSamples
      => RateExceeded(window')
  <2>1. Cardinality(Terminal') >= MinSamples => Len(window') >= MinSamples
    <3>1. Terminal' \subseteq Units
      BY DEF Terminal
    <3>2. Cardinality(Terminal') \in Nat
      BY <3>1, UnitsFinite
    <3> QED
      BY <3>2 DEF EachOutcomeSampledOnce
  <2> QED
    BY <1>2, <2>1, FailuresExceed
<1>4. CASE Swept
  <2> DEFINE e == Cardinality(Expired)
             more == [i \in 1..e |-> TRUE]
             s == window \o more
  <2>1. e \in Nat
    BY <1>1, UnitsFinite DEF Expired
  <2>2. more \in Seq(BOOLEAN) /\ Len(more) = e /\ \A i \in 1..e : more[i]
    <3> HIDE DEF e
    <3>1. more \in [1..e -> BOOLEAN]
      OBVIOUS
    <3>2. more \in Seq(BOOLEAN) /\ Len(more) = e
      BY <2>1, <3>1, SeqDef
    <3>3. \A i \in 1..e : more[i]
      OBVIOUS
    <3> QED
      BY <3>2, <3>3
  <2>3. s \in Seq(BOOLEAN) /\ \A i \in 1..Len(s) : s[i]
    <3> HIDE DEF more, e
    <3>1. s \in Seq(BOOLEAN) /\ Len(s) = Len(window) + e
      BY <1>1, <2>1, <2>2
    <3>2. \A i \in 1..Len(s) : s[i] = IF i <= Len(window) THEN window[i] ELSE more[i - Len(window)]
      BY <1>1, <2>1, <2>2
    <3>3. Len(window) \in Nat
      BY <1>1
    <3> HIDE DEF s
    <3>4. ASSUME NEW i \in 1..Len(s) PROVE s[i]
      <4>1. CASE i <= Len(window)
        BY <1>1, <3>2, <3>3, <4>1
      <4>2. CASE ~(i <= Len(window))
        <5>1. i - Len(window) \in 1..e
          BY <2>1, <3>1, <3>3, <4>2
        <5> QED
          BY <2>2, <3>2, <4>2, <5>1
      <4> QED
        BY <4>1, <4>2
    <3> QED
      BY <3>1, <3>4
  <2>4. window' = Slide(s)
    BY <1>4 DEF Swept, SweptWindow
  <2> HIDE DEF s
  <2>5. \A i \in 1..Len(window') : window'[i]
    BY <2>3, <2>4, SlideFails
  <2>6. CASE Expired = {}
    BY <1>1, <1>4, <2>5, <2>6 DEF Swept, SweptStopped
  <2>7. CASE Expired # {}
    BY <1>3, <1>4, <2>5, <2>7 DEF Swept, SweptStopped, None
  <2> QED
    BY <2>6, <2>7, <2>5
<1>5. ASSUME NEW u \in Units \ Terminal, NEW o \in UNIT_OUTCOMES, Settled(u, o)
      PROVE  /\ \A i \in 1..Len(window') : window'[i]
             /\ Cardinality(Terminal') >= MinSamples => stopped' # None
  <2>1. o \in FLEET_FAILURE_OUTCOMES
    BY <1>5 DEF Settled, AllFail, IInv, TypeOK
  <2> DEFINE s == Append(window, o \in FLEET_FAILURE_OUTCOMES)
  <2>2. (o \in FLEET_FAILURE_OUTCOMES) = TRUE
    BY <2>1
  <2>3. s = Append(window, TRUE)
    BY <2>2
  <2>4. Append(window, TRUE) \in Seq(BOOLEAN) /\ \A i \in 1..Len(Append(window, TRUE)) : Append(window, TRUE)[i]
    BY <1>1
  <2>5. window' = Slide(Append(window, TRUE))
    BY <1>5, <2>3 DEF Settled, WindowAfter
  <2>6. \A i \in 1..Len(window') : window'[i]
    BY <2>4, <2>5, SlideFails
  <2>7. RateExceeded(window') => stopped' # None
    BY <1>5 DEF Settled, StoppedAfter, None
  <2> QED
    BY <1>3, <2>6, <2>7
<1>6. CASE UNCHANGED <<Terminal, window, stopped, outcome>>
  BY <1>1, <1>6
<1> QED
  BY <1>4, <1>5, <1>6, SampleStep

\* A claim is the step that dispatches, and it finds the fleet not stopped:
\* fewer than MinSamples failed, and the rest are in the workers' hands.
LEMMA OvershootNext ==
  ASSUME IInv, IInv', FailuresStop', OvershootIsBounded, [Next]_vars
  PROVE  OvershootIsBounded'
<1> SUFFICES ASSUME AllFail'
             PROVE  Cardinality(Dispatched') <= MinSamples - 1 + Concurrency
  BY DEF OvershootIsBounded, AllFail, Dispatched
<1>1. CASE UNCHANGED attempts
  <2>1. Dispatched' = Dispatched
    BY <1>1 DEF Dispatched
  <2> QED
    BY <2>1, AllFailBefore DEF OvershootIsBounded, AllFail, Dispatched
<1>2. ASSUME NEW w \in Workers, Claim(w)
      PROVE  Cardinality(Dispatched') <= MinSamples - 1 + Concurrency
  <2>1. Dispatched' = Terminal' \cup Leased'
    BY DEF Dispatched, Terminal, Leased, IInv, AttemptsMatchState
  <2>2. /\ IsFiniteSet(Terminal') /\ Cardinality(Terminal') \in Nat
        /\ Cardinality(Terminal') < MinSamples
    <3>1. Terminal' \subseteq Units
      BY DEF Terminal
    <3>2. stopped' = None
      BY <1>2 DEF Claim, SweepLeases
    <3> QED
      BY <3>1, <3>2, UnitsFinite DEF FailuresStop
  <2>3. IsFiniteSet(Leased') /\ Cardinality(Leased') \in Nat /\ Cardinality(Leased') <= Concurrency
    <3> DEFINE L == Leased'
               h == [u \in L |-> holder'[u]]
    <3>1. h \in [L -> Workers]
      BY DEF Leased, IInv, LeaseIsHeld
    <3>2. \A u, v \in L : h[u] = h[v] => u = v
      BY DEF Leased, IInv, LeaseIsHeld
    <3> HIDE DEF h, L
    <3>3. IsFiniteSet(L) /\ Cardinality(L) \in Nat /\ Cardinality(L) <= Concurrency
      BY <3>1, <3>2, LeasedFew
    <3> QED
      BY <3>3 DEF L
  <2>4. /\ Cardinality(Terminal' \cup Leased')
           = Cardinality(Terminal') + Cardinality(Leased') - Cardinality(Terminal' \cap Leased')
        /\ Cardinality(Terminal' \cap Leased') = 0
    <3>1. Terminal' \cap Leased' = {}
      BY DEF Terminal, Leased
    <3> QED
      BY <2>2, <2>3, <3>1, FS_Union, FS_EmptySet
  <2> QED
    BY <2>1, <2>2, <2>3, <2>4
<1>3. UNCHANGED attempts \/ \E w \in Workers : Claim(w)
  BY DEF Next, WorkerStep, StartWorker, AwaitAdmission, LeaveLoop, Settle, Finish, Heartbeat,
         LeaseRunsOut, Abort, Sweep, rowVars, vars
<1> QED
  BY <1>1, <1>2, <1>3

\* With a rate below one, a fleet whose provider fails every unit stops
\* before it has dispatched MinSamples units more than it has workers for.
THEOREM OvershootIsSmall ==
  ASSUME RateNum < RateDen
  PROVE  Spec => []OvershootIsBounded
<1>1. Init => FailuresStop /\ OvershootIsBounded
  <2> SUFFICES ASSUME Init PROVE FailuresStop /\ OvershootIsBounded
    OBVIOUS
  <2>1. Terminal = {} /\ Len(window) = 0 /\ {u \in Units : attempts[u] > 0} = {}
    BY DEF Init, Terminal
  <2> QED
    BY <2>1, FS_EmptySet DEF FailuresStop, OvershootIsBounded
<1>2. IInv /\ IInv' /\ EachOutcomeSampledOnce' /\ FailuresStop /\ OvershootIsBounded /\ [Next]_vars
      => FailuresStop' /\ OvershootIsBounded'
  BY FailuresNext, OvershootNext
<1> QED
  BY <1>1, <1>2, Invariance, OutcomesAreSampledOnce, PTL DEF Spec

-----------------------------------------------------------------------------
(* Who wakes the waiters. *)

\* A worker of the first hour never waits for admission; while another does,
\* nobody has aborted, units are left, and a stopped queue has one in hand.
Wakers ==
  /\ \A w \in Workers : w <= InitialWorkers => pc[w] \notin {"admission", "waiting"}
  /\ (\E w \in Workers : pc[w] = "waiting") =>
       /\ ~aborted /\ Pending # {}
       /\ stopped # None => \E v \in Workers : Busy(v)

\* A sweep takes nothing from the queue, and where it stops the fleet it found
\* a lease whose worker is still processing.
LEMMA SweepStops ==
  ASSUME IInv, Sweep
  PROVE  /\ Pending' = Pending
         /\ stopped' # None => stopped # None \/ \E v \in Workers : pc[v] = "processing"
<1>1. rowState' = SweptState /\ stopped' = SweptStopped
  BY DEF Sweep, SweepLeases
<1>2. Pending' = Pending
  BY <1>1 DEF Pending, SweptState, Expired
<1>3. ASSUME Expired # {} PROVE \E v \in Workers : pc[v] = "processing"
  <2>1. PICK u \in Expired : TRUE
    BY <1>3
  <2>2. u \in Units /\ rowState[u] = "leased"
    BY <2>1 DEF Expired, IInv, TypeOK
  <2> QED
    BY <2>2 DEF IInv, LeaseIsHeld
<1> QED
  BY <1>1, <1>2, <1>3 DEF SweptStopped

LEMMA WakersNext ==
  ASSUME IInv, Wakers, [Next]_vars
  PROVE  Wakers'
<1>0. pc \in [Workers -> PCs]
  BY DEF IInv, TypeOK
<1>1. ASSUME NEW w \in Workers, w <= InitialWorkers PROVE pc'[w] \notin {"admission", "waiting"}
  <2>1. pc[w] \notin {"admission", "waiting"}
    BY <1>1 DEF Wakers
  <2> QED
    BY <1>0, <1>1, <2>1 DEF Next, WorkerStep, StartWorker, AwaitAdmission, LeaveLoop, Claim, Settle,
       Finish, Heartbeat, LeaseRunsOut, Abort, Woken, vars
<1>2. ASSUME NEW w \in Workers, pc'[w] = "waiting"
      PROVE  ~aborted' /\ Pending' # {} /\ (stopped' # None => \E v \in Workers : Busy(v)')
  <2>1. ASSUME NEW x \in Workers, Claim(x) \/ Finish(x) PROVE FALSE
    BY <1>0, <1>2, <2>1 DEF Claim, Finish, Woken
  <2>2. ~Abort
    BY <1>0, <1>2 DEF Abort, Woken
  <2>3. ASSUME NEW x \in Workers, AwaitAdmission(x) PROVE
          ~aborted' /\ Pending' # {} /\ (stopped' # None => \E v \in Workers : Busy(v)')
    <3>1. pc[x] = "admission" /\ aborted' = aborted /\ \A v \in Workers : v # x => pc'[v] = pc[v]
      BY <1>0, <2>3 DEF AwaitAdmission
    <3>2. CASE pc[w] = "waiting"
      <4>1. ~aborted /\ Pending # {} /\ (stopped # None => \E v \in Workers : Busy(v))
        BY <3>2 DEF Wakers
      <4>2. CASE UNCHANGED <<rowVars, fleetVars>>
        <5>1. Pending' = Pending /\ stopped' = stopped
          BY <4>2 DEF Pending, rowVars, fleetVars
        <5> QED
          BY <3>1, <4>1, <5>1 DEF Busy
      <4>3. CASE Sweep
        BY <3>1, <4>1, <4>3, SweepStops DEF Busy
      <4> QED
        BY <2>3, <4>2, <4>3 DEF AwaitAdmission
    <3>3. CASE pc[w] # "waiting"
      <4>1. w = x
        BY <1>2, <3>1, <3>3
      <4>2. ~aborted /\ stopped = None /\ Sweep /\ Pending # {}
        BY <1>0, <1>2, <2>3, <4>1 DEF AwaitAdmission
      <4>3. stopped' # None => \E v \in Workers : pc[v] = "processing"
        BY <4>2, SweepStops
      <4> QED
        BY <3>1, <4>2, <4>3, SweepStops DEF Busy
    <3> QED
      BY <3>2, <3>3
  <2>4. ASSUME \A x \in Workers : ~AwaitAdmission(x)
        PROVE  ~aborted' /\ Pending' # {} /\ (stopped' # None => \E v \in Workers : Busy(v)')
    <3>1. pc[w] = "waiting" /\ aborted' = aborted
      BY <1>0, <1>2, <2>1, <2>2, <2>4 DEF Next, WorkerStep, StartWorker, LeaveLoop, Settle, Heartbeat,
         LeaseRunsOut, vars
    <3>2. ~aborted /\ Pending # {} /\ (stopped # None => \E v \in Workers : Busy(v))
      BY <3>1 DEF Wakers
    <3>3. CASE UNCHANGED <<rowState, stopped>> /\ \A v \in Workers : Busy(v) => Busy(v)'
      <4>1. Pending' = Pending
        BY <3>3 DEF Pending
      <4> QED
        BY <3>1, <3>2, <3>3, <4>1
    <3>4. ASSUME NEW x \in Workers, LeaveLoop(x), Sweep
          PROVE  Pending' # {} /\ (stopped' # None => \E v \in Workers : Busy(v)')
      <4>1. pc[x] = "looping" /\ \A v \in Workers : v # x => pc'[v] = pc[v]
        BY <1>0, <3>4 DEF LeaveLoop
      <4> QED
        BY <3>2, <3>4, <4>1, SweepStops DEF Busy
    <3>5. ASSUME NEW x \in Workers, Settle(x)
          PROVE  Pending' # {} /\ (stopped' # None => \E v \in Workers : Busy(v)')
      <4>1. Busy(x)'
        BY <1>0, <3>5 DEF Settle, Busy
      <4>2. Pending' = Pending
        <5>1. rowState[unitOf[x]] # "pending"
          BY <3>5 DEF IInv, InHand, Settle, Busy
        <5>2. \A o : StateFor(o) # "pending"
          BY DEF StateFor
        <5>3. rowState' = rowState \/ \E o : rowState' = [rowState EXCEPT ![unitOf[x]] = StateFor(o)]
          BY <3>5 DEF Settle, rowVars
        <5>4. rowState \in [Units -> UNIT_STATES]
          BY DEF IInv, TypeOK
        <5> QED
          BY <5>1, <5>2, <5>3, <5>4 DEF Pending
      <4> QED
        BY <3>2, <4>1, <4>2
    <3>6. \/ UNCHANGED <<rowState, stopped>> /\ \A v \in Workers : Busy(v) => Busy(v)'
          \/ \E x \in Workers : LeaveLoop(x) /\ Sweep
          \/ \E x \in Workers : Settle(x)
      <4>1. CASE UNCHANGED vars
        BY <4>1 DEF vars, Busy
      <4>2. ASSUME NEW x \in Workers, StartWorker(x)
            PROVE  UNCHANGED <<rowState, stopped>> /\ \A v \in Workers : Busy(v) => Busy(v)'
        BY <1>0, <4>2 DEF StartWorker, Busy, rowVars, fleetVars
      <4>3. ASSUME NEW x \in Workers, LeaveLoop(x), ~Sweep
            PROVE  UNCHANGED <<rowState, stopped>> /\ \A v \in Workers : Busy(v) => Busy(v)'
        BY <1>0, <4>3 DEF LeaveLoop, Busy, rowVars, fleetVars
      <4>4. ASSUME NEW x \in Workers, Heartbeat(x)
            PROVE  UNCHANGED <<rowState, stopped>> /\ \A v \in Workers : Busy(v) => Busy(v)'
        BY <4>4 DEF Heartbeat, Busy, fleetVars
      <4>5. ASSUME NEW u \in Units, LeaseRunsOut(u)
            PROVE  UNCHANGED <<rowState, stopped>> /\ \A v \in Workers : Busy(v) => Busy(v)'
        BY <4>5 DEF LeaseRunsOut, Busy, fleetVars
      <4> QED
        BY <2>1, <2>2, <2>4, <4>1, <4>2, <4>3, <4>4, <4>5 DEF Next, WorkerStep
    <3> QED
      BY <3>1, <3>2, <3>3, <3>4, <3>5, <3>6
  <2> QED
    BY <2>3, <2>4
<1> QED
  BY <1>1, <1>2 DEF Wakers

\* Whichever way the other workers end, a worker that waits for admission is
\* not the last: somebody will wake it.
THEOREM WaitersHaveWakers == Spec => []WaiterHasWaker
<1>1. Init => Wakers
  BY DEF Init, Wakers
<1>2. IInv /\ Wakers /\ [Next]_vars => Wakers'
  BY WakersNext
<1>3. IInv /\ ReturnedForCause /\ Wakers => WaiterHasWaker
  <2> SUFFICES ASSUME IInv, ReturnedForCause, Wakers, NEW w \in Workers, pc[w] = "waiting"
               PROVE  /\ ~aborted /\ Pending # {}
                      /\ \E v \in Workers :
                           Busy(v) \/ (stopped = None /\ v <= InitialWorkers
                                       /\ pc[v] \in {"starting", "looping"})
    BY DEF WaiterHasWaker
  <2>1. ~aborted /\ Pending # {} /\ (stopped # None => \E v \in Workers : Busy(v))
    BY DEF Wakers
  <2>2. 1 \in Workers /\ 1 <= InitialWorkers
    BY DEF Workers
  <2>3. pc[1] \in {"starting", "looping", "processing", "settled", "returned"}
    BY <2>2 DEF Wakers, IInv, TypeOK, PCs
  <2>4. pc[1] = "returned" => stopped # None
    BY <2>1, <2>2 DEF ReturnedForCause
  <2> QED
    BY <2>1, <2>2, <2>3, <2>4 DEF Busy
<1>4. Init => ReturnedForCause
  BY DEF Init, ReturnedForCause
<1>5. IInv /\ ReturnedForCause /\ [Next]_vars => ReturnedForCause'
  BY ReturnedNext
<1> QED
  BY <1>1, <1>2, <1>3, <1>4, <1>5, Invariance, PTL DEF Spec

-----------------------------------------------------------------------------
(* The queue implements a work list. *)

\* Only a busy worker has a unit.
HandsAreKnown == \A w \in Workers : ~Busy(w) => unitOf[w] = NoUnit

\* Units leave the queue in its order.
InOrder == \A u, v \in Units : v < u /\ rowState[v] = "pending" => rowState[u] = "pending"

\* A failure in the window is the outcome of a unit.
SamplesAreOutcomes ==
  (\E i \in 1..Len(window) : window[i]) => \E u \in Units : outcome[u] \in FLEET_FAILURE_OUTCOMES

ListInv == HandsAreKnown /\ InOrder /\ SamplesAreOutcomes

\* Sliding adds no failure.
LEMMA SlideAddsNone ==
  ASSUME NEW s \in Seq(BOOLEAN), NEW i \in 1..Len(Slide(s)), Slide(s)[i]
  PROVE  \E j \in 1..Len(s) : s[j]
<1>1. CASE Len(s) > WindowSize
  <2> DEFINE m == Len(s) - WindowSize + 1
             t == SubSeq(s, m, Len(s))
  <2>1. m \in 1..Len(s) + 1 /\ Len(s) \in Nat
    BY <1>1
  <2>2. Len(t) = WindowSize /\ \A k \in 1..WindowSize : t[k] = s[m + k - 1]
    BY <2>1, <1>1
  <2>3. \A k \in 1..WindowSize : m + k - 1 \in 1..Len(s)
    BY <2>1
  <2>4. Slide(s) = t
    BY <1>1 DEF Slide
  <2> HIDE DEF t, m
  <2> QED
    BY <2>2, <2>3, <2>4
<1>2. CASE ~(Len(s) > WindowSize)
  BY <1>2 DEF Slide
<1> QED
  BY <1>1, <1>2

\* A window that exceeds the rate holds a failure.
LEMMA ExceededHasFailure ==
  ASSUME NEW s \in Seq(BOOLEAN), RateExceeded(s)
  PROVE  \E i \in 1..Len(s) : s[i]
<1> SUFFICES ASSUME \A i \in 1..Len(s) : ~s[i]
             PROVE  FALSE
  OBVIOUS
<1>1. {i \in DOMAIN s : s[i]} = {} /\ Len(s) \in Nat
  OBVIOUS
<1>2. Failures(s) = 0
  BY <1>1, FS_EmptySet DEF Failures
<1>3. RateNum * Len(s) >= 0 /\ 0 * RateDen = 0
  BY <1>1
<1> QED
  BY <1>1, <1>2, <1>3 DEF RateExceeded

\* An outcome is given to a unit that is leased.
LEMMA LeasedGetOutcomes ==
  ASSUME IInv, [Next]_vars, NEW u \in Units, outcome'[u] # outcome[u]
  PROVE  rowState[u] = "leased" /\ outcome[u] = None
<1>1. outcome[u] = None
  BY OutcomeStep
<1>2. CASE Sweep \/ \E w \in Workers : Claim(w)
  <2>1. u \in Expired
    BY <1>2 DEF Sweep, Claim, SweepLeases
  <2> QED
    BY <1>1, <2>1 DEF Expired
<1>3. ASSUME NEW w \in Workers, Settle(w)
      PROVE  rowState[u] = "leased"
  <2>1. ~LateResult(unitOf[w])
    BY <1>3 DEF Settle, rowVars
  <2>2. \E o : outcome' = [outcome EXCEPT ![unitOf[w]] = o]
    BY <1>3, <2>1 DEF Settle
  <2>3. u = unitOf[w]
    BY <2>2 DEF IInv, TypeOK
  <2> QED
    BY <1>3, <2>1, <2>3 DEF Settle, LateResult, IInv, InHand
<1>4. Sweep \/ \E w \in Workers : Claim(w) \/ Settle(w)
  BY DEF Next, WorkerStep, StartWorker, AwaitAdmission, LeaveLoop, Finish, Heartbeat, LeaseRunsOut,
         Abort, rowVars, vars
<1> QED
  BY <1>1, <1>2, <1>3, <1>4

\* What is claimed is the first pending unit, and nothing else ceases to be
\* pending.
LEMMA PendingStep ==
  ASSUME IInv, [Next]_vars
  PROVE  \/ Pending' = Pending
         \/ \E u \in Pending : Pending' = Pending \ {u} /\ \A v \in Pending : u <= v
<1>1. CASE UNCHANGED rowState
  BY <1>1 DEF Pending
<1>2. CASE Sweep
  BY <1>2, SweepStops
<1>3. ASSUME NEW w \in Workers, Claim(w)
      PROVE  \E u \in Pending : Pending' = Pending \ {u} /\ \A v \in Pending : u <= v
  <2>1. PICK u \in Pending : /\ \A v \in Pending : u <= v
                             /\ rowState' = [SweptState EXCEPT ![u] = "leased"]
    BY <1>3 DEF Claim
  <2>2. Pending' = Pending \ {u}
    BY <2>1 DEF Pending, SweptState, Expired
  <2> QED
    BY <2>1, <2>2
<1>4. ASSUME NEW w \in Workers, Settle(w)
      PROVE  Pending' = Pending
  <2>1. rowState[unitOf[w]] # "pending"
    BY <1>4 DEF IInv, InHand, Settle, Busy
  <2>2. \A o : StateFor(o) # "pending"
    BY DEF StateFor
  <2>3. rowState' = rowState \/ \E o : rowState' = [rowState EXCEPT ![unitOf[w]] = StateFor(o)]
    BY <1>4 DEF Settle, rowVars
  <2> QED
    BY <2>1, <2>2, <2>3 DEF Pending, IInv, TypeOK
<1>5. \/ UNCHANGED rowState \/ Sweep \/ \E w \in Workers : Claim(w) \/ Settle(w)
  BY DEF Next, WorkerStep, StartWorker, AwaitAdmission, LeaveLoop, Finish, Heartbeat, LeaseRunsOut,
         Abort, rowVars, vars
<1> QED
  BY <1>1, <1>2, <1>3, <1>4, <1>5

LEMMA SamplesNext == ASSUME IInv, SamplesAreOutcomes, [Next]_vars PROVE SamplesAreOutcomes'
<1>1. /\ window \in Seq(BOOLEAN) /\ Len(window) \in Nat
      /\ overdue \subseteq Units /\ Expired \subseteq Units
      /\ outcome \in [Units -> UNIT_OUTCOMES \cup {None}]
  BY DEF IInv, TypeOK, Expired
<1>2. (\E i \in 1..Len(window) : window[i]) => \E u \in Units : outcome'[u] \in FLEET_FAILURE_OUTCOMES
  <2> SUFFICES ASSUME \E i \in 1..Len(window) : window[i]
               PROVE  \E u \in Units : outcome'[u] \in FLEET_FAILURE_OUTCOMES
    OBVIOUS
  <2>1. PICK u \in Units : outcome[u] \in FLEET_FAILURE_OUTCOMES
    BY DEF SamplesAreOutcomes
  <2>2. outcome[u] # None
    BY <2>1 DEF FLEET_FAILURE_OUTCOMES, None
  <2> QED
    BY <2>1, <2>2, OutcomeStep
<1>3. CASE Swept
  <2>1. CASE Expired = {}
    <3> DEFINE more == [i \in 1..Cardinality(Expired) |-> TRUE]
               s == window \o more
    <3>1. Cardinality(Expired) = 0
      BY <2>1, FS_EmptySet
    <3>2. more = <<>>
      BY <3>1
    <3>3. s = window
      <4> HIDE DEF more
      <4> QED
        BY <1>1, <3>2, ConcatEmptySeq
    <3>4. window' = Slide(window)
      BY <1>3, <3>3 DEF Swept, SweptWindow
    <3> QED
      BY <1>1, <1>2, <3>4, SlideAddsNone DEF SamplesAreOutcomes
  <2>2. CASE Expired # {}
    <3>1. \E u \in Units : outcome'[u] = "acceptance_unknown"
      BY <1>1, <1>3, <2>2 DEF Swept
    <3> QED
      BY <3>1 DEF SamplesAreOutcomes, FLEET_FAILURE_OUTCOMES
  <2> QED
    BY <2>1, <2>2
<1>4. ASSUME NEW u \in Units \ Terminal, NEW o \in UNIT_OUTCOMES, Settled(u, o)
      PROVE  SamplesAreOutcomes'
  <2>1. CASE o \in FLEET_FAILURE_OUTCOMES
    <3>1. outcome'[u] = o
      BY <1>1, <1>4 DEF Settled
    <3> QED
      BY <2>1, <3>1 DEF SamplesAreOutcomes
  <2>2. CASE o \notin FLEET_FAILURE_OUTCOMES
    <3> DEFINE s == Append(window, FALSE)
    <3>1. s \in Seq(BOOLEAN) /\ Len(s) = Len(window) + 1 /\ s[Len(window) + 1] = FALSE
          /\ \A i \in 1..Len(window) : s[i] = window[i]
      BY <1>1
    <3>2. window' = Slide(s)
      <4>1. (o \in FLEET_FAILURE_OUTCOMES) = FALSE
        BY <2>2
      <4> QED
        BY <1>4, <4>1 DEF Settled, WindowAfter
    <3> HIDE DEF s
    <3>3. ASSUME NEW i \in 1..Len(window'), window'[i]
          PROVE  \E j \in 1..Len(window) : window[j]
      <4>1. PICK j \in 1..Len(s) : s[j]
        BY <3>1, <3>2, <3>3, SlideAddsNone
      <4>2. j \in 1..Len(window) \/ j = Len(window) + 1
        BY <1>1, <3>1
      <4> QED
        BY <3>1, <4>1, <4>2
    <3> QED
      BY <1>2, <3>3 DEF SamplesAreOutcomes
  <2> QED
    BY <2>1, <2>2
<1>5. CASE UNCHANGED <<Terminal, window, stopped, outcome>>
  BY <1>5 DEF SamplesAreOutcomes
<1> QED
  BY <1>3, <1>4, <1>5, SampleStep

\* Every worker's hands, step by step.
LEMMA HandsNext == ASSUME IInv, HandsAreKnown, [Next]_vars PROVE HandsAreKnown'
<1>0. pc \in [Workers -> PCs] /\ unitOf \in [Workers -> Units \cup {NoUnit}]
  BY DEF IInv, TypeOK
<1> SUFFICES ASSUME NEW w \in Workers, pc'[w] \notin {"processing", "settled"}
             PROVE  unitOf'[w] = NoUnit
  BY DEF HandsAreKnown, Busy
<1>1. CASE pc[w] \notin {"processing", "settled"}
  <2>1. unitOf[w] = NoUnit
    BY <1>1 DEF HandsAreKnown, Busy
  <2>2. unitOf'[w] = unitOf[w] \/ unitOf'[w] = NoUnit \/ \E x \in Workers : Claim(x) /\ w = x
    BY <1>0 DEF Next, WorkerStep, StartWorker, AwaitAdmission, LeaveLoop, Claim, Settle, Finish,
       Heartbeat, LeaseRunsOut, Abort, vars
  <2>3. ~Claim(w)
    BY <1>0 DEF Claim, Woken
  <2> QED
    BY <2>1, <2>2, <2>3
<1>2. CASE pc[w] \in {"processing", "settled"}
  <2>1. Finish(w)
    BY <1>0, <1>2 DEF Next, WorkerStep, StartWorker, AwaitAdmission, LeaveLoop, Claim, Settle, Finish,
       Heartbeat, LeaseRunsOut, Abort, Woken, vars
  <2> QED
    BY <1>0, <2>1 DEF Finish
<1> QED
  BY <1>1, <1>2

LEMMA ListInvNext == ASSUME IInv, ListInv, [Next]_vars PROVE ListInv'
<1>1. InOrder'
  <2>1. Units \subseteq Int /\ \A u \in Units : u \in Pending' <=> rowState'[u] = "pending"
    BY DEF Pending, Units
  <2>2. \A u, v \in Units : v < u /\ v \in Pending => u \in Pending
    BY DEF ListInv, InOrder, Pending
  <2> QED
    BY <2>1, <2>2, PendingStep DEF InOrder
<1> QED
  BY <1>1, HandsNext, SamplesNext DEF ListInv

-----------------------------------------------------------------------------
(* Its steps. *)

\* Outcomes are given to units in hand, and none is changed.
LEMMA StepSettles == ASSUME IInv, IInv', [Next]_vars PROVE List!Settling
<1>1. DOMAIN outcome' = Units
  BY DEF IInv, TypeOK
<1>2. ASSUME NEW u \in Units, outcome'[u] # outcome[u]
      PROVE  outcome[u] = None /\ \E w \in Workers : unitOf[w] = u
  <2>1. rowState[u] = "leased" /\ outcome[u] = None
    BY <1>2, LeasedGetOutcomes
  <2> QED
    BY <2>1 DEF IInv, LeaseIsHeld
<1> QED
  BY <1>1, <1>2 DEF List!Settling

\* The fleet stops by itself only for a failure.
LEMMA StopHasCause ==
  ASSUME IInv, IInv', ListInv', [Next]_vars, stopped = None, stopped' # None
  PROVE  \E u \in Units : outcome'[u] \in FLEET_FAILURE_OUTCOMES
<1>1. overdue \subseteq Units /\ outcome \in [Units -> UNIT_OUTCOMES \cup {None}]
  BY DEF IInv, TypeOK
<1>2. CASE Swept
  <2>1. Expired # {} /\ Expired \subseteq Units
    BY <1>1, <1>2 DEF Swept, SweptStopped, Expired
  <2> QED
    BY <1>2, <2>1 DEF Swept, FLEET_FAILURE_OUTCOMES
<1>3. ASSUME NEW u \in Units \ Terminal, NEW o \in UNIT_OUTCOMES, Settled(u, o)
      PROVE  \E v \in Units : outcome'[v] \in FLEET_FAILURE_OUTCOMES
  <2>1. CASE o = "fleet_stop"
    BY <1>1, <1>3, <2>1 DEF Settled, FLEET_FAILURE_OUTCOMES
  <2>2. CASE o # "fleet_stop"
    <3>1. RateExceeded(window')
      BY <1>3, <2>2 DEF Settled, StoppedAfter
    <3>2. window' \in Seq(BOOLEAN)
      BY DEF IInv, TypeOK
    <3>3. \E i \in 1..Len(window') : window'[i]
      BY <3>1, <3>2, ExceededHasFailure
    <3> QED
      BY <3>3 DEF ListInv, SamplesAreOutcomes
  <2> QED
    BY <2>1, <2>2
<1> QED
  BY <1>2, <1>3, SampleStep

\* The units handed out, in terms of the rows.
LEMMA HandedAre ==
  ASSUME IInv
  PROVE  {u \in Units : attempts[u] > 0} = {u \in Units : rowState[u] # "pending"}
BY DEF IInv, AttemptsMatchState

LEMMA ClaimTakes ==
  ASSUME IInv, IInv', ListInv, [Next]_vars, NEW w \in Workers, Claim(w)
  PROVE  List!Take(w)
<1>1. PICK u \in Pending :
        /\ \A v \in Pending : u <= v
        /\ rowState' = [SweptState EXCEPT ![u] = "leased"]
        /\ stopped' = SweptStopped
        /\ attempts' = [attempts EXCEPT ![u] = @ + 1]
        /\ unitOf' = [unitOf EXCEPT ![w] = u]
  BY DEF Claim, SweepLeases
<1>2. ~aborted /\ aborted' = aborted /\ stopped = None /\ stopped' = None
  BY <1>1 DEF Claim, SweptStopped, None
<1>3. unitOf[w] = NoUnit
  BY DEF Claim, ListInv, HandsAreKnown, Busy
<1>4. u \in Units /\ rowState[u] = "pending" /\ Units \subseteq Int
  BY DEF Pending, Units
<1>5. /\ u \notin {x \in Units : attempts[x] > 0}
      /\ \A v \in Units : v < u => v \in {x \in Units : attempts[x] > 0}
  <2>1. \A v \in Units : v < u => v \notin Pending
    BY <1>1, <1>4
  <2> QED
    BY <1>4, <2>1, HandedAre DEF Pending
<1>6. {x \in Units : attempts'[x] > 0} = {x \in Units : attempts[x] > 0} \cup {u}
  <2>1. attempts \in [Units -> Nat]
    BY DEF IInv, TypeOK
  <2> QED
    BY <1>1, <1>4, <2>1
<1>7. u \in Units \ {x \in Units : attempts[x] > 0}
  BY <1>4, <1>5
<1> QED
  BY <1>1, <1>2, <1>3, <1>5, <1>6, <1>7, StepSettles DEF List!Take

LEMMA FinishReleases ==
  ASSUME IInv, NEW w \in Workers, Finish(w)
  PROVE  List!Release(w)
<1>1. pc[w] = "settled" /\ Busy(w)
  BY DEF Finish, Busy
<1>2. unitOf[w] \in Units /\ rowState[unitOf[w]] # "pending"
  BY <1>1 DEF IInv, InHand
<1>3. rowState[unitOf[w]] # "leased"
  BY <1>1, <1>2 DEF IInv, LeaseIsHeld, Busy
<1>4. outcome[unitOf[w]] # None /\ unitOf[w] # NoUnit
  BY <1>2, <1>3 DEF IInv, OutcomeMatchesState, NoUnit, Units
<1> QED
  BY <1>4 DEF Finish, List!Release, rowVars, fleetVars

\* A sweep or a settle on its own decides; nothing is handed out.
LEMMA OthersDecide ==
  ASSUME IInv, IInv', ListInv', [Next]_vars, UNCHANGED <<attempts, unitOf, aborted>>
  PROVE  List!Decide
<1>1. ASSUME (aborted' \/ stopped' # None) # (aborted \/ stopped # None)
      PROVE  (aborted' \/ stopped' # None) /\ \E u \in Units : outcome'[u] \in FLEET_FAILURE_OUTCOMES
  <2>1. stopped # None => stopped' # None
    BY CausesStay
  <2>2. stopped = None /\ stopped' # None
    BY <1>1, <2>1
  <2> QED
    BY <2>2, StopHasCause
<1> QED
  BY <1>1, StepSettles DEF List!Decide

LEMMA ListNext ==
  ASSUME IInv, IInv', ListInv, ListInv', [Next]_vars
  PROVE  [List!Next]_(List!vars)
<1>1. ASSUME NEW w \in Workers, Claim(w)
      PROVE  List!Next
  BY <1>1, ClaimTakes DEF List!Next
<1>2. ASSUME NEW w \in Workers, Finish(w)
      PROVE  List!Next
  BY <1>2, FinishReleases DEF List!Next
<1>3. CASE Abort
  <2>1. UNCHANGED <<attempts, unitOf, outcome, stopped>> /\ ~aborted /\ aborted'
    BY <1>3 DEF Abort, rowVars, fleetVars
  <2>2. CASE stopped = None
    BY <2>1, <2>2 DEF List!Next, List!Close
  <2>3. CASE stopped # None
    BY <2>1, <2>3 DEF List!vars
  <2> QED
    BY <2>2, <2>3
<1>4. CASE UNCHANGED <<attempts, unitOf, aborted>>
  BY <1>4, OthersDecide DEF List!Next
<1>5. \/ UNCHANGED <<attempts, unitOf, aborted>> \/ Abort
      \/ \E w \in Workers : Claim(w) \/ Finish(w)
  BY DEF Next, WorkerStep, StartWorker, AwaitAdmission, LeaveLoop, Settle, Heartbeat, LeaseRunsOut,
     Sweep, rowVars, vars
<1> QED
  BY <1>1, <1>2, <1>3, <1>4, <1>5

\* Every behaviour of the queue and its fleet is one of a work list: units go
\* out in order and once, outcomes are given once and to units in hand, and
\* the fleet stops for its caller or a failure and hands out nothing after.
THEOREM QueueIsList == Spec => ImplementsList
<1>1. Init => List!Init
  BY DEF Init, List!Init
<1>2. Init => ListInv
  BY DEF Init, ListInv, HandsAreKnown, InOrder, SamplesAreOutcomes
<1>3. IInv /\ ListInv /\ [Next]_vars => ListInv'
  BY ListInvNext
<1>4. IInv /\ IInv' /\ ListInv /\ ListInv' /\ [Next]_vars => [List!Next]_(List!vars)
  BY ListNext
<1> QED
  BY <1>1, <1>2, <1>3, <1>4, Invariance, PTL DEF Spec, ImplementsList, List!Spec
=============================================================================
