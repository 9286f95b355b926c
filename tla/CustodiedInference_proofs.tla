--------------------- MODULE CustodiedInference_proofs ---------------------
(***************************************************************************)
(* Proofs about CustodiedInference for every set of units and answers,     *)
(* every number of attempts and crashes, every budget, with or without     *)
(* attempt policies, inspections and faults.                               *)
(***************************************************************************)
EXTENDS CustodiedInference, TLAPS

USE CustodyAssumption

-----------------------------------------------------------------------------
(* The inductive invariant, unit by unit. *)

Answered(u, a) == Has(u, a) /\ completion[u][a].valid
Transient(r) == ~r.valid /\ r.retryable /\ r.known

\* Every attempt is sent at most once, after its start receipt.
Sent(u) ==
  \A a \in Attempts :
    /\ dispatched[<<u, a>>] \in {0, 1}
    /\ dispatched[<<u, a>>] = 1 => a \in started[u]

\* An answer is of a started attempt, and a later attempt is started only
\* after a known transient failure.
Ladder(u) ==
  /\ \A a \in Attempts : Has(u, a) => a \in started[u]
  /\ \A a, b \in Attempts : a < b /\ b \in started[u] => Has(u, a) /\ Transient(completion[u][a])

Loop == {"attempt", "interrupted", "reserve", "waiting", "start", "dispatch",
         "calling", "account", "assess"}

\* What the place of a unit says of its present attempt.
Place(u) ==
  /\ pc[u] # "corrupt"
  /\ pc[u] = "begin" => att[u] = 1
  /\ pc[u] \in Loop =>
       /\ final[u] = NoFinal
       /\ \A a \in Attempts : a < att[u] => Has(u, a) /\ Transient(completion[u][a])
       /\ att[u] > 1 => att[u] \in scheduled[u]
  /\ pc[u] \in {"reserve", "waiting", "start"} => att[u] \notin started[u]
  /\ pc[u] = "dispatch" => dispatched[Call(u)] = 0
  /\ pc[u] \in {"dispatch", "calling", "interrupted"} => att[u] \in started[u] /\ ~Has(u, att[u])
  /\ pc[u] \in {"account", "assess"} => Has(u, att[u])
  /\ pc[u] = "replay" => final[u] # NoFinal /\ att[u] <= final[u].attempt

\* What a final record says, with no CHOOSE.
Verdict(u) ==
  final[u] # NoFinal =>
    /\ pc[u] \in {"begin", "replay", "done", "circuit"}
    /\ final[u].attempt \in Attempts
    /\ \A a \in 1..final[u].attempt : Has(u, a)
    /\ IF final[u].status = "selected"
       THEN /\ Answered(u, final[u].attempt)
            /\ \A a \in Attempts : a < final[u].attempt => ~Answered(u, a)
       ELSE \A a \in Attempts : ~Answered(u, a)

Local(u) == Sent(u) /\ Ladder(u) /\ Place(u) /\ Verdict(u)

IInv == TypeOK /\ \A u \in Units : Local(u)

-----------------------------------------------------------------------------
(* Lemmas *)

\* A record the code finds is an answer or an interruption.
LEMMA AnswerType ==
  ASSUME TypeOK, NEW u \in Units, NEW a \in Attempts, Has(u, a)
  PROVE  completion[u][a] \in Answers \cup {Interrupted} /\ completion[u][a] \in Answer
<1>1. completion[u][a] \in Answers \cup {Interrupted}
  BY DEF TypeOK, Has
<1>2. Interrupted \in Answer
  BY DEF Interrupted, Answer
<1> QED
  BY <1>1, <1>2

\* No answer is the absence of one.
LEMMA AnswersExist == \A r \in Answer : r # NoAnswer
<1> SUFFICES ASSUME NEW r \in Answer, r = NoAnswer
             PROVE  FALSE
  OBVIOUS
<1>1. DOMAIN r = {"valid", "retryable", "known", "terminal", "cost", "unpriced"}
  BY DEF Answer
<1>2. DOMAIN NoAnswer = {"none"}
  BY DEF NoAnswer
<1>3. "valid" \in DOMAIN NoAnswer
  BY <1>1
<1> QED
  BY <1>2, <1>3

\* The first valid attempt is the one the code finds first.
LEMMA FirstValidIs ==
  ASSUME NEW u \in Units, NEW a \in Attempts, Answered(u, a),
         \A b \in Attempts : b < a => ~Answered(u, b)
  PROVE  FirstValid(u) = a
<1> DEFINE valid == {b \in Attempts : Has(u, b) /\ completion[u][b].valid}
<1>1. a \in valid /\ \A b \in valid : a <= b
  BY DEF Answered, Attempts
<1>2. \A c \in valid : (\A b \in valid : c <= b) => c = a
  BY <1>1 DEF Attempts
<1>3. (CHOOSE c \in valid : \A b \in valid : c <= b) = a
  BY <1>1, <1>2
<1> QED
  BY <1>1, <1>3 DEF FirstValid

LEMMA FirstValidNone ==
  ASSUME NEW u \in Units, \A b \in Attempts : ~Answered(u, b)
  PROVE  FirstValid(u) = 0
BY DEF FirstValid, Answered

\* What Verdict says of a final record is what its replay checks.
LEMMA VerdictIsSound ==
  ASSUME NEW u \in Units, TypeOK, Verdict(u), final[u] # NoFinal
  PROVE  FinalIsSound(u)
<1>1. CASE final[u].status = "selected"
  BY <1>1, FirstValidIs DEF Verdict, FinalIsSound
<1>2. CASE final[u].status # "selected"
  BY <1>2, FirstValidNone DEF Verdict, FinalIsSound
<1> QED
  BY <1>1, <1>2

\* A step of another unit leaves a unit as it is, or wakes it.
LEMMA Frame ==
  ASSUME NEW v \in Units, Local(v),
         started'[v] = started[v], completion'[v] = completion[v],
         scheduled'[v] = scheduled[v], final'[v] = final[v], att'[v] = att[v],
         \A a \in Attempts : dispatched'[<<v, a>>] = dispatched[<<v, a>>],
         att[v] \in Attempts,
         pc'[v] = pc[v] \/ (pc[v] = "waiting" /\ pc'[v] = "reserve")
  PROVE  Local(v)'
<1>1. Sent(v)' /\ Ladder(v)'
  BY DEF Local, Sent, Ladder, Has
<1>2. Place(v)'
  BY DEF Local, Place, Has, Loop, Call
<1>3. Verdict(v)'
  BY DEF Local, Verdict, Has, Answered
<1> QED
  BY <1>1, <1>2, <1>3 DEF Local

LEMMA InitIInv == Init => IInv
<1> SUFFICES ASSUME Init PROVE IInv
  OBVIOUS
<1>1. 1 \in Attempts
  BY DEF Attempts
<1>2. TypeOK
  BY <1>1 DEF Init, TypeOK, PCs, Calls, NoFinal
<1>3. ASSUME NEW u \in Units PROVE Local(u)
  <2>1. Sent(u)
    BY DEF Init, Sent, Calls
  <2>2. Ladder(u)
    BY DEF Init, Ladder, Has
  <2>3. Place(u) /\ Verdict(u)
    BY DEF Init, Place, Verdict, Loop
  <2> QED
    BY <2>1, <2>2, <2>3 DEF Local
<1> QED
  BY <1>2, <1>3 DEF IInv

\* Accounting a recorded call keeps the budget's types.
LEMMA AccountType ==
  ASSUME TypeOK, NEW u \in Units, NEW r \in Answer, Account(Call(u), r)
  PROVE  /\ accounted' \subseteq Calls /\ reserved' \subseteq Calls
         /\ accountedCalls' \in Nat /\ knownCost' \in Nat /\ unpriced' \in Nat
         /\ budgetStop' \in {"none", "unpriced", "cost"}
<1>1. Call(u) \in Calls
  BY DEF Call, Calls, TypeOK
<1>2. r.cost \in Nat /\ r.unpriced \in Nat
  BY DEF Answer
<1>3. CASE Call(u) \in accounted
  BY <1>3 DEF Account, budget, TypeOK
<1>4. CASE Call(u) \notin accounted
  <2>1. /\ accounted' = accounted \cup {Call(u)} /\ reserved' = reserved \ {Call(u)}
        /\ accountedCalls' = accountedCalls + 1
        /\ knownCost' = knownCost + r.cost /\ unpriced' = unpriced + r.unpriced
        /\ budgetStop' \in {budgetStop, "unpriced", "cost", "none"}
    BY <1>4 DEF Account
  <2> QED
    BY <2>1, <1>1, <1>2 DEF TypeOK
<1> QED
  BY <1>3, <1>4

\* Waking the waiters moves them back to their reservation.
LEMMA WokenPC ==
  ASSUME TypeOK
  PROVE  /\ Woken(pc) \in [Units -> PCs]
         /\ \A v \in Units : Woken(pc)[v] = pc[v] \/ (pc[v] = "waiting" /\ Woken(pc)[v] = "reserve")
  BY DEF TypeOK, Woken, PCs

-----------------------------------------------------------------------------
(* Every step preserves the invariant. *)

\* The process dies: what the journal says stays, and every unit begins anew.
LEMMA CrashStep ==
  ASSUME IInv, Crash
  PROVE  IInv'
<1>1. 1 \in Attempts
  BY DEF Attempts
<1>2. TypeOK'
  BY <1>1 DEF IInv, TypeOK, Crash, durable, PCs
<1>3. ASSUME NEW v \in Units PROVE Local(v)'
  <2>1. Local(v) /\ pc'[v] = "begin" /\ att'[v] = 1
    BY DEF IInv, Crash
  <2>2. Sent(v)' /\ Ladder(v)'
    BY <2>1 DEF Crash, durable, Local, Sent, Ladder, Has
  <2>3. Place(v)'
    BY <2>1 DEF Place, Loop
  <2>4. Verdict(v)'
    BY <2>1 DEF Crash, durable, Local, Verdict, Has, Answered
  <2> QED
    BY <2>2, <2>3, <2>4 DEF Local
<1> QED
  BY <1>2, <1>3 DEF IInv

\* A step of u that only moves u, from one place to another that its
\* records allow.
LEMMA Move ==
  ASSUME IInv, NEW u \in Units, NEW to \in PCs,
         Goto(u, to), UNCHANGED <<durable, att, dispatched>>, Place(u)',
         final[u] # NoFinal => to \in {"begin", "replay", "done", "circuit"}
  PROVE  \A v \in Units : Local(v)'
<1>1. pc' = [pc EXCEPT ![u] = to] /\ pc \in [Units -> PCs]
  BY DEF Goto, IInv, TypeOK
<1>2. ASSUME NEW v \in Units, v # u PROVE Local(v)'
  BY <1>1, <1>2, Frame DEF IInv, TypeOK, durable
<1>3. Sent(u)' /\ Ladder(u)'
  BY DEF IInv, Local, Sent, Ladder, Has, durable
<1>4. Verdict(u)'
  BY <1>1 DEF IInv, Local, Verdict, Has, Answered, durable
<1>5. Local(u)'
  BY <1>3, <1>4 DEF Local
<1> QED
  BY <1>2, <1>5

\* Every step of a unit that changes no record and sends nothing.
LEMMA QuietStep ==
  ASSUME IInv, NEW u \in Units,
         Begin(u) \/ AttemptHead(u) \/ BeforeDispatch(u) \/ RunnerThrows(u) \/ PutRejected(u)
  PROVE  IInv'
<1> USE DEF IInv
<1>1. Local(u) /\ att[u] \in Attempts /\ started[u] \subseteq Attempts /\ pc \in [Units -> PCs]
  BY DEF TypeOK
<1>2. CASE Begin(u)
  <2>1. PICK to \in {"replay", "attempt"} :
          Goto(u, to) /\ (to = "replay" <=> final[u] # NoFinal)
    BY <1>2 DEF Begin
  <2>2. UNCHANGED <<durable, att, dispatched>> /\ pc[u] = "begin" /\ att[u] = 1
    BY <1>1, <1>2 DEF Begin, Local, Place
  <2>3. Place(u)'
    <3>1. pc'[u] = to
      BY <1>1, <2>1 DEF Goto
    <3>2. final[u] # NoFinal => att[u] <= final[u].attempt
      BY <1>1, <2>2 DEF Local, Verdict, Attempts
    <3> QED
      BY <2>1, <2>2, <3>1, <3>2 DEF Place, Loop, durable, Attempts
  <2>4. \A v \in Units : Local(v)'
    BY <2>1, <2>2, <2>3, Move DEF PCs
  <2>5. TypeOK'
    BY <1>2, <2>1 DEF Begin, TypeOK, durable, budget, Goto, PCs
  <2> QED
    BY <2>4, <2>5
<1>3. CASE AttemptHead(u)
  <2>1. pc[u] = "attempt" /\ UNCHANGED <<durable, att, dispatched>>
    BY <1>3 DEF AttemptHead
  <2>2. PICK to \in {"account", "threw", "interrupted", "reserve"} :
          /\ Goto(u, to)
          /\ to = "account" => Has(u, att[u])
          /\ to = "interrupted" => att[u] \in started[u] /\ ~Has(u, att[u])
          /\ to = "reserve" => att[u] \notin started[u]
    BY <1>1, <1>3, <2>1 DEF AttemptHead, Orphaned, Local, Place, Loop, Attempts
  <2>3. Place(u)'
    <3>1. pc'[u] = to
      BY <1>1, <2>2 DEF Goto
    <3> QED
      BY <1>1, <2>1, <2>2, <3>1 DEF Local, Place, Loop, durable, Has
  <2>4. \A v \in Units : Local(v)'
    <3>1. final[u] = NoFinal
      BY <1>1, <2>1 DEF Local, Place, Loop
    <3> QED
      BY <2>1, <2>2, <2>3, <3>1, Move DEF PCs
  <2>5. TypeOK'
    BY <1>3, <2>2 DEF AttemptHead, TypeOK, durable, budget, Goto, PCs
  <2> QED
    BY <2>4, <2>5
<1>4. CASE BeforeDispatch(u)
  <2>1. pc[u] = "reserve" /\ UNCHANGED <<durable, att, dispatched>>
    BY <1>4 DEF BeforeDispatch
  <2>2. PICK to \in {"start", "waiting", "refused"} : Goto(u, to)
    BY <1>4 DEF BeforeDispatch
  <2>3. Place(u)'
    <3>1. pc'[u] = to
      BY <1>1, <2>2 DEF Goto
    <3> QED
      BY <1>1, <2>1, <2>2, <3>1 DEF Local, Place, Loop, durable, Has
  <2>4. \A v \in Units : Local(v)'
    <3>1. final[u] = NoFinal
      BY <1>1, <2>1 DEF Local, Place, Loop
    <3> QED
      BY <2>1, <2>2, <2>3, <3>1, Move DEF PCs
  <2>5. reserved' \subseteq Calls
    BY <1>4 DEF BeforeDispatch, TypeOK, Call, Calls
  <2>6. TypeOK'
    BY <1>4, <2>2, <2>5 DEF BeforeDispatch, TypeOK, durable, Goto, PCs
  <2> QED
    BY <2>4, <2>6
<1>5. CASE RunnerThrows(u) \/ PutRejected(u)
  <2>1. pc[u] \in Loop /\ UNCHANGED <<durable, att, dispatched>> /\ Goto(u, "threw")
    BY <1>5 DEF RunnerThrows, PutRejected, Loop
  <2>2. pc'[u] = "threw" /\ final[u] = NoFinal
    BY <1>1, <2>1 DEF Goto, Local, Place
  <2>3. Place(u)'
    BY <2>2 DEF Place, Loop
  <2>4. \A v \in Units : Local(v)'
    BY <2>1, <2>2, <2>3, Move DEF PCs
  <2>5. TypeOK'
    BY <1>5, <2>1 DEF RunnerThrows, PutRejected, TypeOK, durable, budget, Goto, PCs
  <2> QED
    BY <2>4, <2>5
<1> QED
  BY <1>2, <1>3, <1>4, <1>5

\* The records of u change, or its attempt does; the other units at most wake.
LEMMA Others ==
  ASSUME IInv, NEW u \in Units, NEW f \in [Units -> PCs], NEW to \in PCs,
         f = pc \/ f = Woken(pc), pc' = [f EXCEPT ![u] = to],
         \A v \in Units : v # u =>
           /\ started'[v] = started[v] /\ completion'[v] = completion[v]
           /\ scheduled'[v] = scheduled[v] /\ final'[v] = final[v] /\ att'[v] = att[v]
           /\ \A a \in Attempts : dispatched'[<<v, a>>] = dispatched[<<v, a>>]
  PROVE  \A v \in Units : v # u => Local(v)'
<1> SUFFICES ASSUME NEW v \in Units, v # u PROVE Local(v)'
  OBVIOUS
<1>1. pc'[v] = pc[v] \/ (pc[v] = "waiting" /\ pc'[v] = "reserve")
  BY WokenPC DEF IInv
<1>2. Local(v) /\ att[v] \in Attempts
  BY DEF IInv, TypeOK
<1> QED
  BY <1>1, <1>2, Frame

\* The replay of an attempt finds its completion, and its verdict sound.
LEMMA ReplayStep ==
  ASSUME IInv, NEW u \in Units, Replay(u)
  PROVE  IInv'
<1> USE DEF IInv
<1>1. /\ Local(u) /\ TypeOK /\ pc[u] = "replay" /\ final[u] # NoFinal
      /\ att[u] \in Attempts /\ att[u] <= final[u].attempt /\ final[u].attempt \in Attempts
  BY DEF TypeOK, Replay, Local, Place, Verdict
<1>2. Has(u, att[u])
  BY <1>1 DEF Local, Verdict, Attempts
<1>3. FinalIsSound(u)
  BY <1>1, VerdictIsSound DEF Local
<1>4. Account(Call(u), Recorded(u)) /\ Recorded(u) \in Answer
  BY <1>1, <1>2, AnswerType DEF Replay, Recorded
<1>5. PICK to \in {"replay", "done"} :
        /\ pc' = [Woken(pc) EXCEPT ![u] = to]
        /\ \/ to = "replay" /\ att[u] < final[u].attempt /\ att' = [att EXCEPT ![u] = @ + 1]
           \/ to = "done" /\ UNCHANGED att
  <2>1. CASE att[u] < final[u].attempt
    <3>1. Woken(pc) = [Woken(pc) EXCEPT ![u] = "replay"]
      BY <1>1, WokenPC DEF TypeOK, Woken
    <3> QED
      BY <1>2, <2>1, <3>1 DEF Replay
  <2>2. CASE ~(att[u] < final[u].attempt)
    BY <1>2, <1>3, <2>2 DEF Replay
  <2> QED
    BY <2>1, <2>2
<1>6. UNCHANGED <<durable, inspecting, journalOk, fresh, dispatched, crashes>>
  BY DEF Replay
<1>7. Woken(pc) \in [Units -> PCs] /\ pc'[u] = to /\ to \in PCs
  BY <1>5, WokenPC DEF PCs
<1>8. att'[u] \in Attempts /\ att'[u] <= final[u].attempt /\ att' \in [Units -> Attempts]
  <2>1. CASE att[u] < final[u].attempt /\ att' = [att EXCEPT ![u] = @ + 1]
    <3>1. att[u] + 1 \in Attempts /\ att[u] + 1 <= final[u].attempt
      BY <1>1, <2>1 DEF Attempts
    <3> QED
      BY <2>1, <3>1 DEF TypeOK
  <2>2. CASE UNCHANGED att
    BY <1>1, <2>2 DEF TypeOK
  <2> QED
    BY <1>5, <2>1, <2>2
<1>9. Local(u)'
  <2>1. Sent(u)' /\ Ladder(u)'
    BY <1>1, <1>6 DEF Local, Sent, Ladder, Has, durable
  <2>2. Place(u)'
    BY <1>1, <1>5, <1>6, <1>7, <1>8 DEF Place, Loop, durable
  <2>3. Verdict(u)'
    BY <1>1, <1>5, <1>6, <1>7 DEF Local, Verdict, Has, Answered, durable
  <2> QED
    BY <2>1, <2>2, <2>3 DEF Local
<1>10. \A v \in Units : v # u => Local(v)'
  BY <1>5, <1>6, <1>7, Others DEF TypeOK, durable
<1>11. TypeOK'
  BY <1>4, <1>5, <1>6, <1>7, <1>8, AccountType DEF TypeOK, durable
<1> QED
  BY <1>9, <1>10, <1>11

\* A start receipt is put for an attempt that has none.
LEMMA PutStartedStep ==
  ASSUME IInv, NEW u \in Units, PutStarted(u)
  PROVE  IInv'
<1> USE DEF IInv
<1>1. /\ Local(u) /\ TypeOK /\ pc[u] = "start" /\ att[u] \in Attempts
      /\ att[u] \notin started[u]
  BY DEF TypeOK, PutStarted, Local, Place
<1>2. /\ started' = [started EXCEPT ![u] = @ \cup {att[u]}]
      /\ pc' = [pc EXCEPT ![u] = "dispatch"]
      /\ UNCHANGED <<completion, scheduled, final, inspecting, journalOk, att, fresh,
                     budget, dispatched, crashes>>
  BY DEF PutStarted, Goto
<1>3. started'[u] = started[u] \cup {att[u]} /\ pc'[u] = "dispatch"
  BY <1>2 DEF TypeOK
<1>4. Sent(u)'
  BY <1>1, <1>2, <1>3 DEF Local, Sent
<1>5. Ladder(u)'
  <2>1. \A a \in Attempts : a < att[u] => Has(u, a) /\ Transient(completion[u][a])
    BY <1>1 DEF Local, Place, Loop
  <2> QED
    BY <1>1, <1>2, <1>3, <2>1 DEF Local, Ladder, Has
<1>6. Place(u)'
  <2>1. dispatched[Call(u)] = 0 /\ ~Has(u, att[u])
    BY <1>1 DEF Local, Sent, Ladder, Call
  <2> QED
    BY <1>1, <1>2, <1>3, <2>1 DEF Local, Place, Loop, Has, Call
<1>7. Verdict(u)'
  BY <1>1, <1>2, <1>3 DEF Local, Place, Loop, Verdict
<1>8. \A v \in Units : v # u => Local(v)'
  BY <1>2, Others DEF TypeOK, PCs
<1>9. TypeOK'
  BY <1>1, <1>2 DEF TypeOK, PCs, budget
<1> QED
  BY <1>4, <1>5, <1>6, <1>7, <1>8, <1>9 DEF Local

\* What is sent has a start receipt and was not sent before.
LEMMA DispatchStep ==
  ASSUME IInv, NEW u \in Units, Dispatch(u)
  PROVE  IInv'
<1> USE DEF IInv
<1>1. /\ Local(u) /\ TypeOK /\ pc[u] = "dispatch" /\ att[u] \in Attempts
      /\ att[u] \in started[u] /\ dispatched[Call(u)] = 0
  BY DEF TypeOK, Dispatch, Local, Place
<1>2. /\ dispatched' = [dispatched EXCEPT ![Call(u)] = @ + 1]
      /\ pc' = [pc EXCEPT ![u] = "calling"]
      /\ UNCHANGED <<durable, inspecting, journalOk, att, fresh, budget, crashes>>
  BY DEF Dispatch, Goto
<1>3. pc'[u] = "calling" /\ Call(u) \in Calls
  BY <1>1, <1>2 DEF TypeOK, Call, Calls
<1>4. Sent(u)'
  <2>1. \A a \in Attempts : dispatched'[<<u, a>>] = IF a = att[u] THEN 1 ELSE dispatched[<<u, a>>]
    BY <1>1, <1>2, <1>3 DEF TypeOK, Call, Calls
  <2> QED
    BY <1>1, <1>2, <2>1 DEF Local, Sent, durable
<1>5. Ladder(u)' /\ Place(u)' /\ Verdict(u)'
  BY <1>1, <1>2, <1>3 DEF Local, Ladder, Place, Loop, Verdict, Has, Call, durable
<1>6. \A v \in Units : v # u => Local(v)'
  <2>1. \A v \in Units : v # u => \A a \in Attempts : dispatched'[<<v, a>>] = dispatched[<<v, a>>]
    BY <1>2 DEF TypeOK, Call, Calls
  <2> QED
    BY <1>2, <2>1, Others DEF TypeOK, PCs, durable
<1>7. TypeOK'
  BY <1>1, <1>2, <1>3 DEF TypeOK, PCs, budget, durable
<1> QED
  BY <1>4, <1>5, <1>6, <1>7 DEF Local

\* A completion is put for an attempt that has none and that none follows.
LEMMA PutCompletionStep ==
  ASSUME IInv, NEW u \in Units, PutCompletion(u)
  PROVE  IInv'
<1> USE DEF IInv
<1>1. /\ Local(u) /\ TypeOK /\ pc[u] \in {"calling", "interrupted"} /\ att[u] \in Attempts
      /\ att[u] \in started[u] /\ ~Has(u, att[u]) /\ final[u] = NoFinal
  BY DEF TypeOK, PutCompletion, Local, Place, Loop
<1>2. PICK r \in Answers \cup {Interrupted} : completion' = [completion EXCEPT ![u][att[u]] = r]
  BY DEF PutCompletion
<1>3. /\ pc' = [pc EXCEPT ![u] = "account"] /\ fresh' \in [Units -> BOOLEAN]
      /\ UNCHANGED <<started, scheduled, final, inspecting, journalOk, att, budget,
                     dispatched, crashes>>
  BY DEF PutCompletion, Goto, TypeOK
<1>4. pc'[u] = "account" /\ completion'[u] = [completion[u] EXCEPT ![att[u]] = r]
  BY <1>2, <1>3 DEF TypeOK
<1>5. r \in Answer /\ r # NoAnswer
  <2>1. Interrupted \in Answer
    BY DEF Interrupted, Answer
  <2> QED
    BY <2>1, AnswersExist
<1>6. \A a \in Attempts : completion'[u][a] = IF a = att[u] THEN r ELSE completion[u][a]
  BY <1>4 DEF TypeOK
<1>7. Sent(u)'
  BY <1>1, <1>3 DEF Local, Sent
<1>8. Ladder(u)'
  <2>1. \A b \in Attempts : att[u] < b => b \notin started[u]
    BY <1>1 DEF Local, Ladder
  <2> QED
    BY <1>1, <1>3, <1>6, <2>1 DEF Local, Ladder, Has
<1>9. Place(u)'
  BY <1>1, <1>3, <1>4, <1>5, <1>6 DEF Local, Place, Loop, Has, Attempts
<1>10. Verdict(u)'
  BY <1>1, <1>3 DEF Verdict
<1>11. \A v \in Units : v # u => Local(v)'
  BY <1>2, <1>3, Others DEF TypeOK, PCs
<1>12. TypeOK'
  BY <1>1, <1>2, <1>3 DEF TypeOK, PCs, budget
<1> QED
  BY <1>7, <1>8, <1>9, <1>10, <1>11, <1>12 DEF Local

\* An accounted completion is assessed next; nothing else changes.
LEMMA AccountStep ==
  ASSUME IInv, NEW u \in Units, AccountCompletion(u)
  PROVE  IInv'
<1> USE DEF IInv
<1>1. Local(u) /\ TypeOK /\ pc[u] = "account" /\ att[u] \in Attempts /\ Has(u, att[u])
  BY DEF TypeOK, AccountCompletion, Local, Place
<1>2. Account(Call(u), Recorded(u)) /\ Recorded(u) \in Answer
  BY <1>1, AnswerType DEF AccountCompletion, Recorded
<1>3. /\ pc' = [Woken(pc) EXCEPT ![u] = "assess"] /\ Woken(pc) \in [Units -> PCs]
      /\ UNCHANGED <<durable, inspecting, journalOk, att, fresh, dispatched, crashes>>
  BY WokenPC DEF AccountCompletion
<1>4. pc'[u] = "assess"
  BY <1>3
<1>5. Local(u)'
  <2>1. Sent(u)' /\ Ladder(u)'
    BY <1>1, <1>3 DEF Local, Sent, Ladder, Has, durable
  <2>2. Place(u)' /\ Verdict(u)'
    BY <1>1, <1>3, <1>4 DEF Local, Place, Loop, Verdict, Has, durable
  <2> QED
    BY <2>1, <2>2 DEF Local
<1>6. \A v \in Units : v # u => Local(v)'
  BY <1>3, Others DEF PCs, durable
<1>7. TypeOK'
  BY <1>2, <1>3, AccountType DEF TypeOK, PCs, durable
<1> QED
  BY <1>5, <1>6, <1>7

\* The next attempt is scheduled after a known transient failure.
LEMMA ScheduleRetryStep ==
  ASSUME IInv, NEW u \in Units, ScheduleRetry(u)
  PROVE  IInv'
<1> USE DEF IInv
<1>1. /\ Local(u) /\ TypeOK /\ pc[u] = "assess" /\ att[u] \in Attempts /\ Has(u, att[u])
      /\ final[u] = NoFinal
      /\ \A a \in Attempts : a < att[u] => Has(u, a) /\ Transient(completion[u][a])
  BY DEF TypeOK, ScheduleRetry, Local, Place, Loop
<1>2. Transient(completion[u][att[u]]) /\ att[u] < MaxAttempts
  BY <1>1 DEF ScheduleRetry, MayRetry, Recorded, Transient, Limit, Attempts
<1>3. /\ scheduled' = [scheduled EXCEPT ![u] = @ \cup {att[u] + 1}]
      /\ att' = [att EXCEPT ![u] = @ + 1]
      /\ pc' = [pc EXCEPT ![u] = "attempt"]
      /\ UNCHANGED <<started, completion, final, inspecting, journalOk, fresh, budget,
                     dispatched, crashes>>
  BY DEF ScheduleRetry, Goto
<1>4. /\ att[u] + 1 \in Attempts /\ att'[u] = att[u] + 1 /\ pc'[u] = "attempt"
      /\ att[u] + 1 \in scheduled'[u]
  BY <1>1, <1>2, <1>3 DEF TypeOK, Attempts
<1>5. Sent(u)' /\ Ladder(u)'
  BY <1>1, <1>3 DEF Local, Sent, Ladder, Has
<1>6. Place(u)'
  <2>1. \A a \in Attempts : a < att[u] + 1 => Has(u, a) /\ Transient(completion[u][a])
    BY <1>1, <1>2 DEF Attempts
  <2> QED
    BY <1>1, <1>3, <1>4, <2>1 DEF Place, Loop, Has
<1>7. Verdict(u)'
  BY <1>1, <1>3 DEF Verdict
<1>8. \A v \in Units : v # u => Local(v)'
  BY <1>3, Others DEF TypeOK, PCs
<1>9. TypeOK'
  BY <1>1, <1>3, <1>4 DEF TypeOK, PCs, budget
<1> QED
  BY <1>5, <1>6, <1>7, <1>8, <1>9 DEF Local

\* The final record names the first valid attempt, or says there is none: no
\* attempt after the present one was answered.
LEMMA PutFinalStep ==
  ASSUME IInv, NEW u \in Units, PutFinal(u)
  PROVE  IInv'
<1> USE DEF IInv
<1>1. /\ Local(u) /\ TypeOK /\ pc[u] = "assess" /\ att[u] \in Attempts /\ Has(u, att[u])
      /\ final[u] = NoFinal /\ ~MayRetry(u)
      /\ \A a \in Attempts : a < att[u] => Has(u, a) /\ Transient(completion[u][a])
  BY DEF TypeOK, PutFinal, Local, Place, Loop
<1>2. PICK to \in {"circuit", "done"} : pc' = [pc EXCEPT ![u] = to]
  BY DEF PutFinal, Goto, EndOf
<1>3. pc'[u] = to /\ to \in PCs
  BY <1>2 DEF TypeOK, PCs
<1>4. /\ final' = IF u \notin Materialized THEN final ELSE [final EXCEPT ![u] = FinalRecord(u)]
      /\ UNCHANGED <<started, completion, scheduled, inspecting, journalOk, att, fresh,
                     budget, dispatched, crashes>>
  BY DEF PutFinal
<1>5. FinalRecord(u) \in [status : {"selected", "terminal_incomplete"}, attempt : Attempts]
  BY <1>1 DEF FinalRecord
<1>6. Sent(u)' /\ Ladder(u)'
  BY <1>1, <1>4 DEF Local, Sent, Ladder, Has
<1>7. Place(u)'
  BY <1>3 DEF Place, Loop
<1>8. Verdict(u)'
  <2>1. CASE u \notin Materialized
    BY <1>1, <1>4, <2>1 DEF Verdict
  <2>2. CASE u \in Materialized
    <3>1. final'[u] = FinalRecord(u)
      BY <1>4, <2>2 DEF TypeOK
    <3>2. \A a \in Attempts : a < att[u] => Has(u, a) /\ ~Answered(u, a)
      BY <1>1 DEF Transient, Answered
    <3>3. ASSUME NEW a \in Attempts, att[u] < a, Has(u, a)
          PROVE  FALSE
      <4>1. Transient(completion[u][att[u]])
        BY <1>1, <3>3 DEF Local, Ladder
      <4>2. att[u] < MaxAttempts
        BY <1>1, <3>3 DEF Attempts
      <4> QED
        BY <1>1, <2>2, <4>1, <4>2 DEF MayRetry, Limit, Recorded, Transient
    <3>4. final'[u].attempt = att[u]
          /\ (final'[u].status = "selected" <=> completion[u][att[u]].valid)
      BY <3>1 DEF FinalRecord, Recorded
    <3>5. \A a \in Attempts : a # att[u] => ~Answered(u, a)
      BY <1>1, <3>2, <3>3 DEF Answered, Attempts
    <3> QED
      BY <1>1, <1>3, <1>4, <3>2, <3>4, <3>5 DEF Verdict, Answered, Has, Attempts
  <2> QED
    BY <2>1, <2>2
<1>9. \A v \in Units : v # u => Local(v)'
  BY <1>2, <1>3, <1>4, Others DEF TypeOK
<1>10. TypeOK'
  BY <1>1, <1>2, <1>3, <1>4, <1>5 DEF TypeOK, budget
<1> QED
  BY <1>6, <1>7, <1>8, <1>9, <1>10 DEF Local

LEMMA NextIInv == IInv /\ [Next]_vars => IInv'
<1> SUFFICES ASSUME IInv, [Next]_vars
             PROVE  IInv'
  OBVIOUS
<1>1. CASE Crash
  BY <1>1, CrashStep
<1>2. ASSUME NEW u \in Units, UnitStep(u)
      PROVE  IInv'
  BY <1>2, QuietStep, ReplayStep, PutStartedStep, DispatchStep, PutCompletionStep,
     AccountStep, ScheduleRetryStep, PutFinalStep DEF UnitStep
<1>3. CASE UNCHANGED vars
  <2>1. TypeOK'
    BY <1>3 DEF vars, IInv, TypeOK
  <2>2. ASSUME NEW v \in Units PROVE Local(v)'
    BY <1>3, Frame DEF vars, IInv, TypeOK
  <2> QED
    BY <2>1, <2>2 DEF IInv
<1> QED
  BY <1>1, <1>2, <1>3 DEF Next

\* The invariant holds over all the sessions.
THEOREM Invariance == Spec => []IInv
  BY InitIInv, NextIInv, PTL DEF Spec

-----------------------------------------------------------------------------
(* The theorems a reader should know of. *)

\* The journal's records, the session and the budget keep their types.
THEOREM TypeCorrect == Spec => []TypeOK
<1>1. IInv => TypeOK
  BY DEF IInv
<1> QED
  BY <1>1, Invariance, PTL

\* No attempt is sent twice over all the sessions, nor without its durable
\* start receipt, whatever crashes and whatever fails.
THEOREM CallsAreSentOnce == Spec => []SingleDispatch
<1>1. IInv => SingleDispatch
  <2> SUFFICES ASSUME IInv, NEW u \in Units, NEW a \in Attempts
               PROVE  /\ dispatched[<<u, a>>] <= 1
                      /\ dispatched[<<u, a>>] = 1 => a \in started[u]
    BY DEF SingleDispatch
  <2>1. dispatched[<<u, a>>] \in {0, 1} /\ (dispatched[<<u, a>>] = 1 => a \in started[u])
    BY DEF IInv, Local, Sent
  <2>2. dispatched[<<u, a>>] <= 1
    BY <2>1
  <2> QED
    BY <2>1, <2>2
<1> QED
  BY <1>1, Invariance, PTL

\* No further call is bought for a unit after an answer that is valid, of
\* unknown acceptance, or not to be retried.
THEOREM VerdictsEndBuying == Spec => []NothingBoughtAfterVerdict
<1>1. IInv => NothingBoughtAfterVerdict
  BY DEF IInv, Local, Ladder, Transient, NothingBoughtAfterVerdict
<1> QED
  BY <1>1, Invariance, PTL

\* A final record selects the first valid completion or says that none is,
\* and no resume ever finds it, or a retry schedule, missing or wrong.
THEOREM FinalRecordsSurvive == Spec => []FinalRecordsAreSound
<1>1. IInv => FinalRecordsAreSound
  <2> SUFFICES ASSUME IInv, NEW u \in Units
               PROVE  /\ pc[u] # "corrupt"
                      /\ final[u] # NoFinal =>
                           /\ \A a \in 1..final[u].attempt : Has(u, a)
                           /\ FinalIsSound(u)
    BY DEF FinalRecordsAreSound
  <2> QED
    BY VerdictIsSound DEF IInv, Local, Place, Verdict
<1> QED
  BY <1>1, Invariance, PTL
=============================================================================
