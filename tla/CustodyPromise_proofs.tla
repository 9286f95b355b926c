----------------------- MODULE CustodyPromise_proofs -----------------------
(***************************************************************************)
(* More proofs about CustodiedInference: the accounts of the budget, the   *)
(* spend of a first session, that custody implements PaidWork, and that    *)
(* nobody waits for headroom on nobody.                                    *)
(***************************************************************************)
EXTENDS CustodiedInference_proofs, FiniteSetTheorems

USE CustodyAssumption

-----------------------------------------------------------------------------
(* The budget's books, unit by unit. *)

Unbooked == {"begin", "replay", "attempt", "interrupted", "reserve", "waiting"}
Booked == {"start", "dispatch", "calling"}

\* What the budget knows of a unit: nothing ahead of its present attempt, and
\* of that one only what its place says.
Book(u) ==
  /\ \A a \in Attempts : <<u, a>> \in accounted \cup reserved => a <= att[u]
  /\ \A a \in Attempts : <<u, a>> \in accounted => Has(u, a)
  /\ pc[u] \in Unbooked => Call(u) \notin accounted \cup reserved
  /\ pc[u] \in Booked => Call(u) \in reserved /\ Call(u) \notin accounted

Ledger ==
  /\ IsFiniteSet(accounted) /\ IsFiniteSet(reserved)
  /\ accountedCalls = Cardinality(accounted)
  /\ accounted \cap reserved = {}

Books == Ledger /\ \A u \in Units : Book(u)

\* Before any crash there is nothing to replay: what is accounted was reserved.
FirstSession(u) ==
  crashes = 0 =>
    /\ \A a \in Attempts : a \in started[u] => a <= att[u]
    /\ pc[u] \in {"begin", "attempt"} => att[u] \notin started[u]
    /\ pc[u] \notin {"replay", "interrupted"}
    /\ pc[u] = "begin" => final[u] = NoFinal
    /\ pc[u] = "account" => Call(u) \in reserved

\* The attempts started are the first so many.
InOrder(u) == \E n \in 0..MaxAttempts : started[u] = 1..n

-----------------------------------------------------------------------------
(* Lemmas: accounts *)

\* A unit no step concerns, unless it is woken, keeps its book.
LEMMA BookFrame ==
  ASSUME NEW v \in Units, Book(v), att'[v] = att[v],
         \A a \in Attempts : Has(v, a) => Has(v, a)',
         \A a \in Attempts : /\ <<v, a>> \in accounted' <=> <<v, a>> \in accounted
                             /\ <<v, a>> \in reserved' <=> <<v, a>> \in reserved,
         att[v] \in Attempts,
         /\ pc'[v] \in Unbooked => pc[v] \in Unbooked
         /\ pc'[v] \in Booked => pc[v] \in Booked
  PROVE  Book(v)'
BY DEF Book, Call

\* Accounting a call counts it once and gives its reservation back.
LEMMA AccountKeepsLedger ==
  ASSUME TypeOK, Ledger, NEW u \in Units, NEW r \in Answer, Account(Call(u), r)
  PROVE  /\ Ledger'
         /\ Call(u) \in accounted' /\ Call(u) \notin reserved'
         /\ \A c : c # Call(u) => /\ c \in accounted' <=> c \in accounted
                                  /\ c \in reserved' <=> c \in reserved
<1>1. CASE Call(u) \in accounted
  BY <1>1 DEF Account, Ledger, budget
<1>2. CASE Call(u) \notin accounted
  <2>1. /\ accounted' = accounted \cup {Call(u)} /\ reserved' = reserved \ {Call(u)}
        /\ accountedCalls' = accountedCalls + 1
    BY <1>2 DEF Account
  <2>2. IsFiniteSet(accounted') /\ Cardinality(accounted') = Cardinality(accounted) + 1
    BY <1>2, <2>1, FS_AddElement DEF Ledger
  <2>3. IsFiniteSet(reserved')
    BY <2>1, FS_RemoveElement DEF Ledger
  <2> QED
    BY <2>1, <2>2, <2>3 DEF Ledger
<1> QED
  BY <1>1, <1>2

\* A step that leaves the budget and the attempt alone keeps the books where
\* it does not enter a place that is reserved or is not.
LEMMA BookMove ==
  ASSUME TypeOK, Books, NEW u \in Units, NEW to,
         pc' = [pc EXCEPT ![u] = to], att' = att, UNCHANGED budget,
         \A v \in Units, a \in Attempts : Has(v, a) => Has(v, a)',
         to \in Unbooked => pc[u] \in Unbooked,
         to \in Booked => pc[u] \in Booked
  PROVE  Books'
<1>1. Ledger'
  BY DEF Books, Ledger, budget
<1>2. ASSUME NEW v \in Units PROVE Book(v)'
  <2>1. att[v] \in Attempts /\ pc'[v] = IF v = u THEN to ELSE pc[v]
    BY DEF TypeOK
  <2> QED
    BY <2>1, BookFrame DEF Books, budget
<1> QED
  BY <1>1, <1>2 DEF Books

\* The steps that leave the budget and the attempts alone.
LEMMA QuietBooks ==
  ASSUME IInv, Books, NEW u \in Units,
         \/ Begin(u) \/ AttemptHead(u) \/ PutStarted(u) \/ Dispatch(u) \/ PutCompletion(u)
         \/ PutFinal(u) \/ RunnerThrows(u) \/ PutRejected(u)
  PROVE  Books'
<1> USE DEF IInv
<1>0. pc \in [Units -> PCs]
  BY DEF TypeOK
<1>1. /\ pc' = [pc EXCEPT ![u] = pc'[u]]
      /\ pc'[u] \in Unbooked => pc[u] \in Unbooked
      /\ pc'[u] \in Booked => pc[u] \in Booked
  <2>1. CASE Begin(u)
    BY <1>0, <2>1 DEF Begin, Goto, Unbooked, Booked
  <2>2. CASE AttemptHead(u)
    BY <1>0, <2>2 DEF AttemptHead, Goto, Unbooked, Booked
  <2>3. CASE PutStarted(u)
    BY <1>0, <2>3 DEF PutStarted, Goto, Unbooked, Booked
  <2>4. CASE Dispatch(u)
    BY <1>0, <2>4 DEF Dispatch, Goto, Unbooked, Booked
  <2>5. CASE PutCompletion(u)
    BY <1>0, <2>5 DEF PutCompletion, Goto, Unbooked, Booked
  <2>6. CASE PutFinal(u)
    BY <1>0, <2>6 DEF PutFinal, Goto, EndOf, Unbooked, Booked
  <2>7. CASE RunnerThrows(u)
    BY <1>0, <2>7 DEF RunnerThrows, Goto, Unbooked, Booked
  <2>8. CASE PutRejected(u)
    BY <1>0, <2>8 DEF PutRejected, Goto, Unbooked, Booked
  <2> QED
    BY <2>1, <2>2, <2>3, <2>4, <2>5, <2>6, <2>7, <2>8
<1>2. att' = att /\ UNCHANGED budget
  BY DEF Begin, AttemptHead, PutStarted, Dispatch, PutCompletion, PutFinal, RunnerThrows,
         PutRejected, local
<1>3. \A v \in Units, a \in Attempts : Has(v, a) => Has(v, a)'
  <2>1. CASE PutCompletion(u)
    <3>1. att[u] \in Attempts /\ completion \in [Units -> [Attempts -> Answers \cup {Interrupted, NoAnswer}]]
      BY DEF TypeOK
    <3>2. \A r \in Answer : r # NoAnswer
      BY AnswersExist
    <3>3. Interrupted \in Answer
      BY DEF Interrupted, Answer
    <3>4. PICK r \in Answer : completion' = [completion EXCEPT ![u][att[u]] = r]
      <4>1. PICK r \in Answers \cup {Interrupted} : completion' = [completion EXCEPT ![u][att[u]] = r]
        BY <2>1 DEF PutCompletion
      <4> QED
        BY <3>3, <4>1
    <3>5. \A v \in Units, a \in Attempts :
            completion'[v][a] = IF v = u /\ a = att[u] THEN r ELSE completion[v][a]
      BY <3>1, <3>4
    <3> QED
      BY <3>2, <3>5 DEF Has
  <2>2. CASE ~PutCompletion(u)
    <3>1. completion' = completion
      BY <2>2 DEF Begin, AttemptHead, PutStarted, Dispatch, PutFinal, RunnerThrows, PutRejected, durable
    <3> QED
      BY <3>1 DEF Has
  <2> QED
    BY <2>1, <2>2
<1> QED
  BY <1>1, <1>2, <1>3, BookMove

\* Replaying or accounting a recorded call.
LEMMA AccountingBooks ==
  ASSUME IInv, Books, NEW u \in Units, Replay(u) \/ AccountCompletion(u)
  PROVE  Books'
<1>1. TypeOK /\ Ledger /\ Local(u) /\ att[u] \in Attempts
  BY DEF IInv, Books, TypeOK
<1>2. Has(u, att[u])
  <2>1. CASE Replay(u)
    BY <2>1, <1>1 DEF Replay, Local, Place, Verdict, Attempts
  <2>2. CASE AccountCompletion(u)
    BY <2>2, <1>1 DEF AccountCompletion, Local, Place
  <2> QED
    BY <2>1, <2>2
<1>3. Recorded(u) \in Answer
  BY <1>1, <1>2, AnswerType DEF Recorded
<1>4. Account(Call(u), Recorded(u)) /\ completion' = completion
  BY <1>2 DEF Replay, AccountCompletion, durable
<1>5. /\ Ledger' /\ Call(u) \in accounted' /\ Call(u) \notin reserved'
      /\ \A c : c # Call(u) => /\ c \in accounted' <=> c \in accounted
                               /\ c \in reserved' <=> c \in reserved
  BY <1>1, <1>3, <1>4, AccountKeepsLedger
<1>6. \/ att' = att /\ pc'[u] \notin Unbooked \cup Booked
      \/ att' = [att EXCEPT ![u] = @ + 1] /\ pc'[u] = "replay"
  <2>1. CASE Replay(u)
    BY <2>1, <1>1, <1>2 DEF Replay, TypeOK, Unbooked, Booked, Woken
  <2>2. CASE AccountCompletion(u)
    BY <2>2 DEF AccountCompletion, TypeOK, Unbooked, Booked, Woken, local
  <2> QED
    BY <2>1, <2>2
<1>7. \A v \in Units \ {u} : pc'[v] = pc[v] \/ (pc[v] = "waiting" /\ pc'[v] = "reserve")
  BY <1>1, <1>2, WokenPC DEF Replay, AccountCompletion, TypeOK
<1>8. Book(u)'
  <2>1. Book(u) /\ att'[u] \in {att[u], att[u] + 1} /\ (pc'[u] = "replay" => att'[u] = att[u] + 1)
    BY <1>1, <1>6 DEF Books, TypeOK, Unbooked
  <2>2. \A a \in Attempts : <<u, a>> \in accounted' \cup reserved' => a <= att[u]
    <3> SUFFICES ASSUME NEW a \in Attempts, <<u, a>> \in accounted' \cup reserved', a # att[u]
                 PROVE  a <= att[u]
      BY <1>1 DEF Attempts
    <3>1. <<u, a>> # Call(u)
      BY DEF Call
    <3>2. <<u, a>> \in accounted \cup reserved
      BY <1>5, <3>1
    <3> QED
      BY <2>1, <3>2 DEF Book
  <2>3. \A a \in Attempts : <<u, a>> \in accounted' => Has(u, a)'
    BY <1>2, <1>4, <1>5, <2>1 DEF Book, Call, Has
  <2>4. pc'[u] \in Unbooked => pc'[u] = "replay"
    BY <1>6
  <2>5. pc'[u] \notin Booked
    BY <1>6 DEF Booked
  <2>6. pc'[u] = "replay" => Call(u)' \notin accounted' \cup reserved'
    <3> SUFFICES ASSUME pc'[u] = "replay" PROVE Call(u)' \notin accounted' \cup reserved'
      OBVIOUS
    <3>1. Call(u)' = <<u, att[u] + 1>> /\ att[u] + 1 > att[u]
      BY <1>1, <2>1 DEF Call, Attempts
    <3>2. Call(u)' # Call(u)
      BY <3>1, <1>1 DEF Call, Attempts
    <3>3. Call(u)' \in accounted' \cup reserved' => <<u, att[u] + 1>> \in Calls
      BY <3>1, <3>2, <1>5, <1>1 DEF TypeOK
    <3> QED
      BY <3>1, <3>3, <2>2, <1>1 DEF Calls, Attempts
  <2>7. \A a \in Attempts : <<u, a>> \in accounted' \cup reserved' => a <= att'[u]
    BY <2>1, <2>2, <1>1 DEF Attempts
  <2> QED
    BY <2>3, <2>4, <2>5, <2>6, <2>7 DEF Book
<1>9. ASSUME NEW v \in Units, v # u PROVE Book(v)'
  <2>1. att'[v] = att[v] /\ att[v] \in Attempts
    BY <1>1, <1>6, <1>9 DEF TypeOK
  <2>2. \A a \in Attempts : <<v, a>> # Call(u)
    BY <1>9 DEF Call
  <2>3. pc'[v] = pc[v] \/ (pc[v] = "waiting" /\ pc'[v] = "reserve")
    BY <1>7, <1>9
  <2>4. /\ pc'[v] \in Unbooked => pc[v] \in Unbooked
        /\ pc'[v] \in Booked => pc[v] \in Booked
    BY <2>3 DEF Unbooked, Booked
  <2>5. \A a \in Attempts : Has(v, a) => Has(v, a)'
    BY <1>4 DEF Has
  <2> QED
    BY <2>1, <2>2, <2>4, <2>5, <1>5, BookFrame DEF Books
<1> QED
  BY <1>5, <1>8, <1>9 DEF Books

\* A call is reserved in the turn that goes on to its start receipt.
LEMMA ReservingBooks ==
  ASSUME IInv, Books, NEW u \in Units, BeforeDispatch(u)
  PROVE  Books'
<1>1. TypeOK /\ Ledger /\ pc[u] = "reserve" /\ att[u] \in Attempts /\ Book(u)
  BY DEF IInv, Books, TypeOK, BeforeDispatch
<1>2. /\ att' = att /\ completion' = completion /\ accounted' = accounted
      /\ accountedCalls' = accountedCalls
  BY DEF BeforeDispatch, durable
<1>3. CASE UNCHANGED reserved
  <2>1. UNCHANGED budget /\ pc' = [pc EXCEPT ![u] = pc'[u]]
    BY <1>1, <1>3 DEF BeforeDispatch, budget, Goto, TypeOK
  <2>2. pc'[u] \in {"start", "waiting", "refused"}
    BY <1>1 DEF BeforeDispatch, Goto, TypeOK
  <2>3. pc'[u] # "start"
    <3>1. Call(u) \notin reserved
      BY <1>1 DEF Book, Unbooked
    <3>2. pc'[u] = "start" => Call(u) \in reserved'
      BY <1>1 DEF BeforeDispatch, Goto, TypeOK
    <3> QED
      BY <3>1, <3>2, <1>3
  <2>4. /\ pc'[u] \in Unbooked => pc[u] \in Unbooked
        /\ pc'[u] \in Booked => pc[u] \in Booked
    BY <1>1, <2>2, <2>3 DEF Unbooked, Booked
  <2>5. \A v \in Units, a \in Attempts : Has(v, a) => Has(v, a)'
    BY <1>2 DEF Has
  <2> QED
    BY <1>1, <1>2, <2>1, <2>4, <2>5, BookMove
<1>4. CASE ~UNCHANGED reserved
  <2>1. reserved' = reserved \cup {Call(u)} /\ pc' = [pc EXCEPT ![u] = "start"]
    BY <1>4 DEF BeforeDispatch, Goto
  <2>2. Call(u) \notin accounted
    BY <1>1 DEF Book, Unbooked
  <2>3. Ledger'
    BY <1>1, <1>2, <2>1, <2>2, FS_AddElement DEF Ledger
  <2>4. Book(u)'
    BY <1>1, <1>2, <2>1, <2>2 DEF Book, Call, Has, Unbooked, Booked, TypeOK, Attempts
  <2>5. ASSUME NEW v \in Units, v # u PROVE Book(v)'
    <3>1. att'[v] = att[v] /\ att[v] \in Attempts /\ pc'[v] = pc[v] /\ Book(v)
      BY <1>1, <1>2, <2>1, <2>5 DEF TypeOK, Books
    <3>2. \A a \in Attempts : <<v, a>> # Call(u)
      BY <2>5 DEF Call
    <3>3. \A a \in Attempts : Has(v, a) => Has(v, a)'
      BY <1>2 DEF Has
    <3> QED
      BY <1>2, <2>1, <3>1, <3>2, <3>3, BookFrame
  <2> QED
    BY <2>3, <2>4, <2>5 DEF Books
<1> QED
  BY <1>3, <1>4

\* A retry is an attempt the budget has not met.
LEMMA RetryBooks ==
  ASSUME IInv, Books, NEW u \in Units, ScheduleRetry(u)
  PROVE  Books'
<1>1. TypeOK /\ Ledger /\ att[u] \in Attempts /\ Book(u) /\ pc[u] = "assess"
  BY DEF IInv, Books, TypeOK, ScheduleRetry
<1>2. /\ att' = [att EXCEPT ![u] = @ + 1] /\ pc' = [pc EXCEPT ![u] = "attempt"]
      /\ completion' = completion /\ UNCHANGED budget
  BY DEF ScheduleRetry, Goto
<1>3. /\ accounted' = accounted /\ reserved' = reserved
      /\ accountedCalls' = accountedCalls
  BY <1>2 DEF budget
<1>4. Ledger'
  BY <1>1, <1>3 DEF Ledger
<1>5. Book(u)'
  <2>1. att'[u] = att[u] + 1 /\ pc'[u] = "attempt"
    BY <1>1, <1>2 DEF TypeOK
  <2>2. \A a \in Attempts : <<u, a>> \in accounted \cup reserved => a <= att[u] /\ a # att[u] + 1
    BY <1>1 DEF Book, Attempts
  <2>3. <<u, att[u] + 1>> \notin accounted \cup reserved
    BY <1>1, <2>2 DEF TypeOK, Calls
  <2>4. Call(u)' = <<u, att[u] + 1>>
    BY <2>1 DEF Call
  <2>5. \A a \in Attempts : <<u, a>> \in accounted \cup reserved => a <= att[u] + 1
    BY <1>1, <2>2 DEF Attempts
  <2> QED
    BY <1>1, <1>2, <1>3, <2>1, <2>3, <2>4, <2>5 DEF Book, Has, Booked
<1>6. ASSUME NEW v \in Units, v # u PROVE Book(v)'
  <2>1. att'[v] = att[v] /\ att[v] \in Attempts /\ pc'[v] = pc[v] /\ Book(v)
    BY <1>1, <1>2, <1>6 DEF TypeOK, Books
  <2>2. \A a \in Attempts : Has(v, a) => Has(v, a)'
    BY <1>2 DEF Has
  <2> QED
    BY <1>3, <2>1, <2>2, BookFrame
<1> QED
  BY <1>4, <1>5, <1>6 DEF Books

\* A session begins with empty books, and nothing is behind its first attempts.
LEMMA BooksInit == Init => Books
<1> SUFFICES ASSUME Init PROVE Books
  OBVIOUS
<1>1. accounted = {} /\ reserved = {} /\ accountedCalls = 0
  BY DEF Init
<1>2. Ledger
  BY <1>1, FS_EmptySet DEF Ledger
<1>3. ASSUME NEW u \in Units PROVE Book(u)
  BY <1>1 DEF Init, Book, Booked
<1> QED
  BY <1>2, <1>3 DEF Books

LEMMA CrashBooks == ASSUME Crash PROVE Books'
<1>1. accounted' = {} /\ reserved' = {} /\ accountedCalls' = 0
  BY DEF Crash
<1>2. Ledger'
  BY <1>1, FS_EmptySet DEF Ledger
<1>3. ASSUME NEW u \in Units PROVE Book(u)'
  BY <1>1 DEF Crash, Book, Booked
<1> QED
  BY <1>2, <1>3 DEF Books

LEMMA BooksNext == IInv /\ Books /\ [Next]_vars => Books'
<1> SUFFICES ASSUME IInv, Books, [Next]_vars
             PROVE  Books'
  OBVIOUS
<1>1. CASE UNCHANGED vars
  <2>1. /\ accounted' = accounted /\ reserved' = reserved
        /\ accountedCalls' = accountedCalls
        /\ att' = att /\ pc' = pc /\ completion' = completion
    BY <1>1 DEF vars
  <2> QED
    BY <2>1 DEF Books, Ledger, Book, Has, Call
<1>2. CASE \E u \in Units : UnitStep(u)
  BY <1>2, QuietBooks, AccountingBooks, ReservingBooks, RetryBooks DEF UnitStep
<1> QED
  BY <1>1, <1>2, CrashBooks DEF Next

LEMMA BooksAlways == Spec => []Books
BY BooksInit, BooksNext, Invariance, PTL DEF Spec

\* Every accounted call is on record, none is counted twice or accounted and
\* reserved at once, and a call in flight holds its reservation, through
\* replays, retries, contention, failed puts and crashes.
THEOREM BooksMatchJournal == Spec => []AccountsMatchJournal
<1>1. Books => AccountsMatchJournal
  BY DEF Books, Ledger, Book, AccountsMatchJournal, Unbooked, Booked
<1> QED
  BY <1>1, BooksAlways, PTL

-----------------------------------------------------------------------------
(* The spend of a first session *)

\* A unit no step concerns keeps what a first session has of it.
LEMMA FirstFrame ==
  ASSUME NEW v \in Units, FirstSession(v), crashes' = crashes,
         att'[v] = att[v], started'[v] = started[v], final'[v] = final[v],
         Call(v) \in reserved => Call(v) \in reserved',
         pc'[v] = pc[v] \/ (pc[v] = "waiting" /\ pc'[v] = "reserve")
  PROVE  FirstSession(v)'
BY DEF FirstSession, Call

\* The steps that leave the reservations alone.
LEMMA QuietFirst ==
  ASSUME IInv, Books, \A v \in Units : FirstSession(v), NEW u \in Units,
         \/ Begin(u) \/ AttemptHead(u) \/ PutStarted(u) \/ Dispatch(u) \/ PutCompletion(u)
         \/ PutFinal(u) \/ RunnerThrows(u) \/ PutRejected(u)
  PROVE  \A v \in Units : FirstSession(v)'
<1>1. TypeOK /\ Local(u) /\ Book(u) /\ FirstSession(u) /\ att[u] \in Attempts
  BY DEF IInv, Books, TypeOK
<1>2. att' = att /\ reserved' = reserved /\ crashes' = crashes
  BY DEF Begin, AttemptHead, PutStarted, Dispatch, PutCompletion, PutFinal, RunnerThrows,
         PutRejected, local, budget
<1>3. pc' = [pc EXCEPT ![u] = pc'[u]]
  BY <1>1 DEF Begin, AttemptHead, PutStarted, Dispatch, PutCompletion, PutFinal, RunnerThrows,
              PutRejected, Goto, TypeOK
<1>4. \A v \in Units : v # u => started'[v] = started[v] /\ final'[v] = final[v]
  BY <1>1 DEF Begin, AttemptHead, PutStarted, Dispatch, PutCompletion, PutFinal, RunnerThrows,
              PutRejected, durable, TypeOK
<1>5. FirstSession(u)'
  <2> SUFFICES ASSUME crashes = 0
               PROVE  /\ \A a \in Attempts : a \in started'[u] => a <= att[u]
                      /\ pc'[u] \in {"begin", "attempt"} => att[u] \notin started'[u]
                      /\ pc'[u] \notin {"replay", "interrupted"}
                      /\ pc'[u] = "begin" => final'[u] = NoFinal
                      /\ pc'[u] = "account" => Call(u) \in reserved
    BY <1>2 DEF FirstSession, Call
  <2>1. started'[u] = started[u] \/ started'[u] = started[u] \cup {att[u]}
    BY <1>1 DEF Begin, AttemptHead, PutStarted, Dispatch, PutCompletion, PutFinal, RunnerThrows,
                PutRejected, durable, TypeOK
  <2>2. \A a \in Attempts : a \in started'[u] => a <= att[u]
    BY <1>1, <2>1 DEF FirstSession, Attempts
  <2>3. /\ pc'[u] = "attempt" => Begin(u)
        /\ pc'[u] # "begin"
    BY <1>1 DEF Begin, AttemptHead, PutStarted, Dispatch, PutCompletion, PutFinal, RunnerThrows,
                PutRejected, Goto, EndOf, TypeOK
  <2>4. pc'[u] = "attempt" => att[u] \notin started'[u]
    BY <1>1, <2>3 DEF FirstSession, Begin, durable
  <2>5. pc'[u] # "replay"
    BY <1>1 DEF FirstSession, Begin, AttemptHead, PutStarted, Dispatch, PutCompletion, PutFinal,
                RunnerThrows, PutRejected, Goto, EndOf, TypeOK
  <2>6. AttemptHead(u) => att[u] \notin started[u] /\ ~Has(u, att[u])
    BY <1>1 DEF AttemptHead, FirstSession, Local, Ladder
  <2>7. pc'[u] # "interrupted"
    BY <1>1, <2>6 DEF Begin, AttemptHead, PutStarted, Dispatch, PutCompletion, PutFinal,
                RunnerThrows, PutRejected, Goto, EndOf, Orphaned, TypeOK
  <2>8. pc'[u] = "account" => PutCompletion(u)
    BY <1>1, <2>6 DEF Begin, AttemptHead, PutStarted, Dispatch, PutFinal,
                RunnerThrows, PutRejected, Goto, EndOf, TypeOK
  <2>9. pc'[u] = "account" => Call(u) \in reserved
    BY <1>1, <2>8 DEF PutCompletion, FirstSession, Book, Booked
  <2> QED
    BY <2>2, <2>3, <2>4, <2>5, <2>7, <2>9
<1>6. ASSUME NEW v \in Units, v # u PROVE FirstSession(v)'
  BY <1>1, <1>2, <1>3, <1>4, <1>6, FirstFrame DEF TypeOK
<1> QED
  BY <1>5, <1>6

\* The steps of the budget and the retry.
LEMMA BudgetFirst ==
  ASSUME IInv, Books, \A v \in Units : FirstSession(v), NEW u \in Units,
         Replay(u) \/ AccountCompletion(u) \/ BeforeDispatch(u) \/ ScheduleRetry(u)
  PROVE  \A v \in Units : FirstSession(v)'
<1>1. TypeOK /\ Local(u) /\ FirstSession(u) /\ att[u] \in Attempts
  BY DEF IInv, TypeOK
<1>2. started' = started /\ final' = final /\ crashes' = crashes
  BY DEF Replay, AccountCompletion, BeforeDispatch, ScheduleRetry, durable
<1>3. \A c : c # Call(u) /\ c \in reserved => c \in reserved'
  BY DEF Replay, AccountCompletion, BeforeDispatch, ScheduleRetry, Account, budget
<1>4. \A v \in Units : v # u => /\ att'[v] = att[v]
                                /\ pc'[v] = pc[v] \/ (pc[v] = "waiting" /\ pc'[v] = "reserve")
  BY <1>1, WokenPC DEF Replay, AccountCompletion, BeforeDispatch, ScheduleRetry, local, Goto, TypeOK
<1>5. FirstSession(u)'
  <2>1. CASE Replay(u)
    BY <1>1, <1>2, <2>1 DEF FirstSession, Replay
  <2>2. CASE AccountCompletion(u)
    <3>1. pc'[u] = "assess" /\ att' = att
      BY <1>1, <2>2, WokenPC DEF AccountCompletion, TypeOK, local
    <3> QED
      BY <1>1, <1>2, <3>1 DEF FirstSession
  <2>3. CASE BeforeDispatch(u)
    <3>1. pc'[u] \in {"start", "waiting", "refused"} /\ att' = att
      BY <1>1, <2>3 DEF BeforeDispatch, TypeOK, Goto
    <3> QED
      BY <1>1, <1>2, <3>1 DEF FirstSession
  <2>4. CASE ScheduleRetry(u)
    <3>1. pc'[u] = "attempt" /\ att'[u] = att[u] + 1
      BY <1>1, <2>4 DEF ScheduleRetry, TypeOK, Goto
    <3>2. crashes = 0 => \A a \in Attempts : a \in started[u] => a <= att[u] + 1 /\ a # att[u] + 1
      BY <1>1 DEF FirstSession, Attempts
    <3>3. started[u] \subseteq Attempts
      BY <1>1 DEF TypeOK
    <3> QED
      BY <1>2, <3>1, <3>2, <3>3 DEF FirstSession
  <2> QED
    BY <2>1, <2>2, <2>3, <2>4
<1>6. ASSUME NEW v \in Units, v # u PROVE FirstSession(v)'
  <2>1. Call(v) # Call(u)
    BY <1>6 DEF Call
  <2> QED
    BY <1>2, <1>3, <1>4, <1>6, <2>1, FirstFrame
<1> QED
  BY <1>5, <1>6

LEMMA FirstAlways == Spec => [](\A v \in Units : FirstSession(v))
<1>1. Init => \A v \in Units : FirstSession(v)
  BY DEF Init, FirstSession
<1>2. IInv /\ Books /\ (\A v \in Units : FirstSession(v)) /\ [Next]_vars
      => (\A v \in Units : FirstSession(v))'
  <2> SUFFICES ASSUME IInv, Books, \A v \in Units : FirstSession(v), [Next]_vars
               PROVE  \A v \in Units : FirstSession(v)'
    OBVIOUS
  <2>1. CASE UNCHANGED vars
    BY <2>1 DEF vars, FirstSession, Call
  <2>2. CASE Crash
    <3>1. crashes' # 0
      BY <2>2 DEF Crash, IInv, TypeOK
    <3> QED
      BY <3>1 DEF FirstSession
  <2>3. CASE \E u \in Units : UnitStep(u)
    BY <2>3, QuietFirst, BudgetFirst DEF UnitStep
  <2> QED
    BY <2>1, <2>2, <2>3 DEF Next
<1> QED
  BY <1>1, <1>2, Invariance, BooksAlways, PTL DEF Spec

Cheap == \A r \in Answers : r.cost <= Reserve

LEMMA OneMore ==
  ASSUME NEW n \in Nat
  PROVE  (n + 1) * Reserve = n * Reserve + Reserve /\ n * Reserve \in Nat
OBVIOUS

\* A call that has its reservation costs no more than it gives back.
LEMMA AccountSpends ==
  ASSUME TypeOK, Ledger, Cheap, NEW u \in Units, NEW r \in Answers \cup {Interrupted},
         Account(Call(u), r), Call(u) \in reserved,
         knownCost + Cardinality(reserved) * Reserve <= CostCap,
         accountedCalls + Cardinality(reserved) <= CallCap
  PROVE  /\ knownCost' + Cardinality(reserved') * Reserve <= CostCap
         /\ accountedCalls' + Cardinality(reserved') <= CallCap
<1>1. r.cost \in Nat /\ r.cost <= Reserve
  BY DEF Cheap, Answer, Interrupted
<1>2. Call(u) \notin accounted
  BY DEF Ledger
<1>3. /\ reserved' = reserved \ {Call(u)} /\ knownCost' = knownCost + r.cost
      /\ accountedCalls' = accountedCalls + 1
  BY <1>2 DEF Account
<1>4. /\ Cardinality(reserved') = Cardinality(reserved) - 1
      /\ Cardinality(reserved) \in Nat /\ Cardinality(reserved') \in Nat
  BY <1>3, FS_RemoveElement, FS_CardinalityType DEF Ledger
<1> DEFINE n == Cardinality(reserved')
<1>5. Cardinality(reserved) = n + 1 /\ n \in Nat
  BY <1>4
<1>6. (n + 1) * Reserve = n * Reserve + Reserve /\ n * Reserve \in Nat
  BY <1>5, OneMore
<1>7. knownCost \in Nat /\ accountedCalls \in Nat
  BY DEF TypeOK
<1>8. knownCost + (n * Reserve + Reserve) <= CostCap /\ accountedCalls + (n + 1) <= CallCap
  BY <1>5, <1>6
<1> HIDE DEF n
<1>9. knownCost' + n * Reserve <= CostCap /\ accountedCalls' + n <= CallCap
  BY <1>1, <1>3, <1>5, <1>6, <1>7, <1>8
<1> QED
  BY <1>9 DEF n

LEMMA SpendNext ==
  ASSUME IInv, Books, \A v \in Units : FirstSession(v), SpendStaysWithinCap, [Next]_vars
  PROVE  SpendStaysWithinCap'
<1> DEFINE Spent == /\ knownCost + Cardinality(reserved) * Reserve <= CostCap
                    /\ accountedCalls + Cardinality(reserved) <= CallCap
<1> SUFFICES ASSUME crashes' = 0, Cheap
             PROVE  Spent'
  BY DEF SpendStaysWithinCap, Cheap
<1>1. crashes = 0 /\ ~Crash
  BY DEF Next, Crash, UnitStep, Begin, Replay, AttemptHead, BeforeDispatch, PutStarted, Dispatch,
         PutCompletion, AccountCompletion, ScheduleRetry, PutFinal, RunnerThrows, PutRejected,
         vars, IInv, TypeOK
<1>2. Spent /\ TypeOK /\ Ledger
  BY <1>1 DEF SpendStaysWithinCap, Cheap, IInv, Books
<1>3. CASE UNCHANGED <<knownCost, reserved, accountedCalls>>
  BY <1>2, <1>3
<1>4. ASSUME NEW u \in Units, Replay(u)
      PROVE  Spent'
  BY <1>1, <1>4 DEF Replay, FirstSession
<1>5. ASSUME NEW u \in Units, AccountCompletion(u)
      PROVE  Spent'
  <2>1. pc[u] = "account" /\ Account(Call(u), Recorded(u)) /\ Call(u) \in reserved
    BY <1>1, <1>5 DEF AccountCompletion, FirstSession
  <2>2. Recorded(u) \in Answers \cup {Interrupted}
    <3>1. Has(u, att[u]) /\ att[u] \in Attempts
      BY <2>1 DEF IInv, Local, Place, TypeOK
    <3> QED
      BY <1>2, <3>1, AnswerType DEF Recorded
  <2> QED
    BY <1>2, <2>1, <2>2, AccountSpends
<1>6. ASSUME NEW u \in Units, BeforeDispatch(u)
      PROVE  Spent'
  <2>1. CASE UNCHANGED reserved
    BY <1>2, <1>6, <2>1 DEF BeforeDispatch
  <2>2. CASE ~UNCHANGED reserved
    <3>1. /\ Affordable(u) /\ reserved' = reserved \cup {Call(u)} /\ pc[u] = "reserve"
          /\ knownCost' = knownCost /\ accountedCalls' = accountedCalls
      BY <1>6, <2>2 DEF BeforeDispatch
    <3>2. Call(u) \notin reserved
      BY <3>1 DEF Books, Book, Unbooked
    <3>3. Cardinality(reserved') = Cardinality(reserved) + 1 /\ Cardinality(reserved) \in Nat
      BY <1>2, <3>1, <3>2, FS_AddElement, FS_CardinalityType DEF Ledger
    <3>4. knownCost \in Nat /\ accountedCalls \in Nat
      BY <1>2 DEF TypeOK
    <3>5. accountedCalls' + Cardinality(reserved') <= CallCap
      BY <3>1, <3>3, <3>4 DEF Affordable
    <3>6. Reserve = 0 \/ knownCost + (Cardinality(reserved) + 1) * Reserve <= CostCap
      <4>1. ~ReserveExceedsCap
        BY <3>1 DEF Affordable
      <4>2. (Cardinality(reserved) + 1) * Reserve \in Nat
        BY <3>3, OneMore
      <4> QED
        BY <4>1, <4>2, <3>4 DEF ReserveExceedsCap
    <3>7. Reserve = 0 => knownCost' + Cardinality(reserved') * Reserve <= CostCap
      BY <1>2, <3>1, <3>3, <3>4
    <3>8. Reserve # 0 => knownCost' + Cardinality(reserved') * Reserve <= CostCap
      BY <3>1, <3>3, <3>6
    <3> QED
      BY <3>5, <3>7, <3>8
  <2> QED
    BY <2>1, <2>2
<1>7. ASSUME NEW u \in Units, UnitStep(u), ~Replay(u), ~AccountCompletion(u), ~BeforeDispatch(u)
      PROVE  UNCHANGED <<knownCost, reserved, accountedCalls>>
  BY <1>7 DEF UnitStep, Begin, AttemptHead, PutStarted, Dispatch, PutCompletion, ScheduleRetry,
              PutFinal, RunnerThrows, PutRejected, budget
<1>8. CASE UNCHANGED vars
  BY <1>3, <1>8 DEF vars
<1>9. CASE \E u \in Units : UnitStep(u)
  BY <1>3, <1>4, <1>5, <1>6, <1>7, <1>9
<1> QED
  BY <1>1, <1>8, <1>9 DEF Next

\* Where no answer costs more than the reserve, the calls of a first session
\* stay within both caps, whatever is in flight, waits, fails or is retried.
THEOREM SpendIsCapped == Spec => []SpendStaysWithinCap
<1>1. Init => SpendStaysWithinCap
  <2> SUFFICES ASSUME Init PROVE SpendStaysWithinCap
    OBVIOUS
  <2>1. Cardinality({}) = 0
    BY FS_EmptySet
  <2>2. knownCost = 0 /\ accountedCalls = 0 /\ reserved = {}
    BY DEF Init
  <2> QED
    BY <2>1, <2>2 DEF SpendStaysWithinCap
<1>2. IInv /\ Books /\ (\A v \in Units : FirstSession(v)) /\ SpendStaysWithinCap /\ [Next]_vars
      => SpendStaysWithinCap'
  BY SpendNext
<1> QED
  BY <1>1, <1>2, Invariance, BooksAlways, FirstAlways, PTL DEF Spec

-----------------------------------------------------------------------------
(* Custody implements PaidWork. *)

\* What the abstract state is, once the attempts are started in order.
LEMMA LatestIs ==
  ASSUME NEW u \in Units, InOrder(u)
  PROVE  Latest(u) \in 0..MaxAttempts /\ started[u] = 1..Latest(u)
<1>1. PICK n \in 0..MaxAttempts : started[u] = 1..n
  BY DEF InOrder
<1>2. Cardinality(1..n) = n
  BY FS_Interval
<1> QED
  BY <1>1, <1>2 DEF Latest

\* Where the next attempt is not started, it is the next after the latest.
LEMMA NextIsNew ==
  ASSUME IInv, NEW u \in Units, InOrder(u), pc[u] = "start"
  PROVE  att[u] = Latest(u) + 1
<1>1. att[u] \in Attempts /\ att[u] \notin started[u]
  BY DEF IInv, TypeOK, Local, Place
<1>2. \A a \in Attempts : a < att[u] => a \in started[u]
  BY DEF IInv, Local, Place, Loop, Ladder
<1>3. Latest(u) \in 0..MaxAttempts /\ started[u] = 1..Latest(u)
  BY LatestIs
<1>4. ~(att[u] <= Latest(u))
  BY <1>1, <1>3 DEF Attempts
<1>5. att[u] > Latest(u) + 1 => FALSE
  BY <1>1, <1>2, <1>3 DEF Attempts
<1> QED
  BY <1>1, <1>3, <1>4, <1>5 DEF Attempts

\* The present attempt of a unit that has no transient answer is its latest.
LEMMA PresentIsLatest ==
  ASSUME IInv, NEW u \in Units, InOrder(u), att[u] \in started[u],
         ~(Has(u, att[u]) /\ Transient(completion[u][att[u]])) \/ att[u] = MaxAttempts
  PROVE  att[u] = Latest(u)
<1>1. att[u] \in Attempts /\ Latest(u) \in 0..MaxAttempts /\ started[u] = 1..Latest(u)
  BY LatestIs DEF IInv, TypeOK
<1>2. att[u] < Latest(u) => FALSE
  BY <1>1 DEF IInv, Local, Ladder, Attempts
<1> QED
  BY <1>1, <1>2 DEF Attempts

LEMMA OrderNext ==
  ASSUME IInv, \A v \in Units : InOrder(v), [Next]_vars
  PROVE  \A v \in Units : InOrder(v)'
<1>1. CASE UNCHANGED started
  BY <1>1 DEF InOrder
<1>2. ASSUME NEW u \in Units, PutStarted(u)
      PROVE  \A v \in Units : InOrder(v)'
  <2>1. started' = [started EXCEPT ![u] = @ \cup {att[u]}] /\ started \in [Units -> SUBSET Attempts]
    BY <1>2 DEF PutStarted, IInv, TypeOK
  <2>2. att[u] = Latest(u) + 1 /\ att[u] \in Attempts
    BY <1>2, NextIsNew DEF PutStarted, IInv, TypeOK
  <2>3. Latest(u) \in 0..MaxAttempts /\ started[u] = 1..Latest(u)
    BY LatestIs
  <2>4. started'[u] = 1..att[u]
    BY <2>1, <2>2, <2>3 DEF Attempts
  <2>5. InOrder(u)'
    BY <2>2, <2>4 DEF InOrder, Attempts
  <2> QED
    BY <2>1, <2>5 DEF InOrder
<1>3. UNCHANGED started \/ \E u \in Units : PutStarted(u)
  BY DEF Next, Crash, UnitStep, Begin, Replay, AttemptHead, BeforeDispatch, Dispatch,
         PutCompletion, AccountCompletion, ScheduleRetry, PutFinal, RunnerThrows, PutRejected,
         vars, durable
<1> QED
  BY <1>1, <1>2, <1>3

LEMMA OrderAlways == Spec => [](\A v \in Units : InOrder(v))
<1>1. Init => \A v \in Units : InOrder(v)
  <2>1. 1..0 = {} /\ 0 \in 0..MaxAttempts
    OBVIOUS
  <2> QED
    BY <2>1 DEF Init, InOrder
<1>2. IInv /\ (\A v \in Units : InOrder(v)) /\ [Next]_vars => (\A v \in Units : InOrder(v))'
  BY OrderNext
<1> QED
  BY <1>1, <1>2, Invariance, PTL DEF Spec

\* A start receipt buys the next call.
LEMMA PutStartedBuys ==
  ASSUME IInv, \A v \in Units : InOrder(v), NEW u \in Units, PutStarted(u)
  PROVE  Promise!Buy(u)
<1>1. /\ started' = [started EXCEPT ![u] = @ \cup {att[u]}] /\ completion' = completion
      /\ final' = final /\ pc[u] = "start"
  BY DEF PutStarted
<1>2. Latest(u) \in 0..MaxAttempts /\ started[u] = 1..Latest(u) /\ att[u] = Latest(u) + 1
  BY <1>1, LatestIs, NextIsNew
<1>3. att[u] \in Attempts /\ started \in [Units -> SUBSET Attempts]
  BY DEF IInv, TypeOK
<1>4. final[u].status = "open"
  BY <1>1 DEF IInv, Local, Place, Loop, NoFinal
<1>5. Latest(u)' = Latest(u) + 1
  <2>1. started'[u] = 1..(Latest(u) + 1)
    BY <1>1, <1>2, <1>3 DEF Attempts
  <2>2. Cardinality(1..(Latest(u) + 1)) = Latest(u) + 1
    BY <1>2, FS_Interval
  <2> QED
    BY <2>1, <2>2 DEF Latest
<1>6. ~Has(u, att[u])
  BY <1>1, <1>3 DEF IInv, Local, Place, Ladder
<1>7. LastAnswer(u)' = "awaited"
  BY <1>1, <1>2, <1>5, <1>6 DEF LastAnswer, Has
<1>8. LastAnswer(u) \in {"none", "transient"}
  <2>1. Latest(u) # 0 => Has(u, Latest(u)) /\ Transient(completion[u][Latest(u)])
    BY <1>1, <1>2, <1>3 DEF IInv, Local, Place, Loop, Attempts
  <2> QED
    BY <2>1 DEF LastAnswer, Transient
<1>9. Latest(u) < MaxAttempts
  BY <1>2, <1>3 DEF Attempts
<1>10. \A v \in Units : v # u => Latest(v)' = Latest(v) /\ LastAnswer(v)' = LastAnswer(v)
  BY <1>1, <1>3 DEF Latest, LastAnswer, Has
<1> QED
  BY <1>1, <1>4, <1>5, <1>7, <1>8, <1>9, <1>10 DEF Promise!Buy

\* A completion is what the latest call came to.
LEMMA PutCompletionLearns ==
  ASSUME IInv, \A v \in Units : InOrder(v), NEW u \in Units, PutCompletion(u)
  PROVE  Promise!Learn(u)
<1>1. PICK r \in Answers \cup {Interrupted} : completion' = [completion EXCEPT ![u][att[u]] = r]
  BY DEF PutCompletion
<1>2. /\ att[u] \in Attempts /\ att[u] \in started[u] /\ ~Has(u, att[u])
      /\ completion \in [Units -> [Attempts -> Answers \cup {Interrupted, NoAnswer}]]
  BY DEF IInv, TypeOK, Local, Place, PutCompletion
<1>3. started' = started /\ final' = final
  BY DEF PutCompletion
<1>4. att[u] = Latest(u) /\ Latest(u) # 0
  BY <1>2, PresentIsLatest DEF Attempts
<1>5. \A v \in Units : Latest(v)' = Latest(v)
  BY <1>3 DEF Latest
<1>6. r # NoAnswer /\ r \in Answer
  <2>1. Interrupted \in Answer
    BY DEF Interrupted, Answer
  <2>2. r \in Answer
    BY <2>1
  <2> QED
    BY <2>2, AnswersExist
<1>7. completion'[u][Latest(u)] = r
  BY <1>1, <1>2, <1>4
<1>8. LastAnswer(u) = "awaited"
  BY <1>2, <1>4 DEF LastAnswer
<1>9. LastAnswer(u)' \in {"transient", "unknown", "valid", "failed"}
  BY <1>4, <1>5, <1>6, <1>7 DEF LastAnswer, Has
<1>10. \A v \in Units : v # u => LastAnswer(v)' = LastAnswer(v)
  <2>1. \A v \in Units : v # u => completion'[v] = completion[v]
    BY <1>1, <1>2
  <2> QED
    BY <1>5, <2>1 DEF LastAnswer, Has
<1>11. [v \in Units |-> LastAnswer(v)]' = [[v \in Units |-> LastAnswer(v)] EXCEPT ![u] = LastAnswer(u)']
  BY <1>10
<1>12. UNCHANGED <<[v \in Units |-> Latest(v)], [v \in Units |-> final[v].status]>>
  BY <1>3, <1>5
<1> QED
  BY <1>8, <1>9, <1>11, <1>12 DEF Promise!Learn, Promise!Outcomes

\* A final record is the verdict that the last answer asks for.
LEMMA PutFinalCloses ==
  ASSUME IInv, \A v \in Units : InOrder(v), NEW u \in Materialized, PutFinal(u)
  PROVE  Promise!Close(u)
<1>1. /\ pc[u] = "assess" /\ ~MayRetry(u) /\ started' = started /\ completion' = completion
      /\ final' = [final EXCEPT ![u] = FinalRecord(u)] /\ u \in Units
  BY DEF PutFinal
<1>2. /\ att[u] \in Attempts /\ Has(u, att[u]) /\ att[u] \in started[u] /\ final[u] = NoFinal
      /\ DOMAIN final = Units
  BY <1>1 DEF IInv, TypeOK, Local, Place, Ladder, Loop
<1>3. ~Transient(completion[u][att[u]]) \/ att[u] = MaxAttempts
  BY <1>1, <1>2 DEF MayRetry, Limit, Recorded, Transient, Attempts
<1>4. att[u] = Latest(u) /\ Latest(u) # 0
  BY <1>1, <1>2, <1>3, PresentIsLatest DEF Attempts
<1>5. /\ \A v \in Units : Latest(v)' = Latest(v) /\ LastAnswer(v)' = LastAnswer(v)
  BY <1>1 DEF Latest, LastAnswer, Has
<1>6. final[u].status = "open"
  BY <1>2 DEF NoFinal
<1>7. final'[u].status = IF completion[u][att[u]].valid THEN "selected" ELSE "terminal_incomplete"
  BY <1>1, <1>2 DEF FinalRecord, Recorded
<1>8. CASE completion[u][att[u]].valid
  <2>1. LastAnswer(u) = "valid" /\ final'[u].status = "selected"
    BY <1>2, <1>4, <1>7, <1>8 DEF LastAnswer
  <2> QED
    BY <1>1, <1>2, <1>5, <1>6, <2>1 DEF Promise!Close
<1>9. CASE ~completion[u][att[u]].valid
  <2>1. LastAnswer(u) \in {"unknown", "failed"} \/ (LastAnswer(u) = "transient" /\ Latest(u) = MaxAttempts)
    BY <1>2, <1>3, <1>4, <1>9 DEF LastAnswer, Transient
  <2>2. final'[u].status = "terminal_incomplete"
    BY <1>7, <1>9
  <2> QED
    BY <1>1, <1>2, <1>5, <1>6, <2>1, <2>2 DEF Promise!Close
<1> QED
  BY <1>8, <1>9

LEMMA StepKeepsPromise ==
  ASSUME IInv, \A v \in Units : InOrder(v), [Next]_vars
  PROVE  [Promise!Next]_(Promise!vars)
<1>1. CASE UNCHANGED <<started, completion, final>>
  BY <1>1 DEF Promise!vars, Latest, LastAnswer, Has
<1>2. ASSUME NEW u \in Units, PutStarted(u) \/ PutCompletion(u) \/ (u \in Materialized /\ PutFinal(u))
      PROVE  Promise!Next
  BY <1>2, PutStartedBuys, PutCompletionLearns, PutFinalCloses DEF Promise!Next
<1>3. \/ UNCHANGED <<started, completion, final>>
      \/ \E u \in Units : PutStarted(u) \/ PutCompletion(u) \/ (u \in Materialized /\ PutFinal(u))
  BY DEF Next, Crash, UnitStep, Begin, Replay, AttemptHead, BeforeDispatch, Dispatch,
         AccountCompletion, ScheduleRetry, PutFinal, RunnerThrows, PutRejected, vars, durable
<1> QED
  BY <1>1, <1>2, <1>3

\* Custody implements PaidWork, for any units, attempts, crashes and faults:
\* through all its sessions a unit's calls are bought one at a time, a further
\* one only after a known transient failure, and its one verdict follows from
\* the last answer.
THEOREM CustodyKeepsPromise == Spec => ImplementsPaidWork
<1>1. Init => Promise!Init
  <2> SUFFICES ASSUME Init PROVE Promise!Init
    OBVIOUS
  <2>1. ASSUME NEW u \in Units PROVE Latest(u) = 0
    BY FS_EmptySet DEF Init, Latest
  <2>2. ASSUME NEW u \in Units PROVE LastAnswer(u) = "none" /\ final[u].status = "open"
    BY <2>1 DEF Init, LastAnswer, NoFinal
  <2> QED
    BY <2>1, <2>2 DEF Promise!Init
<1>2. IInv /\ (\A v \in Units : InOrder(v)) /\ [Next]_vars => [Promise!Next]_(Promise!vars)
  BY StepKeepsPromise
<1> QED
  BY <1>1, <1>2, Invariance, OrderAlways, PTL DEF Spec, ImplementsPaidWork, Promise!Spec

-----------------------------------------------------------------------------
(* An inspection is inert. *)

Buying == {"reserve", "waiting", "start", "dispatch", "calling", "interrupted"}

\* No unit of an inspection is ever on its way to a call.
Idle == inspecting => \A u \in Units : pc[u] \notin Buying

LEMMA IdleNext == IInv /\ Idle /\ [Next]_vars => Idle'
<1> SUFFICES ASSUME IInv, Idle, [Next]_vars, inspecting', NEW v \in Units
             PROVE  pc'[v] \notin Buying
  BY DEF Idle
<1>0. pc \in [Units -> PCs]
  BY DEF IInv, TypeOK
<1>1. CASE Crash
  BY <1>1 DEF Crash, Buying
<1>2. CASE UNCHANGED vars
  BY <1>2 DEF vars, Idle
<1>3. ASSUME NEW u \in Units, UnitStep(u) PROVE pc'[v] \notin Buying
  <2>1. inspecting
    BY <1>3 DEF UnitStep, Begin, Replay, AttemptHead, BeforeDispatch, PutStarted, Dispatch,
       PutCompletion, AccountCompletion, ScheduleRetry, PutFinal, RunnerThrows, PutRejected
  <2>2. \A w \in Units : pc[w] \notin Buying
    BY <2>1 DEF Idle
  <2>3. Woken(pc) = pc
    BY <1>0, <2>2 DEF Woken, Buying
  <2>4. CASE Begin(u)
    BY <1>0, <2>2, <2>4 DEF Begin, Goto, Buying
  <2>5. CASE Replay(u)
    BY <1>0, <2>2, <2>3, <2>5 DEF Replay, Goto, Buying
  <2>6. CASE AttemptHead(u)
    BY <1>0, <2>1, <2>2, <2>6 DEF AttemptHead, InspectionStops, Goto, Buying
  <2>7. CASE BeforeDispatch(u) \/ PutStarted(u) \/ Dispatch(u) \/ RunnerThrows(u) \/ PutCompletion(u)
    BY <2>2, <2>7 DEF BeforeDispatch, PutStarted, Dispatch, RunnerThrows, PutCompletion, Buying
  <2>8. CASE AccountCompletion(u)
    BY <1>0, <2>2, <2>3, <2>8 DEF AccountCompletion, Buying
  <2>9. CASE ScheduleRetry(u)
    BY <1>0, <2>2, <2>9 DEF ScheduleRetry, Goto, Buying
  <2>10. CASE PutFinal(u)
    BY <1>0, <2>2, <2>10 DEF PutFinal, EndOf, Goto, Buying
  <2>11. CASE PutRejected(u)
    BY <1>0, <2>2, <2>11 DEF PutRejected, Goto, Buying
  <2> QED
    BY <1>3, <2>4, <2>5, <2>6, <2>7, <2>8, <2>9, <2>10, <2>11 DEF UnitStep
<1> QED
  BY <1>1, <1>2, <1>3 DEF Next

\* A unit without a policy has one attempt: it is never retried, and it keeps
\* no final record.
LEMMA OneAttempt ==
  ASSUME TypeOK, NEW u \in Units \ Materialized
  PROVE  ~MayRetry(u)
<1>1. att[u] \in 1..MaxAttempts
  BY DEF TypeOK, Attempts
<1> QED
  BY <1>1 DEF MayRetry, Limit

\* An inspection starts and sends nothing, and of a unit without an attempt
\* policy it writes nothing, whatever else the session replays.
THEOREM InspectionStaysInert == Spec => InspectionIsInert
<1> DEFINE Inert == inspecting /\ crashes' = crashes =>
             /\ UNCHANGED <<started, dispatched>>
             /\ \A u \in Units \ Materialized : UNCHANGED <<completion[u], scheduled[u], final[u]>>
<1>1. Init => Idle
  BY DEF Init, Idle, Buying
<1>2. IInv /\ Idle /\ [Next]_vars => [Inert]_vars
  <2> SUFFICES ASSUME IInv, Idle, Next, inspecting, crashes' = crashes
               PROVE  /\ UNCHANGED <<started, dispatched>>
                      /\ \A w \in Units \ Materialized :
                           UNCHANGED <<completion[w], scheduled[w], final[w]>>
    BY DEF Inert
  <2>1. TypeOK
    BY DEF IInv
  <2>2. ~Crash
    BY <2>1 DEF Crash, TypeOK
  <2>3. PICK u \in Units : UnitStep(u)
    BY <2>2 DEF Next
  <2>4. pc[u] \notin Buying
    BY DEF Idle
  <2>5. CASE UNCHANGED durable /\ UNCHANGED dispatched
    BY <2>5 DEF durable
  <2>6. CASE ScheduleRetry(u)
    <3>1. u \in Materialized
      BY <2>1, <2>6, OneAttempt DEF ScheduleRetry
    <3>2. scheduled \in [Units -> SUBSET Attempts]
      BY <2>1 DEF TypeOK
    <3> QED
      BY <2>6, <3>1, <3>2 DEF ScheduleRetry
  <2>7. CASE PutFinal(u)
    BY <2>1, <2>7 DEF PutFinal, TypeOK
  <2>8. (UNCHANGED durable /\ UNCHANGED dispatched) \/ ScheduleRetry(u) \/ PutFinal(u)
    BY <2>3, <2>4 DEF UnitStep, Begin, Replay, AttemptHead, BeforeDispatch, PutStarted, Dispatch,
       PutCompletion, AccountCompletion, RunnerThrows, PutRejected, Buying
  <2> QED
    BY <2>5, <2>6, <2>7, <2>8
<1> QED
  BY <1>1, <1>2, IdleNext, Invariance, PTL DEF Spec, InspectionIsInert

-----------------------------------------------------------------------------
(* Who wakes the waiters. *)

\* A reservation is that of a call in flight, or was stranded by a fault.
Held(v) ==
  \A a \in Attempts : <<v, a>> \in reserved =>
    a = att[v] /\ (pc[v] \in InFlight \/ (pc[v] = "threw" /\ Faults # {}))

Wakers ==
  /\ \A v \in Units : Held(v)
  /\ \A u \in Units : pc[u] = "waiting" => reserved # {}

LEMMA WakersWake == ASSUME TypeOK, Wakers PROVE WaiterHasWaker
<1> SUFFICES ASSUME NEW u \in Units, pc[u] = "waiting"
             PROVE  \E v \in Units \ {u} :
                      Call(v) \in reserved /\ (pc[v] \in InFlight \/ (pc[v] = "threw" /\ Faults # {}))
  BY DEF WaiterHasWaker
<1>1. PICK v \in Units, a \in Attempts : <<v, a>> \in reserved
  <2>1. PICK c \in reserved : TRUE
    BY DEF Wakers
  <2>2. c \in Units \X Attempts
    BY <2>1 DEF TypeOK, Calls
  <2> QED
    BY <2>1, <2>2
<1>2. a = att[v] /\ (pc[v] \in InFlight \/ (pc[v] = "threw" /\ Faults # {}))
  BY <1>1 DEF Wakers, Held
<1>3. v # u
  BY <1>2 DEF InFlight
<1> QED
  BY <1>1, <1>2, <1>3 DEF Call

\* A call in flight keeps its reservation until it is accounted for, or throws.
LEMMA QuietWakers ==
  ASSUME IInv, Books, Wakers, NEW u \in Units,
         \/ Begin(u) \/ AttemptHead(u) \/ PutStarted(u) \/ Dispatch(u) \/ PutCompletion(u)
         \/ PutFinal(u) \/ RunnerThrows(u) \/ PutRejected(u)
  PROVE  Wakers'
<1>1. TypeOK
  BY DEF IInv
<1>2. att' = att /\ reserved' = reserved
  BY DEF Begin, AttemptHead, PutStarted, Dispatch, PutCompletion, PutFinal, RunnerThrows,
         PutRejected, local, budget
<1>3. pc' = [pc EXCEPT ![u] = pc'[u]] /\ pc'[u] # "waiting"
  BY <1>1 DEF Begin, AttemptHead, PutStarted, Dispatch, PutCompletion, PutFinal, EndOf,
              RunnerThrows, PutRejected, Goto, TypeOK
<1>4. ASSUME pc[u] \in InFlight
      PROVE  pc'[u] \in InFlight \/ (pc'[u] = "threw" /\ Faults # {})
  BY <1>1, <1>4 DEF Begin, AttemptHead, PutStarted, Dispatch, PutCompletion, PutFinal,
     RunnerThrows, PutRejected, Goto, TypeOK, InFlight
<1>5. pc[u] # "threw"
  BY DEF Begin, AttemptHead, PutStarted, Dispatch, PutCompletion, PutFinal, RunnerThrows, PutRejected
<1>6. ASSUME NEW v \in Units PROVE Held(v)'
  <2>1. CASE v = u
    BY <1>2, <1>4, <1>5, <2>1 DEF Wakers, Held
  <2>2. CASE v # u
    <3>1. pc'[v] = pc[v]
      BY <1>1, <1>3, <2>2 DEF TypeOK
    <3> QED
      BY <1>2, <3>1 DEF Wakers, Held
  <2> QED
    BY <2>1, <2>2
<1>7. \A v \in Units : pc'[v] = "waiting" => reserved' # {}
  BY <1>1, <1>2, <1>3 DEF Wakers, TypeOK
<1> QED
  BY <1>6, <1>7 DEF Wakers

\* Whoever accounts for a call wakes them all.
LEMMA AccountingWakers ==
  ASSUME IInv, Books, Wakers, NEW u \in Units, Replay(u) \/ AccountCompletion(u)
  PROVE  Wakers'
<1>1. TypeOK /\ Ledger /\ Local(u) /\ att[u] \in Attempts
  BY DEF IInv, Books, TypeOK
<1>2. Has(u, att[u])
  <2>1. CASE Replay(u)
    BY <2>1, <1>1 DEF Replay, Local, Place, Verdict, Attempts
  <2>2. CASE AccountCompletion(u)
    BY <2>2, <1>1 DEF AccountCompletion, Local, Place
  <2> QED
    BY <2>1, <2>2
<1>3. Recorded(u) \in Answer
  BY <1>1, <1>2, AnswerType DEF Recorded
<1>4. Account(Call(u), Recorded(u))
  BY <1>2 DEF Replay, AccountCompletion
<1>5. Call(u) \notin reserved' /\ \A c : c # Call(u) => (c \in reserved' <=> c \in reserved)
  BY <1>1, <1>3, <1>4, AccountKeepsLedger
<1>6. pc'[u] # "waiting"
  BY <1>1, <1>2 DEF Replay, AccountCompletion, TypeOK, Woken
<1>7. \A v \in Units \ {u} :
        pc'[v] = IF pc[v] = "waiting" THEN "reserve" ELSE pc[v]
  <2>1. pc' = Woken(pc) \/ \E to : pc' = [Woken(pc) EXCEPT ![u] = to]
    BY <1>2 DEF Replay, AccountCompletion
  <2>2. \A v \in Units \ {u} : pc'[v] = Woken(pc)[v]
    BY <1>1, <2>1, WokenPC
  <2> QED
    BY <2>2 DEF Woken
<1>8. \A v \in Units : v # u => att'[v] = att[v]
  BY <1>1, <1>2 DEF Replay, AccountCompletion, TypeOK, local
<1>9. ASSUME NEW v \in Units, NEW a \in Attempts, <<v, a>> \in reserved'
      PROVE  a = att'[v] /\ (pc'[v] \in InFlight \/ (pc'[v] = "threw" /\ Faults # {}))
  <2>1. <<v, a>> \in reserved /\ <<v, a>> # Call(u)
    BY <1>5, <1>9
  <2>2. a = att[v] /\ (pc[v] \in InFlight \/ (pc[v] = "threw" /\ Faults # {}))
    BY <2>1 DEF Wakers, Held
  <2>3. v # u
    BY <2>1, <2>2 DEF Call
  <2>4. pc[v] # "waiting"
    BY <2>2 DEF InFlight
  <2> QED
    BY <1>7, <1>8, <2>2, <2>3, <2>4
<1> QED
  BY <1>6, <1>7, <1>9 DEF Wakers, Held

\* A unit waits only where a reservation stands in its way.
LEMMA ReservingWakers ==
  ASSUME IInv, Books, Wakers, NEW u \in Units, BeforeDispatch(u) \/ ScheduleRetry(u)
  PROVE  Wakers'
<1>1. TypeOK /\ att[u] \in Attempts
  BY DEF IInv, TypeOK
<1>2. pc[u] \in {"reserve", "assess"} /\ pc'[u] \in {"start", "waiting", "refused", "attempt"}
      /\ \A v \in Units : v # u => pc'[v] = pc[v] /\ att'[v] = att[v]
  BY <1>1 DEF BeforeDispatch, ScheduleRetry, Goto, TypeOK
<1>3. /\ reserved' = reserved \/ (reserved' = reserved \cup {Call(u)} /\ pc'[u] = "start" /\ att' = att)
      /\ pc'[u] = "waiting" => reserved # {}
  BY <1>1 DEF BeforeDispatch, ScheduleRetry, Goto, Contended, budget, TypeOK
<1>4. ASSUME NEW v \in Units, NEW a \in Attempts, <<v, a>> \in reserved'
      PROVE  a = att'[v] /\ (pc'[v] \in InFlight \/ (pc'[v] = "threw" /\ Faults # {}))
  <2>1. CASE <<v, a>> \in reserved
    <3>1. a = att[v] /\ (pc[v] \in InFlight \/ (pc[v] = "threw" /\ Faults # {}))
      BY <2>1 DEF Wakers, Held
    <3>2. v # u
      BY <1>2, <3>1 DEF InFlight
    <3> QED
      BY <1>2, <3>1, <3>2
  <2>2. CASE <<v, a>> \notin reserved
    <3>1. <<v, a>> = Call(u) /\ pc'[u] = "start" /\ att' = att
      BY <1>3, <1>4, <2>2
    <3> QED
      BY <3>1 DEF Call, InFlight
  <2> QED
    BY <2>1, <2>2
<1>5. \A v \in Units : pc'[v] = "waiting" => reserved' # {}
  BY <1>2, <1>3 DEF Wakers
<1> QED
  BY <1>4, <1>5 DEF Wakers, Held

\* Through contention, replays, retries, inspections and crashes, nobody waits
\* for headroom on nobody: a unit in flight holds a reservation whose account
\* wakes the waiters, unless a fault made it throw.
THEOREM WaitersHaveWakers == Spec => []WaiterHasWaker
<1>1. Init => Wakers
  BY DEF Init, Wakers, Held
<1>2. IInv /\ Books /\ Wakers /\ [Next]_vars => Wakers'
  <2> SUFFICES ASSUME IInv, Books, Wakers, [Next]_vars PROVE Wakers'
    OBVIOUS
  <2>1. CASE UNCHANGED vars
    BY <2>1 DEF vars, Wakers, Held
  <2>2. CASE Crash
    BY <2>2 DEF Crash, Wakers, Held
  <2>3. CASE \E u \in Units : UnitStep(u)
    BY <2>3, QuietWakers, AccountingWakers, ReservingWakers DEF UnitStep
  <2> QED
    BY <2>1, <2>2, <2>3 DEF Next
<1>3. IInv /\ Wakers => WaiterHasWaker
  BY WakersWake DEF IInv
<1> QED
  BY <1>1, <1>2, <1>3, Invariance, BooksAlways, PTL DEF Spec
=============================================================================
