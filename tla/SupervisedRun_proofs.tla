------------------------ MODULE SupervisedRun_proofs ------------------------
(***************************************************************************)
(* Proofs about SupervisedRun, for every set of units and key handlers,    *)
(* any concurrency and any number of runs and of deaths of either side.    *)
(***************************************************************************)
EXTENDS SupervisedRun, TLAPS

Phases == {"none", "boot", "work", "write", "exit", "gone"}
UnitStates == {"pending", "leased", "ok", "quarantined", "skipped"}
Codes == {"none", "0", "75", "error", "cut"}

-----------------------------------------------------------------------------
(* The invariant *)

\* The runs have been spawned up to `spawned`, what was cut is gone, and a
\* handler that has spawned has a run in hand.
InHand == \A h \in Handlers : handler[h].pc \in {"own", "save"} => handler[h].run \in Runs

Ordered ==
  /\ \A r \in Runs : /\ (run[r].pc = "none") <=> (r > spawned)
                     /\ run[r].code = "cut" => run[r].pc = "gone"
  /\ InHand

\* One start() at a time, which spawns where nothing lives; what lives is
\* the run it has in hand or the one the controller owns.
Lone ==
  /\ \A g, h \in Handlers : (handler[g].pc # "idle" /\ handler[h].pc # "idle") => g = h
  /\ \A h \in Handlers : handler[h].pc = "spawn" => \A r \in Runs : ~Live(r)
  /\ \A h \in Handlers : handler[h].pc = "own" => \A r \in Runs : Live(r) => r = handler[h].run
  /\ \A h \in Handlers : handler[h].pc = "save" => owned.run = handler[h].run
  /\ (\A h \in Handlers : handler[h].pc # "own") => \A r \in Runs : Live(r) => r = owned.run

\* What was bought has a receipt, and what the run at work has read of the
\* units it has not come to is still so.
Accounted ==
  /\ \A u \in Units : bought[u] = 0 \/ (bought[u] = 1 /\ journal[u] # "none")
  /\ \A r \in Runs, u \in Units :
       (run[r].pc = "work" /\ run[r].unit[u] = "pending") => run[r].known[u] = journal[u]

Inv == TypeOK /\ Ordered /\ PauseLeavesNoOrphan /\ (~raced => Lone /\ Accounted)


-----------------------------------------------------------------------------
(* Lemmas: one run, or one handler, changes *)

Witness(r, u) == run[r].unit[u] = "leased" /\ (run[r].pc = "work" \/ run[r].code = "cut")

LEMMA RunFields ==
  ASSUME NEW x \in RunRecords
  PROVE  /\ x.pc \in Phases /\ x.known \in [Units -> Receipts] /\ x.unit \in [Units -> UnitStates]
         /\ x.aborted \in BOOLEAN /\ x.stopped \in BOOLEAN /\ x.code \in Codes
BY DEF RunRecords, Phases, UnitStates, Codes

\* A run that is over keeps its units.
LEMMA Ended ==
  ASSUME NEW r \in Runs, run \in [Runs -> RunRecords], NEW code \in Codes
  PROVE  LET x == [Unspawned EXCEPT !.pc = "gone", !.unit = run[r].unit, !.code = code]
         IN  /\ x \in RunRecords /\ End(r, code) = [run EXCEPT ![r] = x]
             /\ x.pc = "gone" /\ x.unit = run[r].unit /\ x.code = code
<1>1. run[r].unit \in [Units -> UnitStates]
  BY RunFields
<1> QED
  BY <1>1 DEF End, Unspawned, RunRecords, Receipts, UnitStates, Codes

\* One entry of a function changes.
LEMMA Touched ==
  ASSUME NEW D, NEW S, NEW f \in [D -> S], NEW d \in D, NEW x \in S
  PROVE  /\ [f EXCEPT ![d] = x] \in [D -> S] /\ [f EXCEPT ![d] = x][d] = x
         /\ \A e \in D \ {d} : [f EXCEPT ![d] = x][e] = f[e]
OBVIOUS

\* At most one run lives while no two start() have raced.
LEMMA LoneIsOne ==
  ASSUME Lone, NEW q \in Runs, NEW r \in Runs, Live(q), Live(r)
  PROVE  q = r
BY DEF Lone

\* A step of a run that lives: nothing new lives, and the order is kept.
LEMMA RunStepKeeps ==
  ASSUME Inv, NEW r \in Runs, NEW x \in RunRecords, run' = [run EXCEPT ![r] = x],
         Live(r), x.pc # "none", x.code = "cut" => x.pc = "gone",
         spawned' = spawned, handler' = handler, owned' = owned, saved' = saved
  PROVE  /\ run' \in [Runs -> RunRecords] /\ run'[r] = x
         /\ \A q \in Runs \ {r} : run'[q] = run[q]
         /\ Ordered' /\ (Lone => Lone')
<1>1. /\ run' \in [Runs -> RunRecords] /\ run'[r] = x
      /\ \A q \in Runs \ {r} : run'[q] = run[q]
  BY Touched DEF Inv, TypeOK
<1>2. Ordered'
  BY <1>1 DEF Inv, Ordered, InHand, Live
<1>3. \A q \in Runs : Live(q)' => Live(q)
  BY <1>1 DEF Live
<1>4. ASSUME Lone PROVE Lone'
  BY <1>3, <1>4 DEF Lone
<1> QED
  BY <1>1, <1>2, <1>4

\* An orphan has a witness, if it has one in the run that changed or had one
\* elsewhere.
LEMMA OrphansKept ==
  ASSUME PauseLeavesNoOrphan, NEW r \in Runs, \A q \in Runs \ {r} : run'[q] = run[q],
         \A u \in Units : journal'[u] = "started" =>
           Witness(r, u)' \/ (journal[u] = "started" /\ ~Witness(r, u))
  PROVE  PauseLeavesNoOrphan'
<1> SUFFICES ASSUME NEW u \in Units, journal'[u] = "started"
             PROVE  \E q \in Runs : Witness(q, u)'
  BY DEF PauseLeavesNoOrphan, Orphans, Witness
<1>1. CASE Witness(r, u)'
  BY <1>1
<1>2. CASE journal[u] = "started" /\ ~Witness(r, u)
  <2>1. PICK q \in Runs : Witness(q, u)
    BY <1>2 DEF PauseLeavesNoOrphan, Orphans, Witness
  <2>2. q # r /\ run'[q] = run[q]
    BY <1>2, <2>1
  <2> QED
    BY <2>1, <2>2 DEF Witness
<1> QED
  BY <1>1, <1>2

\* The accounts of a step that buys nothing and writes no receipt.
LEMMA AccountsKept ==
  ASSUME Accounted, NEW r \in Runs, \A q \in Runs \ {r} : run'[q] = run[q],
         journal' = journal, bought' = bought,
         \A u \in Units :
           (run'[r].pc = "work" /\ run'[r].unit[u] = "pending")
             => \/ /\ run[r].pc = "work" /\ run[r].unit[u] = "pending"
                   /\ run'[r].known[u] = run[r].known[u]
                \/ run'[r].known[u] = journal[u]
  PROVE  Accounted'
BY DEF Accounted

\* A step that leaves the units' work alone: a run ends without what it had
\* in hand, or is cut off, or goes on to where it has nothing in hand.
LEMMA WorkLeftAlone ==
  ASSUME Inv, NEW r \in Runs, NEW x \in RunRecords, run' = [run EXCEPT ![r] = x],
         Live(r), x.pc # "none", x.code = "cut" => x.pc = "gone",
         x.unit = run[r].unit,
         x.pc = "work" => (run[r].pc = "work" /\ x.known = run[r].known) \/ x.known = journal,
         x.pc = "work" \/ x.code = "cut" \/ run[r].pc # "work" \/ InState(r, "leased") = {},
         UNCHANGED <<journal, bought, spawned, control, raced>>,
         opened' \in BOOLEAN, output' \in Outputs, faults' \in 0..MaxFaults
  PROVE  Inv'
<1>1. /\ run' \in [Runs -> RunRecords] /\ run'[r] = x
      /\ \A q \in Runs \ {r} : run'[q] = run[q]
      /\ Ordered' /\ (Lone => Lone')
  BY RunStepKeeps DEF control
<1>2. PauseLeavesNoOrphan'
  <2>1. run[r].code # "cut"
    BY DEF Inv, Ordered, Live
  <2>2. \A u \in Units : Witness(r, u) => Witness(r, u)'
    BY <1>1, <2>1 DEF Witness, InState
  <2> QED
    BY <1>1, <2>2, OrphansKept DEF Inv
<1>3. TypeOK'
  BY <1>1 DEF Inv, TypeOK, control
<1>4. ASSUME Accounted PROVE Accounted'
  BY <1>1, <1>4, AccountsKept
<1> QED
  BY <1>1, <1>2, <1>3, <1>4 DEF Inv

-----------------------------------------------------------------------------
(* The steps of a run *)

\* A run that ends before its work, after it, or cut off in the middle.
LEMMA EndKeeps ==
  ASSUME Inv, NEW r \in Runs, NEW code \in Codes, run' = End(r, code), Live(r),
         code = "cut" \/ run[r].pc # "work",
         UNCHANGED <<journal, bought, spawned, control, raced>>,
         opened' \in BOOLEAN, output' \in Outputs, faults' \in 0..MaxFaults
  PROVE  Inv'
<1> DEFINE x == [Unspawned EXCEPT !.pc = "gone", !.unit = run[r].unit, !.code = code]
<1>1. x \in RunRecords /\ run' = [run EXCEPT ![r] = x]
      /\ x.pc = "gone" /\ x.unit = run[r].unit /\ x.code = code
  BY Ended DEF Inv, TypeOK
<1> HIDE DEF x
<1> QED
  BY <1>1, WorkLeftAlone

LEMMA OpenKeeps ==
  ASSUME Inv, NEW r \in Runs, Open(r)
  PROVE  Inv'
<1>1. Live(r) /\ run[r].pc = "boot" /\ run[r] \in RunRecords /\ journal \in [Units -> Receipts]
  BY DEF Open, Live, Inv, TypeOK
<1>2. ASSUME run' = [run EXCEPT ![r].pc = "work", ![r].known = journal], opened' = TRUE
      PROVE  Inv'
  <2> DEFINE x == [run[r] EXCEPT !.pc = "work", !.known = journal]
  <2>1. x \in RunRecords /\ x.pc = "work" /\ x.known = journal
        /\ x.unit = run[r].unit /\ x.code = run[r].code
    BY <1>1 DEF RunRecords, Receipts
  <2>2. run' = [run EXCEPT ![r] = x]
    BY <1>2
  <2>3. x.code # "cut"
    BY <1>1, <2>1 DEF Inv, Ordered
  <2> HIDE DEF x
  <2>4. UNCHANGED <<journal, bought, spawned, control, raced>>
        /\ output' \in Outputs /\ faults' \in 0..MaxFaults
    BY DEF Open, Inv, TypeOK
  <2> QED
    BY <1>1, <1>2, <2>1, <2>2, <2>3, <2>4, WorkLeftAlone
<1>3. ASSUME run' = End(r, "error"), opened' = opened
      PROVE  Inv'
  <2>1. UNCHANGED <<journal, bought, spawned, control, raced>> /\ opened' \in BOOLEAN
        /\ output' \in Outputs /\ faults' \in 0..MaxFaults
    BY <1>3 DEF Open, Inv, TypeOK
  <2> QED
    BY <1>1, <1>3, <2>1, EndKeeps DEF Codes
<1> QED
  BY <1>2, <1>3 DEF Open

LEMMA EndQueueKeeps ==
  ASSUME Inv, NEW r \in Runs, EndQueue(r)
  PROVE  Inv'
<1> DEFINE x == [run[r] EXCEPT !.pc = "write"]
<1>1. Live(r) /\ run[r].pc = "work" /\ run[r] \in RunRecords /\ InState(r, "leased") = {}
  BY DEF EndQueue, Drained, Live, Inv, TypeOK
<1>2. x \in RunRecords /\ x.pc = "write" /\ x.unit = run[r].unit /\ x.code = run[r].code
  BY <1>1 DEF RunRecords
<1>3. run' = [run EXCEPT ![r] = x]
  BY DEF EndQueue
<1>4. x.code # "cut"
  BY <1>1, <1>2 DEF Inv, Ordered
<1> HIDE DEF x
<1>5. UNCHANGED <<journal, bought, spawned, control, raced>> /\ opened' \in BOOLEAN
      /\ output' \in Outputs /\ faults' \in 0..MaxFaults
  BY DEF EndQueue, paid, Inv, TypeOK
<1> QED
  BY <1>1, <1>2, <1>3, <1>4, <1>5, WorkLeftAlone

LEMMA WriteKeeps ==
  ASSUME Inv, NEW r \in Runs, Write(r)
  PROVE  Inv'
<1> DEFINE x == [run[r] EXCEPT !.pc = "exit", !.code = IF Paused(r) THEN "75" ELSE "0"]
<1>1. Live(r) /\ run[r].pc = "write" /\ run[r] \in RunRecords
  BY DEF Write, Live, Inv, TypeOK
<1>2. x \in RunRecords /\ x.pc = "exit" /\ x.unit = run[r].unit /\ x.code # "cut"
  BY <1>1 DEF RunRecords
<1>3. run' = [run EXCEPT ![r] = x]
  BY DEF Write
<1> HIDE DEF x
<1>4. UNCHANGED <<journal, bought, spawned, control, raced>> /\ opened' \in BOOLEAN
      /\ faults' \in 0..MaxFaults
  BY DEF Write, paid, Inv, TypeOK
<1>5. output' \in Outputs
  BY DEF Write, Status, Outputs, Inv, TypeOK
<1> QED
  BY <1>1, <1>2, <1>3, <1>4, <1>5, WorkLeftAlone

LEMMA LeaveKeeps ==
  ASSUME Inv, NEW r \in Runs, Leave(r)
  PROVE  Inv'
<1>1. Live(r) /\ run[r].pc = "exit" /\ run[r].code \in Codes /\ run' = End(r, run[r].code)
  BY RunFields DEF Leave, Live, Inv, TypeOK
<1>2. UNCHANGED <<journal, bought, spawned, control, raced>> /\ opened' \in BOOLEAN
      /\ output' \in Outputs /\ faults' \in 0..MaxFaults
  BY DEF Leave, paid, Inv, TypeOK
<1> QED
  BY <1>1, <1>2, EndKeeps

LEMMA DiesKeeps ==
  ASSUME Inv, NEW r \in Runs, Dies(r)
  PROVE  Inv'
<1>1. Live(r) /\ run' = End(r, "cut")
  BY DEF Dies
<1>2. UNCHANGED <<journal, bought, spawned, control, raced>> /\ opened' \in BOOLEAN
      /\ output' \in Outputs /\ faults' \in 0..MaxFaults
  BY SupervisedAssumption DEF Dies, paid, Inv, TypeOK
<1> QED
  BY <1>1, <1>2, EndKeeps DEF Codes

\* A signal from the controller.
LEMMA SignalKeeps ==
  ASSUME Inv, Stop \/ ForceStop
  PROVE  Inv'
<1> DEFINE r == owned.run
           x == [run[r] EXCEPT !.aborted = TRUE]
<1>1. r \in Runs /\ Live(r) /\ run[r] \in RunRecords
  BY DEF Stop, ForceStop, Running, Inv, TypeOK, States
<1>2. UNCHANGED <<journal, bought, spawned, control, raced>> /\ opened' \in BOOLEAN
      /\ output' \in Outputs /\ faults' \in 0..MaxFaults
  BY DEF Stop, ForceStop, paid, Inv, TypeOK
<1>3. CASE run' = [run EXCEPT ![r].aborted = TRUE] /\ run[r].pc = "work"
  <2>1. x \in RunRecords /\ x.pc = "work" /\ x.unit = run[r].unit /\ x.known = run[r].known
        /\ x.code = run[r].code
    BY <1>1, <1>3 DEF RunRecords
  <2>2. run' = [run EXCEPT ![r] = x]
    BY <1>3
  <2>3. x.code # "cut"
    BY <1>1, <1>3, <2>1 DEF Inv, Ordered
  <2> HIDE DEF r, x
  <2> QED
    BY <1>1, <1>2, <1>3, <2>1, <2>2, <2>3, WorkLeftAlone
<1>4. CASE run' = End(r, "error") /\ run[r].pc # "work"
  <2> HIDE DEF r
  <2> QED
    BY <1>1, <1>2, <1>4, EndKeeps DEF Codes
<1>5. CASE run' = End(r, "cut")
  <2> HIDE DEF r
  <2> QED
    BY <1>1, <1>2, <1>5, EndKeeps DEF Codes
<1> QED
  BY <1>3, <1>4, <1>5 DEF Stop, ForceStop, Interrupted

\* What a claim makes of its unit, of its queue and of the receipts.
Claimed(r, u, s, x) ==
  /\ run' = [run EXCEPT ![r] = x]
  /\ x \in RunRecords /\ x.pc = "work" /\ x.code = run[r].code /\ x.known = run[r].known
  /\ x.unit[u] = s /\ \A v \in Units \ {u} : x.unit[v] = run[r].unit[v]
  /\ journal' \in [Units -> Receipts] /\ bought' \in [Units -> Nat]
  /\ \A v \in Units \ {u} : journal'[v] = journal[v] /\ bought'[v] = bought[v]
  /\ IF s = "leased"
     THEN /\ run[r].known[u] = "none" /\ bought'[u] = bought[u] + 1
          /\ journal'[u] = IF journal[u] = "none" THEN "started" ELSE journal[u]
     ELSE /\ bought' = bought
          /\ journal'[u] = journal[u] \/ (s = "quarantined" /\ journal'[u] = "failed")
  /\ s = "ok" => run[r].known[u] = "ok"
  /\ s = "skipped" => run[r].known[u] = "none"

ClaimStates == {"leased", "skipped", "quarantined", "ok"}

\* A unit of a run and its queue's flag change.
Settled(y, u, s, stop) == [y EXCEPT !.unit[u] = s, !.stopped = stop]

LEMMA UnitSettled ==
  ASSUME NEW y \in RunRecords, NEW u \in Units, NEW s \in UnitStates, NEW stop \in BOOLEAN
  PROVE  /\ Settled(y, u, s, stop) \in RunRecords /\ Settled(y, u, s, stop).pc = y.pc
         /\ Settled(y, u, s, stop).code = y.code /\ Settled(y, u, s, stop).known = y.known
         /\ Settled(y, u, s, stop).unit[u] = s
         /\ \A v \in Units \ {u} : Settled(y, u, s, stop).unit[v] = y.unit[v]
<1>1. y.unit \in [Units -> UnitStates]
  BY RunFields
<1> QED
  BY <1>1 DEF Settled, RunRecords, UnitStates

LEMMA ClaimDoes ==
  ASSUME Inv, NEW r \in Runs, NEW u \in Units, Claim(r, u)
  PROVE  \E s \in ClaimStates, x \in RunRecords : Claimed(r, u, s, x)
<1> DEFINE X(s, stop) == Settled(run[r], u, s, stop)
<1>1. run[r] \in RunRecords /\ run[r].stopped \in BOOLEAN /\ run[r].pc = "work"
  BY RunFields DEF Claim, Inv, TypeOK
<1>2. journal \in [Units -> Receipts] /\ bought \in [Units -> Nat]
  BY DEF Inv, TypeOK
<1>3. \A s \in ClaimStates, stop \in BOOLEAN :
        /\ X(s, stop) \in RunRecords /\ X(s, stop).pc = "work" /\ X(s, stop).code = run[r].code
        /\ X(s, stop).known = run[r].known /\ X(s, stop).unit[u] = s
        /\ \A v \in Units \ {u} : X(s, stop).unit[v] = run[r].unit[v]
  <2> TAKE s \in ClaimStates, stop \in BOOLEAN
  <2>1. s \in UnitStates
    BY DEF ClaimStates, UnitStates
  <2>2. run[r] \in RunRecords
    BY <1>1
  <2>3. /\ X(s, stop) \in RunRecords /\ X(s, stop).pc = run[r].pc
        /\ X(s, stop).code = run[r].code /\ X(s, stop).known = run[r].known
        /\ X(s, stop).unit[u] = s
        /\ \A v \in Units \ {u} : X(s, stop).unit[v] = run[r].unit[v]
    BY <2>1, <2>2, UnitSettled
  <2> QED
    BY <1>1, <2>3
<1>4. \A s : Settle(r, u, s) => run' = [run EXCEPT ![r] = X(s, run[r].stopped)]
  BY <1>1 DEF Settle, Settled, RunRecords
<1> HIDE DEF X
<1>5. CASE Buy(r, u)
  BY <1>1, <1>2, <1>3, <1>4, <1>5 DEF Buy, Claimed, ClaimStates, Receipts
<1>6. CASE Skip(r, u)
  BY <1>1, <1>2, <1>3, <1>4, <1>6 DEF Skip, Claimed, ClaimStates
<1>7. CASE Refuse(r, u)
  <2>1. run' = [run EXCEPT ![r] = X("quarantined", TRUE)]
    BY <1>7 DEF Refuse, Settled, X
  <2> QED
    BY <1>1, <1>2, <1>3, <1>7, <2>1 DEF Refuse, Claimed, ClaimStates
<1>8. CASE Replay(r, u)
  <2> DEFINE s == IF run[r].known[u] = "ok" THEN "ok" ELSE "quarantined"
  <2>1. s \in ClaimStates /\ run' = [run EXCEPT ![r] = X(s, run[r].stopped)]
    BY <1>4, <1>8 DEF Replay, ClaimStates
  <2>2. /\ journal' \in [Units -> Receipts] /\ bought' = bought
        /\ \A v \in Units \ {u} : journal'[v] = journal[v]
        /\ journal'[u] = journal[u] \/ (s = "quarantined" /\ journal'[u] = "failed")
    BY <1>2, <1>8 DEF Replay, Receipts
  <2>3. s # "leased" /\ s # "skipped" /\ (s = "ok" => run[r].known[u] = "ok")
    OBVIOUS
  <2> HIDE DEF s
  <2>4. /\ X(s, run[r].stopped) \in RunRecords /\ X(s, run[r].stopped).pc = "work"
        /\ X(s, run[r].stopped).code = run[r].code /\ X(s, run[r].stopped).known = run[r].known
        /\ X(s, run[r].stopped).unit[u] = s
        /\ \A v \in Units \ {u} : X(s, run[r].stopped).unit[v] = run[r].unit[v]
    BY <1>1, <1>3, <2>1
  <2>5. Claimed(r, u, s, X(s, run[r].stopped))
    BY <1>2, <2>1, <2>2, <2>3, <2>4 DEF Claimed
  <2> QED
    BY <2>1, <2>4, <2>5
<1> QED
  BY <1>5, <1>6, <1>7, <1>8 DEF Claim

\* A claim leaves a witness where it leaves a started receipt, and buys only
\* what no receipt was ever written for: nobody else has written since.
LEMMA ClaimKeeps ==
  ASSUME Inv, NEW r \in Runs, NEW u \in Units, Claim(r, u)
  PROVE  Inv'
<1>1. Live(r) /\ run[r].pc = "work" /\ run[r].unit[u] = "pending" /\ run[r] \in RunRecords
  BY DEF Claim, Live, Inv, TypeOK
<1>2. run[r].code # "cut"
  BY <1>1 DEF Inv, Ordered
<1>3. PICK s \in ClaimStates, x \in RunRecords : Claimed(r, u, s, x)
  BY ClaimDoes
<1>4. UNCHANGED <<opened, output, spawned, control, faults, raced>>
  BY DEF Claim
<1>5. s # "pending" /\ run' = [run EXCEPT ![r] = x] /\ x.pc = "work" /\ x.code # "cut"
  BY <1>2, <1>3 DEF Claimed, ClaimStates
<1>6. /\ run' \in [Runs -> RunRecords] /\ run'[r] = x
      /\ \A q \in Runs \ {r} : run'[q] = run[q]
      /\ Ordered' /\ (Lone => Lone')
  BY <1>1, <1>4, <1>5, RunStepKeeps DEF control
<1>7. PauseLeavesNoOrphan'
  <2>1. \A v \in Units : journal'[v] = "started" =>
          Witness(r, v)' \/ (journal[v] = "started" /\ ~Witness(r, v))
    BY <1>1, <1>3, <1>6 DEF Witness, Claimed
  <2> QED
    BY <1>6, <2>1, OrphansKept DEF Inv
<1>8. TypeOK'
  BY <1>3, <1>4, <1>6 DEF Claimed, control, Inv, TypeOK
<1>9. ASSUME Lone, Accounted PROVE Accounted'
  <2>1. \A q \in Runs \ {r} : run'[q].pc # "work"
    BY <1>1, <1>6, <1>9, LoneIsOne DEF Live
  <2>2. s = "leased" => journal[u] = "none"
    BY <1>1, <1>3, <1>9 DEF Accounted, Claimed
  <2>3. \A v \in Units : bought'[v] = 0 \/ (bought'[v] = 1 /\ journal'[v] # "none")
    BY <1>3, <1>9, <2>2 DEF Accounted, Claimed
  <2>4. \A v \in Units : x.unit[v] = "pending" => x.known[v] = journal'[v]
    BY <1>1, <1>3, <1>5, <1>9 DEF Accounted, Claimed
  <2> QED
    BY <1>6, <2>1, <2>3, <2>4 DEF Accounted
<1> QED
  BY <1>4, <1>6, <1>7, <1>8, <1>9 DEF Inv

LEMMA FinishKeeps ==
  ASSUME Inv, NEW r \in Runs, NEW u \in Units, Finish(r, u)
  PROVE  Inv'
<1>1. Live(r) /\ run[r].pc = "work" /\ run[r].unit[u] = "leased" /\ run[r] \in RunRecords
  BY DEF Finish, Live, Inv, TypeOK
<1>2. run[r].code # "cut"
  BY <1>1 DEF Inv, Ordered
<1>3. PICK ok \in BOOLEAN, stop \in {run[r].stopped, TRUE} :
        /\ run' = [run EXCEPT ![r].unit[u] = IF ok THEN "ok" ELSE "quarantined",
                              ![r].stopped = stop]
        /\ journal' = [journal EXCEPT ![u] = IF ok THEN "ok" ELSE "failed"]
  BY DEF Finish
<1> DEFINE s == IF ok THEN "ok" ELSE "quarantined"
           x == [run[r] EXCEPT !.unit[u] = s, !.stopped = stop]
<1>4. stop \in BOOLEAN
  BY <1>1, RunFields
<1>5. x \in RunRecords /\ x.pc = "work" /\ x.code = run[r].code /\ x.known = run[r].known
      /\ x.unit = [run[r].unit EXCEPT ![u] = s]
  BY <1>1, <1>4 DEF RunRecords
<1>6. x.unit[u] = s /\ s # "pending" /\ \A v \in Units \ {u} : x.unit[v] = run[r].unit[v]
  BY <1>1, <1>5, RunFields
<1>7. run' = [run EXCEPT ![r] = x]
  BY <1>3
<1> HIDE DEF x
<1>8. /\ run' \in [Runs -> RunRecords] /\ run'[r] = x
      /\ \A q \in Runs \ {r} : run'[q] = run[q]
      /\ Ordered' /\ (Lone => Lone')
  BY <1>1, <1>2, <1>5, <1>7, RunStepKeeps DEF Finish, control
<1>9. /\ journal' \in [Units -> Receipts] /\ journal'[u] \in {"ok", "failed"}
      /\ \A v \in Units \ {u} : journal'[v] = journal[v]
  BY <1>3 DEF Inv, TypeOK, Receipts
<1>10. PauseLeavesNoOrphan'
  <2>1. \A v \in Units : journal'[v] = "started" =>
          Witness(r, v)' \/ (journal[v] = "started" /\ ~Witness(r, v))
    BY <1>1, <1>5, <1>6, <1>8, <1>9 DEF Witness
  <2> QED
    BY <1>8, <2>1, OrphansKept DEF Inv
<1>11. TypeOK'
  BY <1>8, <1>9 DEF Finish, control, Inv, TypeOK
<1>12. ASSUME Lone, Accounted PROVE Accounted'
  <2>1. \A q \in Runs \ {r} : run'[q].pc # "work"
    BY <1>1, <1>8, <1>12, LoneIsOne DEF Live
  <2>2. \A v \in Units : bought'[v] = 0 \/ (bought'[v] = 1 /\ journal'[v] # "none")
    BY <1>9, <1>12 DEF Accounted, Finish
  <2>3. \A v \in Units : x.unit[v] = "pending" => x.known[v] = journal'[v]
    BY <1>1, <1>5, <1>6, <1>9, <1>12 DEF Accounted
  <2> QED
    BY <1>8, <2>1, <2>2, <2>3 DEF Accounted
<1> QED
  BY <1>8, <1>10, <1>11, <1>12 DEF Inv, Finish

-----------------------------------------------------------------------------
(* The steps of the controller *)

\* A handler moves.
LEMMA HandlerFields ==
  ASSUME NEW h \in Handlers, NEW c \in Calls, handler \in [Handlers -> Calls],
         handler' = [handler EXCEPT ![h] = c]
  PROVE  /\ handler' \in [Handlers -> Calls] /\ handler'[h] = c
         /\ \A g \in Handlers \ {h} : handler'[g] = handler[g]
BY Touched

\* Where no run changes, only what the controller knows is in question.
LEMMA RunsUntouched ==
  ASSUME Inv, UNCHANGED <<paid, output, run, spawned>>, faults' \in 0..MaxFaults, raced' \in BOOLEAN,
         handler' \in [Handlers -> Calls], owned' \in States, saved' \in States,
         watching' \in SUBSET Runs, raced => raced', InHand',
         ~raced' => (Lone => Lone')
  PROVE  Inv'
<1>1. TypeOK'
  BY DEF Inv, TypeOK, paid
<1>2. Ordered' /\ PauseLeavesNoOrphan' /\ (Accounted => Accounted')
  BY DEF Inv, Ordered, PauseLeavesNoOrphan, Orphans, Accounted, paid
<1> QED
  BY <1>1, <1>2 DEF Inv, TypeOK

LEMMA AskKeeps ==
  ASSUME Inv, NEW h \in Handlers, Ask(h)
  PROVE  Inv'
<1> DEFINE c == [handler[h] EXCEPT !.pc = "spawn"]
<1>1. handler \in [Handlers -> Calls] /\ handler[h] \in Calls
  BY DEF Inv, TypeOK
<1>2. c \in Calls /\ c.pc = "spawn" /\ handler' = [handler EXCEPT ![h] = c]
  BY <1>1 DEF Calls, Ask
<1> HIDE DEF c
<1>3. /\ handler' \in [Handlers -> Calls] /\ handler'[h] = c
      /\ \A g \in Handlers \ {h} : handler'[g] = handler[g]
  BY <1>1, <1>2, HandlerFields
<1>4. ASSUME ~raced', Lone PROVE Lone'
  <2>1. \A g \in Handlers : handler[g].pc = "idle"
    BY <1>4 DEF Ask
  <2>2. \A r \in Runs : ~Live(r)
    <3>1. \A r \in Runs : Live(r) => r = owned.run
      BY <1>4, <2>1 DEF Lone
    <3>2. \A r \in Runs : r # NoRun
      BY DEF Runs, NoRun
    <3> QED
      BY <3>1, <3>2 DEF Ask, Running
  <2> QED
    BY <1>2, <1>3, <2>1, <2>2 DEF Lone, Ask, Live
<1>5. UNCHANGED <<paid, output, run, spawned, faults, owned, saved, watching>>
      /\ raced' \in BOOLEAN /\ (raced => raced')
  BY DEF Ask, Inv, TypeOK
<1>6. InHand'
  BY <1>2, <1>3 DEF Inv, Ordered, InHand
<1> QED
  BY <1>3, <1>4, <1>5, <1>6, RunsUntouched DEF Inv, TypeOK

LEMMA SpawnKeeps ==
  ASSUME Inv, NEW h \in Handlers, Spawn(h)
  PROVE  Inv'
<1> DEFINE r == spawned + 1
           x == [run[r] EXCEPT !.pc = "boot"]
           c == [handler[h] EXCEPT !.pc = "own", !.run = r]
<1>1. r \in Runs /\ spawned' = r /\ r \in 0..MaxRuns
  BY SupervisedAssumption DEF Spawn, Runs, Inv, TypeOK
<1>2. run[r] \in RunRecords /\ run[r].pc = "none" /\ run[r].code # "cut"
  BY <1>1 DEF Inv, TypeOK, Ordered
<1>3. x \in RunRecords /\ x.pc = "boot" /\ x.code = run[r].code
  BY <1>2 DEF RunRecords
<1>4. run' = [run EXCEPT ![r] = x] /\ handler' = [handler EXCEPT ![h] = c]
  BY DEF Spawn
<1>5. c \in Calls /\ c.pc = "own" /\ c.run = r
  BY <1>1 DEF Calls, Inv, TypeOK
<1>6. handler[h].pc = "spawn"
  BY DEF Spawn
<1> HIDE DEF x, c
<1>7. /\ run' \in [Runs -> RunRecords] /\ run'[r] = x
      /\ \A q \in Runs \ {r} : run'[q] = run[q]
  BY <1>1, <1>3, <1>4, Touched DEF Inv, TypeOK
<1>8. /\ handler' \in [Handlers -> Calls] /\ handler'[h] = c
      /\ \A g \in Handlers \ {h} : handler'[g] = handler[g]
  BY <1>4, <1>5, HandlerFields DEF Inv, TypeOK
<1>9. TypeOK'
  BY <1>1, <1>7, <1>8 DEF Spawn, paid, Inv, TypeOK
<1>10. Ordered'
  BY <1>1, <1>2, <1>3, <1>5, <1>7, <1>8 DEF Inv, TypeOK, Ordered, InHand, Runs
<1>11. PauseLeavesNoOrphan'
  BY <1>1, <1>2, <1>7, OrphansKept DEF Spawn, paid, Witness, Inv
<1>12. ASSUME Lone PROVE Lone'
  <2>1. (\A q \in Runs : ~Live(q)) /\ \A g \in Handlers \ {h} : handler[g].pc = "idle"
    BY <1>6, <1>12 DEF Lone
  <2>2. \A q \in Runs : Live(q)' => q = r
    BY <1>7, <2>1 DEF Live
  <2> QED
    BY <1>5, <1>8, <2>1, <2>2 DEF Lone, Spawn
<1>13. ASSUME Accounted PROVE Accounted'
  BY <1>1, <1>3, <1>7, <1>13, AccountsKept DEF Spawn, paid
<1> QED
  BY <1>9, <1>10, <1>11, <1>12, <1>13 DEF Inv, Spawn

LEMMA OwnKeeps ==
  ASSUME Inv, NEW h \in Handlers, Own(h)
  PROVE  Inv'
<1> DEFINE r == handler[h].run
           c == IF Live(r) THEN [handler[h] EXCEPT !.pc = "save"] ELSE Resting
<1>1. handler \in [Handlers -> Calls] /\ handler[h] \in Calls /\ r \in Runs \cup {NoRun}
      /\ handler[h].pc = "own"
  BY DEF Inv, TypeOK, Calls, Own
<1>2. c \in Calls /\ handler' = [handler EXCEPT ![h] = c]
      /\ c.pc = (IF Live(r) THEN "save" ELSE "idle") /\ (Live(r) => c.run = r)
  BY <1>1 DEF Calls, Resting, NoRun, Own
<1> HIDE DEF c
<1>3. /\ handler' \in [Handlers -> Calls] /\ handler'[h] = c
      /\ \A g \in Handlers \ {h} : handler'[g] = handler[g]
  BY <1>1, <1>2, HandlerFields
<1>4. owned' \in States /\ (IF Live(r) THEN owned'.run = r ELSE owned' = owned)
  BY <1>1 DEF Own, States, Verdicts, Inv, TypeOK
<1>5. ASSUME Lone PROVE Lone'
  <2>1. (\A g \in Handlers \ {h} : handler[g].pc = "idle") /\ \A q \in Runs : Live(q) => q = r
    BY <1>1, <1>5 DEF Lone
  <2> QED
    BY <1>2, <1>3, <1>4, <2>1 DEF Lone, Own, Live
<1>6. UNCHANGED <<paid, output, run, spawned, faults, saved, watching>>
      /\ raced' \in BOOLEAN /\ (raced => raced')
  BY DEF Own, Inv, TypeOK
<1>7. InHand'
  BY <1>1, <1>2, <1>3 DEF Inv, Ordered, InHand
<1> QED
  BY <1>3, <1>4, <1>5, <1>6, <1>7, RunsUntouched DEF Inv, TypeOK

LEMMA SaveKeeps ==
  ASSUME Inv, NEW h \in Handlers, Save(h)
  PROVE  Inv'
<1> DEFINE r == handler[h].run
<1>1. handler \in [Handlers -> Calls] /\ r \in Runs /\ handler[h].pc = "save"
  BY DEF Inv, TypeOK, Ordered, InHand, Save
<1>2. Resting \in Calls /\ Resting.pc = "idle" /\ handler' = [handler EXCEPT ![h] = Resting]
  BY DEF Calls, Resting, NoRun, Save
<1>3. /\ handler' \in [Handlers -> Calls] /\ handler'[h] = Resting
      /\ \A g \in Handlers \ {h} : handler'[g] = handler[g]
  BY <1>1, <1>2, HandlerFields
<1>4. saved' \in States
  BY <1>1 DEF Save, States, Verdicts, Inv, TypeOK
<1>5. watching' \in SUBSET Runs
  BY <1>1 DEF Save, Inv, TypeOK
<1>6. ASSUME Lone PROVE Lone'
  <2>1. (\A g \in Handlers \ {h} : handler[g].pc = "idle") /\ owned.run = r
    BY <1>1, <1>6 DEF Lone
  <2>2. \A q \in Runs : Live(q) => q = owned.run
    BY <1>1, <1>6, <2>1 DEF Lone
  <2> QED
    BY <1>2, <1>3, <2>1, <2>2 DEF Lone, Save, Live
<1>7. UNCHANGED <<paid, output, run, spawned, faults, owned, raced>>
  BY DEF Save
<1>8. InHand'
  BY <1>2, <1>3 DEF Inv, Ordered, InHand
<1> QED
  BY <1>3, <1>4, <1>5, <1>6, <1>7, <1>8, RunsUntouched DEF Inv, TypeOK

LEMMA HearKeeps ==
  ASSUME Inv, NEW r \in Runs, Hear(r)
  PROVE  Inv'
<1>1. Classified(run[r].code, output) \in Verdicts
  BY DEF Classified, Verdicts
<1>2. owned' \in States /\ owned'.run = owned.run /\ saved' = owned'
  BY <1>1 DEF Hear, States, Inv, TypeOK
<1>3. UNCHANGED <<paid, output, run, spawned, handler, faults, raced>>
      /\ watching' \in SUBSET Runs
  BY DEF Hear, Inv, TypeOK
<1>4. ASSUME Lone PROVE Lone'
  BY <1>2, <1>3, <1>4 DEF Lone, Live
<1>5. InHand'
  BY <1>3 DEF Inv, Ordered, InHand
<1> QED
  BY <1>2, <1>3, <1>4, <1>5, RunsUntouched DEF Inv, TypeOK

LEMMA RestartKeeps ==
  ASSUME Inv, Restart
  PROVE  Inv'
<1>1. handler' \in [Handlers -> Calls] /\ \A h \in Handlers : handler'[h].pc = "idle"
  BY DEF Restart, Calls, Resting, NoRun
<1>2. owned' = saved /\ saved' = saved /\ watching' = {} /\ faults' \in 0..MaxFaults
  BY SupervisedAssumption DEF Restart, Inv, TypeOK
<1>3. UNCHANGED <<paid, output, run, spawned>> /\ raced' \in BOOLEAN /\ (raced => raced')
  BY DEF Restart, paid, Inv, TypeOK
<1>4. ASSUME ~raced', Lone PROVE Lone'
  <2>1. \A r \in Runs : Live(r) => r = saved.run
    BY <1>4 DEF Restart
  <2> QED
    BY <1>1, <1>2, <1>3, <2>1 DEF Lone, Live
<1>5. InHand'
  BY <1>1 DEF InHand
<1> QED
  BY <1>1, <1>2, <1>3, <1>4, <1>5, RunsUntouched DEF Inv, TypeOK

-----------------------------------------------------------------------------
(* Theorems *)

LEMMA InvInit == Init => Inv
<1> SUFFICES ASSUME Init PROVE Inv
  OBVIOUS
<1>1. Unspawned \in RunRecords /\ Unspawned.pc = "none" /\ Unspawned.code = "none"
  BY DEF Unspawned, RunRecords, Receipts
<1>2. Resting \in Calls /\ Resting.pc = "idle" /\ NoState \in States
  BY DEF Resting, Calls, NoState, States, NoRun, Verdicts
<1>3. \A r \in Runs : run[r] = Unspawned
  BY DEF Init
<1>4. TypeOK
  <2>1. journal \in [Units -> Receipts] /\ bought \in [Units -> Nat] /\ output \in Outputs
    BY DEF Init, Receipts, Outputs
  <2>2. run \in [Runs -> RunRecords] /\ handler \in [Handlers -> Calls]
    BY <1>1, <1>2 DEF Init
  <2>3. owned \in States /\ saved \in States /\ watching \subseteq Runs
    BY <1>2 DEF Init
  <2>4. opened \in BOOLEAN /\ raced \in BOOLEAN
    BY DEF Init
  <2>5. spawned \in 0..MaxRuns /\ faults \in 0..MaxFaults
    BY SupervisedAssumption DEF Init
  <2> QED
    BY <2>1, <2>2, <2>3, <2>4, <2>5 DEF TypeOK
<1>5. Ordered
  BY <1>1, <1>2, <1>3 DEF Init, Ordered, InHand, Runs
<1>6. PauseLeavesNoOrphan
  BY DEF Init, PauseLeavesNoOrphan, Orphans
<1>7. Lone /\ Accounted
  BY <1>1, <1>2, <1>3 DEF Init, Lone, Live, Accounted
<1> QED
  BY <1>4, <1>5, <1>6, <1>7 DEF Inv

LEMMA InvNext == Inv /\ [Next]_vars => Inv'
<1> SUFFICES ASSUME Inv, [Next]_vars PROVE Inv'
  OBVIOUS
<1>1. ASSUME NEW r \in Runs, RunStep(r) PROVE Inv'
  BY <1>1, OpenKeeps, EndQueueKeeps, WriteKeeps, LeaveKeeps, ClaimKeeps, FinishKeeps DEF RunStep
<1>2. ASSUME NEW r \in Runs, Dies(r) \/ Hear(r) PROVE Inv'
  BY <1>2, DiesKeeps, HearKeeps
<1>3. ASSUME NEW h \in Handlers, Ask(h) \/ Spawn(h) \/ Own(h) \/ Save(h) PROVE Inv'
  BY <1>3, AskKeeps, SpawnKeeps, OwnKeeps, SaveKeeps
<1>4. CASE Stop \/ ForceStop
  BY <1>4, SignalKeeps
<1>5. CASE Restart
  BY <1>5, RestartKeeps
<1>6. CASE UNCHANGED vars
  BY <1>6 DEF vars, Inv, TypeOK, Ordered, InHand, PauseLeavesNoOrphan, Orphans, Lone, Live, Accounted
<1> QED
  BY <1>1, <1>2, <1>3, <1>4, <1>5, <1>6 DEF Next

\* The strengthened invariant holds throughout.
THEOREM InvAlways == Spec => []Inv
  BY InvInit, InvNext, PTL DEF Spec

\* Every step of every run, key handler, fault and restart keeps the types.
THEOREM TypeCorrect == Spec => []TypeOK
<1>1. Inv => TypeOK
  BY DEF Inv
<1> QED
  BY <1>1, InvAlways, PTL

\* However runs are paused, killed and resumed, and even where two run on one
\* checkpoint, a started receipt without a completion is in the hands of a
\* run at work or was left by one that was cut off: a cooperative pause never
\* poisons a unit (graceful-stop.mjs 1-3).
THEOREM NoOrphanByPause == Spec => []PauseLeavesNoOrphan
<1>1. Inv => PauseLeavesNoOrphan
  BY DEF Inv
<1> QED
  BY <1>1, InvAlways, PTL

\* No unit is dispatched twice while no start() overlaps another, every exit
\* is heard before the next start() asks what is owned, and the
\* controller does not die between a spawn and its state file
\* (tui-run-controller.mjs 369-434).
THEOREM BoughtOnceAlways == Spec => []BoughtOnce
<1>1. Inv => BoughtOnce
  BY DEF Inv, Accounted, BoughtOnce
<1> QED
  BY <1>1, InvAlways, PTL

-----------------------------------------------------------------------------
(* What the controller recorded: the invariant *)

\* What the last run has done to the checkpoint and to the output.  Its gates
\* found neither orphans nor a complete output, and nobody else writes.
Story(r) ==
  LET x == run[r] IN
  /\ x.pc \in {"boot", "work", "write"} => x.code = "none" /\ output # "complete"
  /\ x.pc = "work" => /\ opened
                      /\ \A u \in Units : x.unit[u] = "pending" => x.known[u] = journal[u]
  /\ \A u \in Units : /\ x.unit[u] = "ok" => journal[u] = "ok"
                      /\ x.unit[u] = "skipped" => journal[u] = "none"
  /\ x.pc \in {"boot", "work", "write"} \/ x.code \in {"0", "75"} =>
       \A u \in Units : journal[u] = "started" => x.unit[u] = "leased"
  /\ x.pc = "write" \/ x.code \in {"0", "75"} =>
       opened /\ \A u \in Units : x.unit[u] # "leased"
  /\ x.pc = "exit" => x.code \in {"0", "75"}
  /\ x.code = "75" => output # "complete"
  /\ x.code = "0" /\ output = "complete" => \A u \in Units : x.unit[u] \in {"ok", "skipped"}

\* Only the last run lives, and what is not yet spawned has done nothing.
LastRun ==
  /\ \A q \in Runs : Live(q) => q = spawned
  /\ \A q \in Runs : q > spawned => run[q] = Unspawned
  /\ spawned \in Runs => Story(spawned)
  /\ ~opened => \A u \in Units : journal[u] = "none"

\* What a start() that passed its gates relies on, and what is watched.
Gates ==
  /\ \A h \in Handlers : handler[h].pc = "spawn" => Orphans = {} /\ output # "complete"
  /\ \A h \in Handlers : handler[h].pc \in {"own", "save"} => handler[h].run = spawned
  /\ watching \subseteq {owned.run} /\ owned.run <= spawned /\ saved.run <= spawned

\* The verdict on the last run was read off its exit and its output.
Heard ==
  (saved.exit # "none" /\ saved.run = spawned) =>
    /\ spawned \in Runs /\ run[spawned].pc = "gone"
    /\ saved.exit = Classified(run[spawned].code, output)

Told == LastRun /\ Gates /\ Heard

-----------------------------------------------------------------------------
(* What the controller recorded: the steps of a run *)

\* The last run changes: nothing waits to be spawned and nothing was
\* recorded of it, so only its own story is in question.
LEMMA LastRunSteps ==
  ASSUME Inv, ~raced, Told, NEW r \in Runs, Live(r),
         NEW x \in RunRecords, run' = [run EXCEPT ![r] = x], x.pc # "none",
         spawned' = spawned, UNCHANGED control,
         ~opened' => \A u \in Units : journal'[u] = "none",
         (r = spawned /\ run'[r] = x) => Story(r)'
  PROVE  Told'
<1>1. r = spawned
  BY DEF Told, LastRun
<1>2. run'[r] = x /\ \A q \in Runs \ {r} : run'[q] = run[q]
  BY Touched DEF Inv, TypeOK
<1>3. LastRun'
  <2>1. Story(spawned)'
    BY <1>1, <1>2 DEF Story
  <2>2. \A q \in Runs : Live(q)' => q = spawned
    BY <1>1, <1>2 DEF Told, LastRun, Live
  <2>3. \A q \in Runs : q > spawned => run'[q] = Unspawned
    <3>1. ~(r > spawned)
      BY <1>1 DEF Inv, TypeOK
    <3> QED
      BY <1>2, <3>1 DEF Told, LastRun
  <2> QED
    BY <2>1, <2>2, <2>3 DEF LastRun
<1>4. \A h \in Handlers : handler[h].pc # "spawn"
  BY DEF Inv, Lone
<1>5. Gates'
  BY <1>4 DEF Told, Gates, control
<1>6. ~(saved.exit # "none" /\ saved.run = spawned)
  BY <1>1 DEF Told, Heard, Live
<1> QED
  BY <1>3, <1>5, <1>6 DEF Told, Heard, control

\* The run ends without a verdict of its own, or with the one it has.
LEMMA EndTold ==
  ASSUME Inv, ~raced, Told, NEW r \in Runs, Live(r), NEW code \in Codes, run' = End(r, code),
         code \in {"error", "cut"} \/ (run[r].pc = "exit" /\ code = run[r].code),
         UNCHANGED <<paid, output, spawned, control>>
  PROVE  Told'
<1> DEFINE x == [Unspawned EXCEPT !.pc = "gone", !.unit = run[r].unit, !.code = code]
<1>0. run \in [Runs -> RunRecords]
  BY DEF Inv, TypeOK
<1>1. x \in RunRecords /\ run' = [run EXCEPT ![r] = x]
      /\ x.pc = "gone" /\ x.unit = run[r].unit /\ x.code = code
  BY <1>0, Ended
<1> HIDE DEF x
<1>2. ~opened' => \A u \in Units : journal'[u] = "none"
  BY DEF Told, LastRun, paid
<1>3. ASSUME r = spawned, run'[r] = x PROVE Story(r)'
  <2>1. Story(r)
    BY <1>3 DEF Told, LastRun
  <2> QED
    BY <1>1, <1>3, <2>1 DEF Story, paid
<1> QED
  BY <1>1, <1>2, <1>3, LastRunSteps

LEMMA OpenTold ==
  ASSUME Inv, ~raced, Told, NEW r \in Runs, Open(r)
  PROVE  Told'
<1>1. Live(r) /\ run[r].pc = "boot" /\ run[r] \in RunRecords /\ journal \in [Units -> Receipts]
  BY DEF Open, Live, Inv, TypeOK
<1>2. UNCHANGED <<journal, bought, output, spawned, control>>
  BY DEF Open
<1>3. ASSUME run' = [run EXCEPT ![r].pc = "work", ![r].known = journal], opened' = TRUE
      PROVE  Told'
  <2> DEFINE x == [run[r] EXCEPT !.pc = "work", !.known = journal]
  <2>1. x \in RunRecords /\ x.pc = "work" /\ x.known = journal
        /\ x.unit = run[r].unit /\ x.code = run[r].code
    BY <1>1 DEF RunRecords, Receipts
  <2>2. run' = [run EXCEPT ![r] = x]
    BY <1>3
  <2> HIDE DEF x
  <2>3. ASSUME r = spawned, run'[r] = x PROVE Story(r)'
    <3>1. Story(r)
      BY <2>3 DEF Told, LastRun
    <3> QED
      <4>1. /\ output # "complete" /\ x.code = "none"
            /\ \A u \in Units : /\ run[r].unit[u] = "ok" => journal[u] = "ok"
                                /\ run[r].unit[u] = "skipped" => journal[u] = "none"
            /\ \A u \in Units : journal[u] = "started" => run[r].unit[u] = "leased"
        BY <1>1, <2>1, <3>1 DEF Story
      <4>2. journal' = journal /\ output' = output
        BY <1>2
      <4> QED
        BY <1>3, <2>1, <2>3, <4>1, <4>2 DEF Story
  <2> QED
    BY <1>1, <1>2, <1>3, <2>1, <2>2, <2>3, LastRunSteps
<1>4. ASSUME run' = End(r, "error"), opened' = opened
      PROVE  Told'
  BY <1>1, <1>2, <1>4, EndTold DEF Codes, paid
<1> QED
  BY <1>3, <1>4 DEF Open

LEMMA ClaimTold ==
  ASSUME Inv, ~raced, Told, NEW r \in Runs, NEW u \in Units, Claim(r, u)
  PROVE  Told'
<1>1. Live(r) /\ run[r].pc = "work" /\ run[r].unit[u] = "pending" /\ run[r] \in RunRecords
  BY DEF Claim, Live, Inv, TypeOK
<1>2. PICK s \in ClaimStates, x \in RunRecords : Claimed(r, u, s, x)
  BY ClaimDoes
<1>3. run' = [run EXCEPT ![r] = x] /\ x.pc = "work" /\ x.code = run[r].code /\ s # "pending"
  BY <1>2 DEF Claimed, ClaimStates
<1>4. UNCHANGED <<opened, output, spawned, control>>
  BY DEF Claim
<1>5. Story(r)
  BY <1>1 DEF Told, LastRun
<1>6. ASSUME run'[r] = x PROVE Story(r)'
  <2>1. /\ opened /\ output # "complete" /\ x.code = "none" /\ run[r].known[u] = journal[u]
        /\ \A v \in Units : run[r].unit[v] = "pending" => run[r].known[v] = journal[v]
        /\ \A v \in Units : run[r].unit[v] = "ok" => journal[v] = "ok"
        /\ \A v \in Units : run[r].unit[v] = "skipped" => journal[v] = "none"
        /\ \A v \in Units : journal[v] = "started" => run[r].unit[v] = "leased"
    BY <1>1, <1>3, <1>5 DEF Story
  <2>2. \A v \in Units : x.unit[v] = "pending" => x.known[v] = journal'[v]
    BY <1>2, <1>3, <2>1 DEF Claimed
  <2>3. \A v \in Units : x.unit[v] = "ok" => journal'[v] = "ok"
    BY <1>2, <2>1 DEF Claimed
  <2>4. \A v \in Units : x.unit[v] = "skipped" => journal'[v] = "none"
    BY <1>2, <2>1 DEF Claimed
  <2>5. \A v \in Units : journal'[v] = "started" => x.unit[v] = "leased"
    BY <1>1, <1>2, <2>1 DEF Claimed
  <2> QED
    BY <1>3, <1>4, <1>6, <2>1, <2>2, <2>3, <2>4, <2>5 DEF Story
<1>7. ~opened' => \A v \in Units : journal'[v] = "none"
  BY <1>1, <1>4, <1>5 DEF Story
<1> QED
  BY <1>1, <1>3, <1>4, <1>6, <1>7, LastRunSteps

LEMMA FinishTold ==
  ASSUME Inv, ~raced, Told, NEW r \in Runs, NEW u \in Units, Finish(r, u)
  PROVE  Told'
<1>1. Live(r) /\ run[r].pc = "work" /\ run[r].unit[u] = "leased" /\ run[r] \in RunRecords
  BY DEF Finish, Live, Inv, TypeOK
<1>2. PICK ok \in BOOLEAN, stop \in {run[r].stopped, TRUE} :
        /\ run' = [run EXCEPT ![r].unit[u] = IF ok THEN "ok" ELSE "quarantined",
                              ![r].stopped = stop]
        /\ journal' = [journal EXCEPT ![u] = IF ok THEN "ok" ELSE "failed"]
  BY DEF Finish
<1> DEFINE s == IF ok THEN "ok" ELSE "quarantined"
           x == [run[r] EXCEPT !.unit[u] = s, !.stopped = stop]
<1>3. stop \in BOOLEAN
  BY <1>1, RunFields
<1>4. x \in RunRecords /\ x.pc = "work" /\ x.code = run[r].code /\ x.known = run[r].known
      /\ x.unit = [run[r].unit EXCEPT ![u] = s]
  BY <1>1, <1>3 DEF RunRecords
<1>5. x.unit[u] = s /\ \A v \in Units \ {u} : x.unit[v] = run[r].unit[v]
  BY <1>1, <1>4, RunFields
<1>6. run' = [run EXCEPT ![r] = x]
  BY <1>2
<1> HIDE DEF x
<1>7. /\ \A v \in Units \ {u} : journal'[v] = journal[v]
      /\ journal'[u] = IF ok THEN "ok" ELSE "failed"
  BY <1>2 DEF Inv, TypeOK
<1>8. UNCHANGED <<opened, output, spawned, control>>
  BY DEF Finish
<1>9. Story(r)
  BY <1>1 DEF Told, LastRun
<1>10. ASSUME run'[r] = x PROVE Story(r)'
  <2>1. /\ opened /\ output # "complete" /\ x.code = "none"
        /\ \A v \in Units : run[r].unit[v] = "pending" => run[r].known[v] = journal[v]
        /\ \A v \in Units : run[r].unit[v] = "ok" => journal[v] = "ok"
        /\ \A v \in Units : run[r].unit[v] = "skipped" => journal[v] = "none"
        /\ \A v \in Units : journal[v] = "started" => run[r].unit[v] = "leased"
    BY <1>1, <1>4, <1>9 DEF Story
  <2>2. \A v \in Units : x.unit[v] = "pending" => x.known[v] = journal'[v]
    BY <1>4, <1>5, <1>7, <2>1
  <2>3. \A v \in Units : x.unit[v] = "ok" => journal'[v] = "ok"
    BY <1>5, <1>7, <2>1
  <2>4. \A v \in Units : x.unit[v] = "skipped" => journal'[v] = "none"
    BY <1>5, <1>7, <2>1
  <2>5. \A v \in Units : journal'[v] = "started" => x.unit[v] = "leased"
    BY <1>5, <1>7, <2>1
  <2> QED
    BY <1>4, <1>8, <1>10, <2>1, <2>2, <2>3, <2>4, <2>5 DEF Story
<1>11. ~opened' => \A v \in Units : journal'[v] = "none"
  BY <1>1, <1>8, <1>9 DEF Story
<1> QED
  BY <1>1, <1>4, <1>6, <1>8, <1>10, <1>11, LastRunSteps

LEMMA EndQueueTold ==
  ASSUME Inv, ~raced, Told, NEW r \in Runs, EndQueue(r)
  PROVE  Told'
<1> DEFINE x == [run[r] EXCEPT !.pc = "write"]
<1>1. Live(r) /\ run[r].pc = "work" /\ run[r] \in RunRecords /\ InState(r, "leased") = {}
  BY DEF EndQueue, Drained, Live, Inv, TypeOK
<1>2. x \in RunRecords /\ x.pc = "write" /\ x.unit = run[r].unit /\ x.code = run[r].code
  BY <1>1 DEF RunRecords
<1>3. run' = [run EXCEPT ![r] = x]
  BY DEF EndQueue
<1> HIDE DEF x
<1>4. UNCHANGED <<paid, output, spawned, control>>
  BY DEF EndQueue
<1>5. Story(r)
  BY <1>1 DEF Told, LastRun
<1>6. ASSUME run'[r] = x PROVE Story(r)'
  BY <1>1, <1>2, <1>4, <1>5, <1>6 DEF Story, paid, InState
<1>7. ~opened' => \A v \in Units : journal'[v] = "none"
  BY <1>4 DEF Told, LastRun, paid
<1> QED
  BY <1>1, <1>2, <1>3, <1>4, <1>6, <1>7, LastRunSteps

\* What is written complete has all its units answered or skipped, and a
\* pause leaves the output as the gates found it.
LEMMA WriteTold ==
  ASSUME Inv, ~raced, Told, NEW r \in Runs, Write(r)
  PROVE  Told'
<1> DEFINE x == [run[r] EXCEPT !.pc = "exit", !.code = IF Paused(r) THEN "75" ELSE "0"]
<1>1. Live(r) /\ run[r].pc = "write" /\ run[r] \in RunRecords
  BY DEF Write, Live, Inv, TypeOK
<1>2. x \in RunRecords /\ x.pc = "exit" /\ x.unit = run[r].unit
      /\ x.code = IF Paused(r) THEN "75" ELSE "0"
  BY <1>1 DEF RunRecords
<1>3. run' = [run EXCEPT ![r] = x]
  BY DEF Write
<1> HIDE DEF x
<1>4. UNCHANGED <<paid, spawned, control>>
  BY DEF Write
<1>5. Story(r)
  BY <1>1 DEF Told, LastRun
<1>6. ASSUME run'[r] = x PROVE Story(r)'
  <2>1. CASE Paused(r)
    <3>1. output' = output /\ x.code = "75"
      BY <1>2, <2>1 DEF Write
    <3> QED
      BY <1>1, <1>2, <1>4, <1>5, <1>6, <3>1 DEF Story, paid
  <2>2. CASE ~Paused(r)
    <3>1. output' \in Status(r) /\ x.code = "0"
      BY <1>2, <2>2 DEF Write
    <3>2. output' = "complete" => \A u \in Units : run[r].unit[u] \in {"ok", "skipped"}
      <4>1. \A u \in Units : run[r].unit[u] \in UnitStates /\ run[r].unit[u] # "leased"
        BY <1>1, <1>5, RunFields DEF Story
      <4>2. output' = "complete" => InState(r, "pending") = {} /\ InState(r, "quarantined") = {}
        BY <3>1 DEF Status
      <4> QED
        BY <4>1, <4>2 DEF InState, UnitStates
    <3> QED
      BY <1>1, <1>2, <1>4, <1>5, <1>6, <3>1, <3>2 DEF Story, paid
  <2> QED
    BY <2>1, <2>2
<1>7. ~opened' => \A v \in Units : journal'[v] = "none"
  BY <1>4 DEF Told, LastRun, paid
<1> QED
  BY <1>1, <1>2, <1>3, <1>4, <1>6, <1>7, LastRunSteps

LEMMA LeaveTold ==
  ASSUME Inv, ~raced, Told, NEW r \in Runs, Leave(r) \/ Dies(r)
  PROVE  Told'
<1>1. Live(r) /\ run[r].code \in Codes /\ "cut" \in Codes
  BY RunFields DEF Leave, Dies, Live, Codes, Inv, TypeOK
<1>2. CASE Leave(r)
  BY <1>1, <1>2, EndTold DEF Leave
<1>3. CASE Dies(r)
  BY <1>1, <1>3, EndTold DEF Dies
<1> QED
  BY <1>2, <1>3

LEMMA SignalTold ==
  ASSUME Inv, ~raced, Told, Stop \/ ForceStop
  PROVE  Told'
<1>1. PICK r \in Runs : r = owned.run /\ Live(r) /\ run[r] \in RunRecords
  BY DEF Stop, ForceStop, Running, Inv, TypeOK, States
<1> DEFINE x == [run[r] EXCEPT !.aborted = TRUE]
<1>2. UNCHANGED <<paid, output, spawned, control>>
  BY DEF Stop, ForceStop
<1>3. CASE run' = [run EXCEPT ![r].aborted = TRUE] /\ run[r].pc = "work"
  <2>1. x \in RunRecords /\ x.pc = "work" /\ x.unit = run[r].unit /\ x.known = run[r].known
        /\ x.code = run[r].code
    BY <1>1, <1>3 DEF RunRecords
  <2>2. run' = [run EXCEPT ![r] = x]
    BY <1>3
  <2> HIDE DEF x
  <2>3. ASSUME r = spawned, run'[r] = x PROVE Story(r)'
    <3>1. Story(r)
      BY <1>1, <2>3 DEF Told, LastRun
    <3> QED
      BY <1>2, <1>3, <2>1, <2>3, <3>1 DEF Story, paid
  <2>4. ~opened' => \A v \in Units : journal'[v] = "none"
    BY <1>2 DEF Told, LastRun, paid
  <2> QED
    BY <1>1, <1>2, <2>1, <2>2, <2>3, <2>4, LastRunSteps
<1>4. CASE run' = End(r, "error") \/ run' = End(r, "cut")
  BY <1>1, <1>2, <1>4, EndTold DEF Codes
<1> QED
  BY <1>1, <1>3, <1>4 DEF Stop, ForceStop, Interrupted

-----------------------------------------------------------------------------
(* What the controller recorded: the steps of the controller *)

\* Where no run changes, the checkpoint stays as the last one left it.
LEMMA LastRunStays ==
  ASSUME LastRun, UNCHANGED <<paid, output, run, spawned>>
  PROVE  LastRun'
BY DEF LastRun, Story, Live, paid

LEMMA AskTold ==
  ASSUME Inv, ~raced', Told, NEW h \in Handlers, Ask(h)
  PROVE  Told'
<1>1. UNCHANGED <<paid, output, run, spawned, owned, saved, watching>>
  BY DEF Ask
<1>2. LastRun' /\ Heard'
  BY <1>1, LastRunStays DEF Told, Heard
<1>3. Orphans = {} /\ output # "complete"
  <2>1. PICK mode \in {"start", "resume"} : Admissible(mode)
    BY DEF Ask
  <2>2. ~opened => Orphans = {}
    BY DEF Told, LastRun, Orphans
  <2> QED
    BY <2>1, <2>2 DEF Admissible
<1>4. Orphans' = {} /\ output' # "complete"
  BY <1>1, <1>3 DEF Orphans, paid
<1>5. \A g \in Handlers : handler'[g].pc \in {"own", "save"} => handler'[g] = handler[g]
  BY DEF Ask, Inv, TypeOK
<1> QED
  BY <1>1, <1>2, <1>4, <1>5 DEF Told, Gates

LEMMA SpawnTold ==
  ASSUME Inv, ~raced, Told, NEW h \in Handlers, Spawn(h)
  PROVE  Told'
<1>1. PICK r \in Runs : r = spawned + 1 /\ spawned' = r /\ spawned \in Nat
  BY SupervisedAssumption DEF Spawn, Runs, Inv, TypeOK
<1>2. run[r] = Unspawned
  BY <1>1 DEF Told, LastRun
<1>3. run'[r].pc = "boot" /\ run'[r].code = "none" /\ \A u \in Units : run'[r].unit[u] = "pending"
  BY <1>1, <1>2 DEF Spawn, Unspawned, Inv, TypeOK
<1>4. \A q \in Runs \ {r} : run'[q] = run[q]
  BY <1>1 DEF Spawn, Inv, TypeOK
<1>5. UNCHANGED <<paid, output, owned, saved, watching>>
  BY DEF Spawn
<1>6. Orphans = {} /\ output # "complete" /\ \A q \in Runs : ~Live(q)
  BY DEF Spawn, Told, Gates, Inv, Lone
<1>7. Story(r)'
  BY <1>3, <1>5, <1>6 DEF Story, Orphans, paid
<1>8. LastRun'
  <2>1. \A q \in Runs : Live(q)' => q = r
    BY <1>4, <1>6 DEF Live
  <2>2. \A q \in Runs : q > r => run'[q] = Unspawned
    BY <1>1, <1>4 DEF Told, LastRun, Runs
  <2>3. ~opened' => \A u \in Units : journal'[u] = "none"
    BY <1>5 DEF Told, LastRun, paid
  <2> QED
    BY <1>1, <1>7, <2>1, <2>2, <2>3 DEF LastRun
<1>9. Gates'
  <2>1. \A g \in Handlers : g # h => handler[g].pc = "idle"
    BY DEF Spawn, Inv, Lone
  <2>2. \A g \in Handlers : handler'[g].pc # "spawn"
                            /\ (handler'[g].pc \in {"own", "save"} => handler'[g].run = r)
    BY <1>1, <2>1 DEF Spawn, Inv, TypeOK, Calls
  <2>3. owned.run \in Nat /\ saved.run \in Nat
    BY DEF Inv, TypeOK, States, Runs, NoRun
  <2> QED
    BY <1>1, <1>5, <2>2, <2>3 DEF Told, Gates
<1>10. Heard'
  <2>1. saved.run \in Nat /\ saved.run <= spawned
    BY DEF Told, Gates, Inv, TypeOK, States, Runs, NoRun
  <2> QED
    BY <1>1, <1>5, <2>1 DEF Heard
<1> QED
  BY <1>8, <1>9, <1>10 DEF Told

\* Everything watched has been heard of by now, but for the run just spawned.
LEMMA OwnTold ==
  ASSUME Inv, ~raced', Told, NEW h \in Handlers, Own(h)
  PROVE  Told'
<1>1. UNCHANGED <<paid, output, run, spawned, saved, watching>>
  BY DEF Own
<1>2. LastRun' /\ Heard'
  BY <1>1, LastRunStays DEF Told, Heard
<1>3. handler[h].pc = "own" /\ handler[h].run = spawned
  BY DEF Own, Told, Gates
<1>4. watching' \subseteq {owned'.run} /\ owned'.run <= spawned
  <2>1. CASE Live(handler[h].run)
    <3>1. owned'.run = spawned
      BY <1>3, <2>1 DEF Own
    <3>2. \A q \in watching : q = spawned
      BY DEF Own, AllHeard, Told, LastRun, Inv, TypeOK
    <3> QED
      BY <1>1, <3>1, <3>2 DEF Inv, TypeOK
  <2>2. CASE ~Live(handler[h].run)
    BY <1>1, <2>2 DEF Own, Told, Gates
  <2> QED
    BY <2>1, <2>2
<1>5. \A g \in Handlers : /\ handler'[g].pc = "spawn" => handler[g].pc = "spawn"
                          /\ handler'[g].pc \in {"own", "save"} =>
                               handler[g].pc \in {"own", "save"} /\ handler'[g].run = handler[g].run
  BY <1>3 DEF Own, Resting, Inv, TypeOK, Calls
<1>6. Orphans' = Orphans
  BY <1>1 DEF Orphans, paid
<1>7. Gates'
  BY <1>1, <1>4, <1>5, <1>6 DEF Told, Gates
<1> QED
  BY <1>2, <1>7 DEF Told

LEMMA SaveTold ==
  ASSUME Inv, ~raced, Told, NEW h \in Handlers, Save(h)
  PROVE  Told'
<1>1. UNCHANGED <<paid, output, run, spawned, owned>>
  BY DEF Save
<1>2. handler[h].pc = "save" /\ handler[h].run = spawned /\ owned.run = spawned
  BY DEF Save, Told, Gates, Inv, Lone
<1>3. /\ watching' \subseteq {owned.run}
      /\ (saved'.run = spawned /\ saved'.exit = "none") \/ saved' = saved
  BY <1>2 DEF Save, Told, Gates
<1>4. \A g \in Handlers : handler'[g] = handler[g] \/ handler'[g].pc = "idle"
  BY DEF Save, Resting, Inv, TypeOK
<1>5. Orphans' = Orphans
  BY <1>1 DEF Orphans, paid
<1>6. Gates'
  BY <1>1, <1>2, <1>3, <1>4, <1>5 DEF Told, Gates, Inv, TypeOK
<1>7. LastRun' /\ Heard'
  BY <1>1, <1>3, LastRunStays DEF Told, Heard
<1> QED
  BY <1>6, <1>7 DEF Told

LEMMA HearTold ==
  ASSUME Inv, ~raced, Told, NEW r \in Runs, Hear(r)
  PROVE  Told'
<1>1. UNCHANGED <<paid, output, run, spawned, handler>>
  BY DEF Hear
<1>2. r = owned.run /\ ~Live(r)
  BY DEF Hear, Told, Gates
<1>3. owned'.run = owned.run /\ saved' = owned' /\ watching' \subseteq {owned.run}
      /\ owned'.exit = Classified(run[r].code, output)
  BY DEF Hear, Told, Gates, Inv, TypeOK, States
<1>4. Orphans' = Orphans
  BY <1>1 DEF Orphans, paid
<1>5. LastRun' /\ Gates'
  BY <1>1, <1>3, <1>4, LastRunStays DEF Told, Gates
<1>6. r = spawned => run[r].pc = "gone"
  BY <1>2, RunFields DEF Live, Inv, TypeOK, Ordered
<1>7. Heard'
  BY <1>1, <1>2, <1>3, <1>6 DEF Heard
<1> QED
  BY <1>5, <1>7 DEF Told

LEMMA RestartTold ==
  ASSUME Inv, Told, Restart
  PROVE  Told'
<1>1. UNCHANGED <<paid, output, run, spawned, saved>> /\ owned' = saved /\ watching' = {}
  BY DEF Restart
<1>2. \A h \in Handlers : handler'[h].pc = "idle"
  BY DEF Restart, Resting
<1> QED
  BY <1>1, <1>2, LastRunStays DEF Told, Gates, Heard

-----------------------------------------------------------------------------
(* What the controller recorded: the theorem *)

LEMMA ToldInit == Init => Told
<1> SUFFICES ASSUME Init PROVE Told
  OBVIOUS
<1>1. LastRun
  BY DEF Init, LastRun, Live, Unspawned, Runs
<1>2. Gates /\ Heard
  BY DEF Init, Gates, Heard, Resting, NoState, NoRun
<1> QED
  BY <1>1, <1>2 DEF Told

LEMMA ToldNext == Inv /\ (~raced => Told) /\ [Next]_vars => (~raced' => Told')
<1> SUFFICES ASSUME Inv, ~raced => Told, [Next]_vars, ~raced' PROVE Told'
  OBVIOUS
<1>1. ~raced
  BY DEF Next, vars, RunStep, Open, EndQueue, Write, Leave, Claim, Finish, Dies, Hear,
         Ask, Spawn, Own, Save, Stop, ForceStop, Restart
<1>2. ASSUME NEW r \in Runs, RunStep(r) \/ Dies(r) \/ Hear(r) PROVE Told'
  BY <1>1, <1>2, OpenTold, EndQueueTold, WriteTold, LeaveTold, ClaimTold, FinishTold, HearTold
     DEF RunStep
<1>3. ASSUME NEW h \in Handlers, Ask(h) \/ Spawn(h) \/ Own(h) \/ Save(h) PROVE Told'
  BY <1>1, <1>3, AskTold, SpawnTold, OwnTold, SaveTold
<1>4. CASE Stop \/ ForceStop
  BY <1>1, <1>4, SignalTold
<1>5. CASE Restart
  BY <1>1, <1>5, RestartTold
<1>6. CASE UNCHANGED vars
  BY <1>1, <1>6 DEF vars, Told, LastRun, Story, Live, Gates, Orphans, Heard
<1> QED
  BY <1>2, <1>3, <1>4, <1>5, <1>6 DEF Next

\* While nothing raced, the verdict recorded of the last run is true of the
\* checkpoint and of the output: a complete one has every unit answered but
\* those it skipped at a cap, which were never bought, and a paused one can be
\* resumed (tui-run-controller.mjs 150-188, 435-446).
THEOREM VerdictIsTrueAlways == Spec => []VerdictIsTrue
<1>1. (~raced => Told) => VerdictIsTrue
  <2> SUFFICES ASSUME ~raced, Told, saved.run = spawned, saved.exit \in {"complete", "paused"}
               PROVE  /\ saved.exit = "complete" =>
                           /\ output = "complete"
                           /\ \A u \in Units : journal[u] =
                                IF run[saved.run].unit[u] = "skipped" THEN "none" ELSE "ok"
                      /\ saved.exit = "paused" => opened /\ Orphans = {} /\ output # "complete"
    BY DEF VerdictIsTrue
  <2>1. Story(spawned) /\ saved.exit = Classified(run[spawned].code, output)
    BY DEF Told, LastRun, Heard
  <2>2. CASE saved.exit = "complete"
    <3>1. run[spawned].code = "0" /\ output = "complete"
      BY <2>1, <2>2 DEF Classified
    <3> QED
      BY <2>1, <2>2, <3>1 DEF Story
  <2>3. CASE saved.exit = "paused"
    <3>1. run[spawned].code = "75" \/ (run[spawned].code = "0" /\ output = "stopped")
      BY <2>1, <2>3 DEF Classified
    <3> QED
      BY <2>1, <2>3, <3>1 DEF Story, Orphans
  <2> QED
    BY <2>2, <2>3
<1>2. Init => (~raced => Told)
  BY ToldInit
<1> QED
  BY <1>1, <1>2, ToldNext, InvAlways, PTL DEF Spec

-----------------------------------------------------------------------------
(* The runs of a checkpoint as one paid work *)

\* What a run at work has in hand waits for its answer; a run that has not
\* begun has nothing in hand.
InProgress ==
  \A r \in Runs, u \in Units : run[r].unit[u] = "leased" =>
    \/ run[r].pc \in {"write", "exit", "gone"}
    \/ run[r].pc = "work" /\ journal[u] = "started"

\* One run goes on, with what it has in hand, and no receipt is written.
LEMMA ProgressMoves ==
  ASSUME Inv, InProgress, NEW r \in Runs, NEW x \in RunRecords, run' = [run EXCEPT ![r] = x],
         x.unit = run[r].unit, journal' = journal,
         x.pc \in {"boot", "write", "exit", "gone"} \/ (x.pc = "work" /\ run[r].pc \in {"boot", "work"}),
         x.pc = "boot" => run[r].pc = "none"
  PROVE  InProgress'
<1>1. run'[r] = x /\ \A q \in Runs \ {r} : run'[q] = run[q]
  BY Touched DEF Inv, TypeOK
<1> QED
  BY <1>1 DEF InProgress

\* A claim: the one live run has it in hand, and its receipt is written.
LEMMA ProgressClaim ==
  ASSUME Inv, ~raced, InProgress, NEW r \in Runs, NEW u \in Units, Claim(r, u)
  PROVE  InProgress'
<1>1. Live(r) /\ run[r].pc = "work" /\ run[r].unit[u] = "pending" /\ run[r] \in RunRecords
  BY DEF Claim, Live, Inv, TypeOK
<1>2. PICK s \in ClaimStates, x \in RunRecords : Claimed(r, u, s, x)
  BY ClaimDoes
<1>3. run'[r] = x /\ x.pc = "work" /\ \A q \in Runs \ {r} : run'[q] = run[q]
  BY <1>2 DEF Claimed, Inv, TypeOK
<1>4. \A q \in Runs \ {r} : run[q].pc # "work"
  BY <1>1, LoneIsOne DEF Inv, Live
<1>5. s = "leased" => journal'[u] = "started"
  <2>1. run[r].known[u] = "none" => journal[u] = "none"
    BY <1>1 DEF Inv, Accounted
  <2> QED
    BY <1>2, <2>1 DEF Claimed
<1> SUFFICES ASSUME NEW q \in Runs, NEW v \in Units, run'[q].unit[v] = "leased"
             PROVE  \/ run'[q].pc \in {"write", "exit", "gone"}
                    \/ run'[q].pc = "work" /\ journal'[v] = "started"
  BY DEF InProgress
<1>6. CASE q # r
  BY <1>3, <1>4, <1>6 DEF InProgress
<1>7. CASE q = r /\ v = u
  BY <1>2, <1>3, <1>5, <1>7 DEF Claimed
<1>8. CASE q = r /\ v # u
  BY <1>1, <1>2, <1>3, <1>8 DEF InProgress, Claimed
<1> QED
  BY <1>6, <1>7, <1>8

\* An answer: the unit is no longer in hand.
LEMMA ProgressFinish ==
  ASSUME Inv, ~raced, InProgress, NEW r \in Runs, NEW u \in Units, Finish(r, u)
  PROVE  InProgress'
<1>1. Live(r) /\ run[r].pc = "work" /\ run[r] \in RunRecords
  BY DEF Finish, Live, Inv, TypeOK
<1>2. \A q \in Runs \ {r} : run'[q] = run[q] /\ run[q].pc # "work"
  BY <1>1, LoneIsOne DEF Inv, Finish, Live, TypeOK
<1>3. \A v \in Units \ {u} : run'[r].unit[v] = run[r].unit[v] /\ journal'[v] = journal[v]
  BY <1>1, RunFields DEF Finish, Inv, TypeOK
<1>4. run'[r].pc = "work"
  BY <1>1 DEF Finish, Inv, TypeOK
<1>5. run'[r].unit[u] # "leased"
  BY <1>1, RunFields DEF Finish, Inv, TypeOK
<1> QED
  BY <1>1, <1>2, <1>3, <1>4, <1>5 DEF InProgress

LEMMA ProgressInit == Init => InProgress
BY DEF Init, InProgress, Unspawned

LEMMA ProgressNext == Inv /\ (~raced => InProgress) /\ [Next]_vars => (~raced' => InProgress')
<1> SUFFICES ASSUME Inv, ~raced => InProgress, [Next]_vars, ~raced' PROVE InProgress'
  OBVIOUS
<1>1. ~raced /\ InProgress
  <2>1. ~raced
    BY DEF Next, vars, RunStep, Open, EndQueue, Write, Leave, Claim, Finish, Dies, Hear,
           Ask, Spawn, Own, Save, Stop, ForceStop, Restart
  <2> QED
    BY <2>1
<1>2. ASSUME NEW r \in Runs, NEW code \in Codes, run' = End(r, code), journal' = journal
      PROVE  InProgress'
  <2> DEFINE x == [Unspawned EXCEPT !.pc = "gone", !.unit = run[r].unit, !.code = code]
  <2>1. run \in [Runs -> RunRecords]
    BY DEF Inv, TypeOK
  <2>2. x \in RunRecords /\ run' = [run EXCEPT ![r] = x] /\ x.pc = "gone" /\ x.unit = run[r].unit
    BY <1>2, <2>1, Ended
  <2> HIDE DEF x
  <2> QED
    BY <1>1, <1>2, <2>2, ProgressMoves
<1>3. ASSUME NEW r \in Runs, RunStep(r) PROVE InProgress'
  <2>1. CASE Open(r)
    <3>1. CASE run' = [run EXCEPT ![r].pc = "work", ![r].known = journal]
      <4> DEFINE x == [run[r] EXCEPT !.pc = "work", !.known = journal]
      <4>1. x \in RunRecords /\ x.unit = run[r].unit /\ x.pc = "work"
        BY DEF Inv, TypeOK, RunRecords
      <4>2. run' = [run EXCEPT ![r] = x]
        BY <3>1
      <4> QED
        BY <1>1, <2>1, <4>1, <4>2, ProgressMoves DEF Open
    <3> QED
      BY <1>2, <2>1, <3>1 DEF Open, Codes
  <2>2. CASE EndQueue(r) \/ Write(r)
    <3> DEFINE x == run'[r]
    <3>0. run \in [Runs -> RunRecords] /\ run[r] \in RunRecords
      BY DEF Inv, TypeOK
    <3>1. x \in RunRecords /\ x.unit = run[r].unit /\ x.pc \in {"write", "exit"}
          /\ run' = [run EXCEPT ![r] = x]
      <4>1. CASE EndQueue(r)
        BY <3>0, <4>1 DEF EndQueue, RunRecords
      <4>2. CASE Write(r)
        BY <3>0, <4>2 DEF Write, RunRecords
      <4> QED
        BY <2>2, <4>1, <4>2
    <3> QED
      BY <1>1, <2>2, <3>1, ProgressMoves DEF EndQueue, Write, paid
  <2>3. CASE Leave(r)
    <3>1. run[r].code \in Codes
      BY RunFields DEF Inv, TypeOK
    <3> QED
      BY <1>2, <2>3, <3>1 DEF Leave, paid
  <2>4. CASE \E u \in Units : Claim(r, u) \/ Finish(r, u)
    BY <1>1, <2>4, ProgressClaim, ProgressFinish
  <2> QED
    BY <1>3, <2>1, <2>2, <2>3, <2>4 DEF RunStep
<1>4. ASSUME NEW r \in Runs, Dies(r) PROVE InProgress'
  BY <1>2, <1>4 DEF Dies, paid, Codes
<1>5. ASSUME NEW h \in Handlers, Spawn(h) PROVE InProgress'
  <2> DEFINE r == spawned + 1
             x == [run[r] EXCEPT !.pc = "boot"]
  <2>1. r \in Runs /\ run[r].pc = "none"
    BY <1>5, SupervisedAssumption DEF Spawn, Inv, TypeOK, Ordered, Runs
  <2>2. x \in RunRecords /\ x.unit = run[r].unit /\ x.pc = "boot"
    BY <2>1 DEF Inv, TypeOK, RunRecords
  <2>3. run' = [run EXCEPT ![r] = x] /\ journal' = journal
    BY <1>5 DEF Spawn, paid
  <2> QED
    BY <1>1, <2>1, <2>2, <2>3, ProgressMoves
<1>6. CASE Stop \/ ForceStop
  <2> DEFINE r == owned.run
  <2>1. r \in Runs /\ Live(r) /\ journal' = journal
    BY <1>6 DEF Stop, ForceStop, Running, Inv, TypeOK, States, paid
  <2>2. CASE run' = [run EXCEPT ![r].aborted = TRUE] /\ run[r].pc = "work"
    <3> DEFINE x == [run[r] EXCEPT !.aborted = TRUE]
    <3>1. run[r] \in RunRecords
      BY <2>1 DEF Inv, TypeOK
    <3>2. x \in RunRecords /\ x.unit = run[r].unit /\ x.pc = "work"
      BY <2>2, <3>1 DEF RunRecords
    <3>3. run' = [run EXCEPT ![r] = x]
      BY <2>2
    <3> HIDE DEF x
    <3> QED
      BY <1>1, <2>1, <2>2, <3>2, <3>3, ProgressMoves
  <2>3. CASE \E code \in Codes : run' = End(r, code)
    BY <1>2, <2>1, <2>3
  <2> QED
    BY <1>6, <2>1, <2>2, <2>3 DEF Stop, ForceStop, Interrupted, Codes
<1>7. CASE run' = run /\ journal' = journal
  BY <1>1, <1>7 DEF InProgress
<1> QED
  BY <1>3, <1>4, <1>5, <1>6, <1>7
     DEF Next, vars, paid, Hear, Ask, Own, Save, Restart

\* A run buys a unit nobody bought; or gives up one left with a receipt; or
\* takes what is known of it, or leaves it as it is.
LEMMA ClaimBuys ==
  ASSUME Inv, ~raced, NEW r \in Runs, NEW u \in Units, Claim(r, u)
  PROVE  [Paid!Next]_(Paid!vars)
<1>1. CASE Buy(r, u)
  <2>1. run[r].pc = "work" /\ run[r].unit[u] = "pending"
    BY DEF Claim
  <2>2. journal[u] = "none" /\ bought[u] = 0
    BY <1>1, <2>1 DEF Inv, Accounted, Buy
  <2>3. journal' = [journal EXCEPT ![u] = "started"] /\ bought' = [bought EXCEPT ![u] = @ + 1]
    BY <1>1, <2>2 DEF Buy
  <2>4. Answer[u] = "none" /\ Answer' = [Answer EXCEPT ![u] = "awaited"]
    BY <2>2, <2>3 DEF Answer, Inv, TypeOK
  <2>5. Paid!Buy(u)
    BY <2>2, <2>3, <2>4 DEF Paid!Buy
  <2> QED
    BY <2>5 DEF Paid!Next
<1>2. CASE Replay(r, u) /\ journal[u] = "started"
  <2>0. run[r].known[u] = journal[u]
    BY DEF Claim, Inv, Accounted
  <2>1. journal' = [journal EXCEPT ![u] = "failed"] /\ bought' = bought
    BY <1>2, <2>0 DEF Replay
  <2>2. Answer[u] = "awaited" /\ Answer' = [Answer EXCEPT ![u] = "failed"]
    BY <1>2, <2>1 DEF Answer, Inv, TypeOK
  <2>3. Paid!Learn(u)
    BY <2>1, <2>2 DEF Paid!Learn, Paid!Outcomes
  <2> QED
    BY <2>3 DEF Paid!Next
<1>3. CASE journal' = journal /\ bought' = bought
  BY <1>3 DEF Paid!vars, Answer
<1>4. CASE Replay(r, u) /\ journal[u] # "started"
  <2>0. run[r].known[u] = journal[u]
    BY DEF Claim, Inv, Accounted
  <2>1. journal' = journal /\ bought' = bought
    BY <1>4, <2>0 DEF Replay, Inv, TypeOK
  <2> QED
    BY <1>3, <2>1
<1> QED
  BY <1>1, <1>2, <1>3, <1>4 DEF Claim, Skip, Refuse

\* What a run records is the answer to the call that is awaited.
LEMMA FinishLearns ==
  ASSUME Inv, ~raced, InProgress, NEW r \in Runs, NEW u \in Units, Finish(r, u)
  PROVE  Paid!Next
<1>1. journal[u] = "started"
  BY DEF Finish, InProgress
<1>2. PICK ok \in BOOLEAN : journal' = [journal EXCEPT ![u] = IF ok THEN "ok" ELSE "failed"]
  BY DEF Finish
<1>3. /\ Answer[u] = "awaited"
      /\ Answer' = [Answer EXCEPT ![u] = IF ok THEN "valid" ELSE "failed"]
  BY <1>1, <1>2 DEF Answer, Inv, TypeOK
<1>4. Paid!Learn(u)
  BY <1>3 DEF Paid!Learn, Paid!Outcomes, Finish
<1> QED
  BY <1>4 DEF Paid!Next

LEMMA PaidStep ==
  ASSUME Inv, ~raced, InProgress, [Next]_vars
  PROVE  [Paid!Next]_(Paid!vars)
<1>1. ASSUME NEW r \in Runs, NEW u \in Units, Claim(r, u) \/ Finish(r, u)
      PROVE  [Paid!Next]_(Paid!vars)
  BY <1>1, ClaimBuys, FinishLearns
<1>2. CASE UNCHANGED <<journal, bought>>
  BY <1>2 DEF Paid!vars, Answer
<1> QED
  BY <1>1, <1>2 DEF Next, RunStep, Open, EndQueue, Write, Leave, Dies, Hear, Ask, Spawn, Own,
                    Save, Stop, ForceStop, Restart, vars, paid

PaidStepTaken == ~raced => [Paid!Next]_(Paid!vars)

\* While nothing raced, all the runs of a checkpoint, through pauses, kills,
\* resumes and restarts, are one paid work with one attempt a unit: a call is
\* bought where none was, and an answer is recorded once, to the call that
\* awaits it (custodied-inference.mjs 495-512, tui-run-controller.mjs 369-434).
THEOREM RunsKeepPromise == Spec => ImplementsPaidWork
<1>1. Init => Paid!Init
  BY DEF Init, Paid!Init, Answer
<1>2. Inv /\ (~raced => InProgress) /\ [Next]_vars => [PaidStepTaken]_vars
  BY PaidStep DEF PaidStepTaken
<1>3. Init => (~raced => InProgress)
  BY ProgressInit
<1>4. [][PaidStepTaken]_vars => [][~raced => [Paid!Next]_(Paid!vars)]_vars
  BY PTL DEF PaidStepTaken
<1> QED
  BY <1>1, <1>2, <1>3, <1>4, ProgressNext, InvAlways, PTL DEF Spec, ImplementsPaidWork
=============================================================================
