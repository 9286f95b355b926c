----------------------- MODULE EstateProjection_proofs -----------------------
(***************************************************************************)
(* Proofs about EstateProjection for every set of operators, estates and   *)
(* generations: the labels, the rows, the order of the records with the    *)
(* types, and what a prune leaves.                                         *)
(***************************************************************************)
EXTENDS EstateProjection, FiniteSetTheorems, SequenceTheorems, FunctionTheorems, TLAPS

USE ProjectionAssumption

-----------------------------------------------------------------------------
(* The part of the types the labels need, and the invariant. *)

LocalNames ==
  {"pc", "estate", "gen", "promote", "batch", "expWorking", "expSelected", "protected", "doomed"}

\* The places between the choice of a generation and the promotion of it.
Holding == {"stage", "start", "write", "count", "verify", "ready", "markFailed", "promote"}

HeadTypes ==
  /\ selected \in [Estates -> Generations \cup {None}]
  /\ status \in [Generations -> Statuses]
  /\ op = [o \in Operators |-> op[o]]
  /\ \A o \in Operators :
       /\ DOMAIN op[o] = LocalNames
       /\ Mine(o) \in Estates
       /\ op[o].pc \in Holding => Gen(o) \in Generations

LabelInv == HeadTypes /\ SelectedLabelIsTrue

-----------------------------------------------------------------------------

\* A step that leaves the selected heads alone, and labels nothing selected
\* that was not, keeps the labels true.
LEMMA Unlabelled ==
  ASSUME LabelInv, UNCHANGED selected, status' \in [Generations -> Statuses],
         \A p \in Generations : status'[p] = "selected" => status[p] = "selected"
  PROVE  SelectedLabelIsTrue'
BY DEF LabelInv, SelectedLabelIsTrue

\* The locals an operator can be left with: the shape of one operator's step.
Shaped(l, e) ==
  /\ DOMAIN l = LocalNames /\ l.estate = e
  /\ l.pc \in Holding => l.gen \in Generations

\* A step of an operator updates its own locals only; if it leaves them in
\* shape, everybody's are.
LEMMA OwnLocals ==
  ASSUME HeadTypes, NEW o \in Operators, NEW l, Shaped(l, Mine(o)),
         op' = [op EXCEPT ![o] = l],
         selected' \in [Estates -> Generations \cup {None}],
         status' \in [Generations -> Statuses]
  PROVE  HeadTypes'
BY DEF HeadTypes, Shaped, Mine, Gen

\* To return, to go on without the other locals, to fail, or to go elsewhere
\* within the shape, keeps an operator's estate and its generation.
LEMMA Moves ==
  ASSUME HeadTypes, NEW o \in Operators
  PROVE  /\ Shaped(Idle(Mine(o)), Mine(o))
         /\ \A label, doomed : label \notin Holding =>
              Shaped([Idle(Mine(o)) EXCEPT !.pc = label, !.doomed = doomed], Mine(o))
         /\ Gen(o) \in Generations =>
              Shaped([Idle(Mine(o)) EXCEPT !.pc = "markFailed", !.gen = Gen(o)], Mine(o))
         /\ \A label : (label \in Holding => Gen(o) \in Generations) =>
              Shaped([op[o] EXCEPT !.pc = label], Mine(o))
BY DEF HeadTypes, Shaped, Mine, Gen, Idle, LocalNames, Holding

\* A promotion labels what it selects, and takes the label from what it
\* replaces; what another estate selects keeps both.
LEMMA PromoteStep ==
  ASSUME LabelInv, NEW o \in Operators, Gen(o) \in Generations, Promote(o)
  PROVE  /\ selected' \in [Estates -> Generations \cup {None}]
         /\ status' \in [Generations -> Statuses]
         /\ SelectedLabelIsTrue'
<1> DEFINE p == Gen(o)
           e == Mine(o)
<1>1. /\ selected' = [selected EXCEPT ![e] = p]
      /\ status' = Relabelled(selected[e], p)
      /\ e \in Estates
  BY DEF Promote, LabelInv, HeadTypes
<1>2. \A q \in Generations :
        status'[q] = IF q = p THEN "selected"
                     ELSE IF q = selected[e] /\ Exists(q) THEN "superseded" ELSE status[q]
  BY <1>1 DEF Relabelled
<1>3. selected' \in [Estates -> Generations \cup {None}] /\ status' \in [Generations -> Statuses]
  BY <1>1, <1>2 DEF LabelInv, HeadTypes, Relabelled, Statuses
<1>4. ASSUME NEW q \in Generations, status'[q] = "selected"
      PROVE  \E f \in Estates : selected'[f] = q
  <2>1. CASE q = p
    BY <1>1, <2>1 DEF LabelInv, HeadTypes
  <2>2. CASE q # p
    <3>1. status[q] = "selected" /\ q # selected[e]
      BY <1>2, <1>4, <2>2 DEF Exists
    <3>2. PICK f \in Estates : selected[f] = q
      BY <3>1 DEF LabelInv, SelectedLabelIsTrue
    <3>3. f # e
      BY <3>1, <3>2
    <3> QED
      BY <1>1, <3>2, <3>3 DEF LabelInv, HeadTypes
  <2> QED
    BY <2>1, <2>2
<1> QED
  BY <1>3, <1>4 DEF SelectedLabelIsTrue

\* A step that leaves the heads and the records alone only moves its operator.
LEMMA QuietStep ==
  ASSUME LabelInv, NEW o \in Operators, NEW l, Shaped(l, Mine(o)),
         op' = [op EXCEPT ![o] = l], UNCHANGED <<selected, status>>
  PROVE  LabelInv'
<1>1. HeadTypes'
  BY OwnLocals DEF LabelInv, HeadTypes
<1>2. SelectedLabelIsTrue'
  BY Unlabelled DEF LabelInv, HeadTypes
<1> QED
  BY <1>1, <1>2 DEF LabelInv

LEMMA InitLabelInv == Init => LabelInv
<1> SUFFICES ASSUME Init PROVE LabelInv
  OBVIOUS
<1>1. PICK f \in [Operators -> Estates] : op = [o \in Operators |-> Idle(f[o])]
  BY DEF Init
<1>2. HeadTypes
  BY <1>1 DEF Init, HeadTypes, Statuses, Idle, LocalNames, Holding, Mine
<1>3. SelectedLabelIsTrue
  BY DEF Init, SelectedLabelIsTrue
<1> QED
  BY <1>2, <1>3 DEF LabelInv

\* Staging: the heads are read, the record is written, the rows follow.
LEMMA StagingStep ==
  ASSUME LabelInv, NEW o \in Operators,
         \/ ReadBefore(o) \/ Stage(o) \/ StartWorking(o) \/ WorkingChanged(o)
         \/ WriteBatch(o) \/ CountBatch(o) \/ Verify(o)
  PROVE  LabelInv'
<1> USE DEF LabelInv
<1>1. CASE ReadBefore(o)
  <2>1. PICK p \in Generations, b \in Promoting :
          op' = [op EXCEPT ![o].pc = "stage", ![o].gen = p, ![o].promote = b,
                           ![o].expWorking = working[Mine(o)],
                           ![o].expSelected = selected[Mine(o)]]
    BY <1>1 DEF ReadBefore
  <2> DEFINE l == [op[o] EXCEPT !.pc = "stage", !.gen = p, !.promote = b,
                                !.expWorking = working[Mine(o)],
                                !.expSelected = selected[Mine(o)]]
  <2>2. Shaped(l, Mine(o))
    BY DEF HeadTypes, Shaped, LocalNames, Mine
  <2>3. op' = [op EXCEPT ![o] = l]
    BY <2>1 DEF HeadTypes, LocalNames
  <2> QED
    BY <1>1, <2>2, <2>3, QuietStep DEF ReadBefore, heads, record
<1>2. CASE Stage(o)
  <2>1. Gen(o) \in Generations
    BY <1>2 DEF Stage, At, HeadTypes, Holding
  <2> QED
    BY <1>2, <2>1, Moves, QuietStep DEF Stage, Goto, Resume, Return, heads, record, Holding
<1>3. CASE StartWorking(o)
  <2>1. Gen(o) \in Generations
    BY <1>3 DEF StartWorking, At, HeadTypes, Holding
  <2> DEFINE l == [op[o] EXCEPT !.pc = "write", !.expWorking = None]
  <2>2. Shaped(l, Mine(o)) /\ op' = [op EXCEPT ![o] = l]
    BY <1>3, <2>1 DEF StartWorking, HeadTypes, Shaped, LocalNames, Mine, Gen
  <2>3. /\ selected' = selected /\ status' \in [Generations -> Statuses]
        /\ \A p \in Generations : status'[p] = "selected" => status[p] = "selected"
    BY <1>3, <2>1 DEF StartWorking, HeadTypes, Statuses
  <2> QED
    BY <2>2, <2>3, OwnLocals, Unlabelled DEF HeadTypes
<1>4. CASE WorkingChanged(o)
  BY <1>4, Moves, QuietStep DEF WorkingChanged, Return, heads, record
<1>5. CASE WriteBatch(o)
  <2>1. Gen(o) \in Generations
    BY <1>5 DEF WriteBatch, At, HeadTypes, Holding
  <2> DEFINE l == [op[o] EXCEPT !.pc = "count", !.batch = op[o].batch + 1]
  <2>2. Shaped(l, Mine(o))
    BY <2>1 DEF HeadTypes, Shaped, LocalNames, Mine, Gen
  <2>3. op' = [op EXCEPT ![o] = l]
    BY <1>5 DEF WriteBatch, HeadTypes, LocalNames
  <2> QED
    BY <1>5, <2>2, <2>3, QuietStep DEF WriteBatch, heads, record
<1>6. CASE CountBatch(o)
  <2>1. Gen(o) \in Generations
    BY <1>6 DEF CountBatch, At, HeadTypes, Holding
  <2> QED
    BY <1>6, <2>1, Moves, QuietStep DEF CountBatch, Goto, heads
<1>7. CASE Verify(o)
  <2>1. Gen(o) \in Generations
    BY <1>7 DEF Verify, At, HeadTypes, Holding
  <2>2. CASE RowsMatch(Gen(o))
    <3> DEFINE l == [op[o] EXCEPT !.pc = "ready", !.batch = 0]
    <3>1. Shaped(l, Mine(o)) /\ op' = [op EXCEPT ![o] = l]
      BY <1>7, <2>1, <2>2 DEF Verify, HeadTypes, Shaped, LocalNames, Mine, Gen
    <3> QED
      BY <1>7, <3>1, QuietStep DEF Verify, heads, record
  <2> QED
    BY <1>7, <2>1, <2>2, Moves, QuietStep DEF Verify, Fail, heads, record
<1> QED
  BY <1>1, <1>2, <1>3, <1>4, <1>5, <1>6, <1>7

\* What becomes of a staged generation: ready, failed, selected or refused.
LEMMA VerdictStep ==
  ASSUME LabelInv, NEW o \in Operators,
         \/ MarkReady(o) \/ StagingFails(o) \/ MarkFailed(o)
         \/ Promote(o) \/ PromotionRefused(o)
  PROVE  LabelInv'
<1> USE DEF LabelInv
<1>1. CASE MarkReady(o)
  <2>1. Gen(o) \in Generations
    BY <1>1 DEF MarkReady, At, HeadTypes, Holding
  <2>2. /\ selected' = selected /\ status' \in [Generations -> Statuses]
        /\ \A p \in Generations : status'[p] = "selected" => status[p] = "selected"
    BY <1>1, <2>1 DEF MarkReady, heads, HeadTypes, Statuses
  <2>3. HeadTypes'
    <3>1. selected' \in [Estates -> Generations \cup {None}] /\ "promote" \in Holding
      BY <2>2 DEF HeadTypes, Holding
    <3>2. CASE op[o].promote
      <4>1. op' = [op EXCEPT ![o] = [op[o] EXCEPT !.pc = "promote"]]
        BY <1>1, <3>2 DEF MarkReady, Goto, HeadTypes
      <4>2. Shaped([op[o] EXCEPT !.pc = "promote"], Mine(o))
        BY <2>1, Moves
      <4> QED
        BY <2>2, <3>1, <4>1, <4>2, OwnLocals
    <3>3. CASE ~op[o].promote
      BY <1>1, <2>2, <3>1, <3>3, Moves, OwnLocals DEF MarkReady, Return
    <3> QED
      BY <3>2, <3>3
  <2> QED
    BY <2>2, <2>3, Unlabelled
<1>2. CASE StagingFails(o)
  <2>1. Gen(o) \in Generations
    BY <1>2 DEF StagingFails, HeadTypes, Holding
  <2> QED
    BY <1>2, <2>1, Moves, QuietStep DEF StagingFails, Fail, heads, record
<1>3. CASE MarkFailed(o)
  <2>1. /\ selected' = selected /\ status' \in [Generations -> Statuses]
        /\ \A p \in Generations : status'[p] = "selected" => status[p] = "selected"
    BY <1>3 DEF MarkFailed, heads, HeadTypes, Statuses
  <2>2. HeadTypes'
    BY <1>3, <2>1, Moves, OwnLocals DEF MarkFailed, Return, HeadTypes
  <2> QED
    BY <2>1, <2>2, Unlabelled
<1>4. CASE Promote(o)
  <2>1. Gen(o) \in Generations
    BY <1>4 DEF Promote, At, HeadTypes, Holding
  <2>2. HeadTypes'
    BY <1>4, <2>1, PromoteStep, Moves, OwnLocals DEF Promote, Resume, Holding
  <2> QED
    BY <1>4, <2>1, <2>2, PromoteStep
<1>5. CASE PromotionRefused(o)
  BY <1>5, Moves, QuietStep DEF PromotionRefused, Return, heads, record
<1> QED
  BY <1>1, <1>2, <1>3, <1>4, <1>5

\* A prune takes labels away with the records it deletes, and gives none.
LEMMA PruneStep ==
  ASSUME LabelInv, NEW o \in Operators,
         \/ OwnHeads(o) \/ AllHeads(o) \/ ListCandidates(o)
         \/ DeleteRows(o) \/ DeleteRecord(o) \/ Leave(o)
  PROVE  LabelInv'
<1> USE DEF LabelInv
<1>1. CASE OwnHeads(o)
  <2> DEFINE own == {selected[Mine(o)], working[Mine(o)]} \ {None}
             l == [op[o] EXCEPT !.pc = "allHeads", !.protected = own]
  <2>1. Shaped(l, Mine(o))
    BY DEF HeadTypes, Shaped, LocalNames, Mine, Holding
  <2>2. CASE own = {}
    BY <1>1, <2>2, Moves, QuietStep DEF OwnHeads, Return, heads, record
  <2>3. CASE own # {}
    <3>1. op' = [op EXCEPT ![o] = l]
      BY <1>1, <2>3 DEF OwnHeads, HeadTypes, LocalNames
    <3> QED
      BY <1>1, <2>1, <3>1, QuietStep DEF OwnHeads, heads, record
  <2> QED
    BY <2>2, <2>3
<1>2. CASE AllHeads(o)
  <2> DEFINE l == [op[o] EXCEPT !.pc = "candidates", !.protected = Spared(o)]
  <2>1. Shaped(l, Mine(o))
    BY DEF HeadTypes, Shaped, LocalNames, Mine, Holding
  <2>2. op' = [op EXCEPT ![o] = l]
    BY <1>2 DEF AllHeads, HeadTypes, LocalNames
  <2> QED
    BY <1>2, <2>1, <2>2, QuietStep DEF AllHeads, heads, record
<1>3. CASE ListCandidates(o)
  BY <1>3, Moves, QuietStep DEF ListCandidates, Resume, heads, record, Holding
<1>4. CASE DeleteRows(o)
  <2>1. HeadTypes' /\ UNCHANGED <<selected, status>>
    BY <1>4, Moves, OwnLocals DEF DeleteRows, Goto, heads, record, Holding, HeadTypes, Mine, Gen
  <2> QED
    BY <2>1, Unlabelled DEF HeadTypes
<1>5. CASE DeleteRecord(o)
  <2> DEFINE next == IF Len(op[o].doomed) = 1 THEN "pruned" ELSE "deleteRows"
             l == [op[o] EXCEPT !.pc = next, !.doomed = Tail(op[o].doomed)]
  <2>1. Shaped(l, Mine(o))
    BY DEF HeadTypes, Shaped, LocalNames, Mine, Holding
  <2>2. op' = [op EXCEPT ![o] = l]
    BY <1>5 DEF DeleteRecord, HeadTypes, LocalNames
  <2>3. /\ selected' = selected /\ status' \in [Generations -> Statuses]
        /\ \A p \in Generations : status'[p] = "selected" => status[p] = "selected"
    BY <1>5 DEF DeleteRecord, heads, HeadTypes, Statuses
  <2> QED
    BY <2>1, <2>2, <2>3, OwnLocals, Unlabelled DEF HeadTypes
<1>6. CASE Leave(o)
  BY <1>6, Moves, QuietStep DEF Leave, Return, heads, record
<1> QED
  BY <1>1, <1>2, <1>3, <1>4, <1>5, <1>6

LEMMA NextLabelInv == LabelInv /\ [Next]_vars => LabelInv'
<1> SUFFICES ASSUME LabelInv, [Next]_vars
             PROVE  LabelInv'
  OBVIOUS
<1>1. ASSUME NEW o \in Operators, OperatorStep(o)
      PROVE  LabelInv'
  BY <1>1, StagingStep, VerdictStep, PruneStep DEF OperatorStep
<1>2. CASE UNCHANGED vars
  BY <1>2 DEF vars, LabelInv, HeadTypes, Mine, Gen, SelectedLabelIsTrue
<1> QED
  BY <1>1, <1>2 DEF Next

-----------------------------------------------------------------------------
(* The theorem a reader should know of. *)

\* Whatever operators promote, stage again, prune or leave half done, only
\* what a head selects is labelled selected.
THEOREM LabelsAreTrue == Spec => []SelectedLabelIsTrue
<1>1. LabelInv => SelectedLabelIsTrue
  BY DEF LabelInv
<1> QED
  BY <1>1, InitLabelInv, NextLabelInv, PTL DEF Spec

-----------------------------------------------------------------------------
(* Rows and records, where prunes run alone. *)

Calm == {"idle", "ownHeads"}
Writing == {"write", "count", "verify", "ready"}

\* While one prunes, nobody stages or promotes.
Alone == \A x, o \in Operators : Pruning(x) /\ o # x => op[o].pc \in Calm

\* A generation that is being written has its record, and a record about to be
\* deleted has no rows left.
RowsInv ==
  /\ rows = [p \in Generations |-> rows[p]]
  /\ Alone
  /\ \A o \in Operators : op[o].pc \in Writing => Exists(Gen(o))
  /\ \A o \in Operators, p \in Generations :
       At(o, "deleteRecord") /\ p = Head(op[o].doomed) => NoneLeft(p)
  /\ NoOrphanRows

\* A step leaves the locals of the others alone.
LEMMA OthersKeep ==
  ASSUME HeadTypes, NEW o \in Operators, OperatorStep(o), NEW x \in Operators, x # o
  PROVE  op'[x] = op[x]
<1>1. op = [y \in Operators |-> op[y]]
  BY DEF HeadTypes
<1>2. CASE ReadBefore(o)
  BY <1>1, <1>2 DEF ReadBefore
<1>3. CASE Stage(o)
  BY <1>1, <1>3 DEF Stage, Goto, Return, Resume
<1>4. CASE StartWorking(o)
  BY <1>1, <1>4 DEF StartWorking
<1>5. CASE WorkingChanged(o)
  BY <1>1, <1>5 DEF WorkingChanged, Return
<1>6. CASE WriteBatch(o)
  BY <1>1, <1>6 DEF WriteBatch
<1>7. CASE CountBatch(o)
  BY <1>1, <1>7 DEF CountBatch, Goto
<1>8. CASE Verify(o)
  BY <1>1, <1>8 DEF Verify, Fail
<1>9. CASE MarkReady(o)
  BY <1>1, <1>9 DEF MarkReady, Goto, Return
<1>10. CASE StagingFails(o)
  BY <1>1, <1>10 DEF StagingFails, Fail
<1>11. CASE MarkFailed(o)
  BY <1>1, <1>11 DEF MarkFailed, Return
<1>12. CASE Promote(o)
  BY <1>1, <1>12 DEF Promote, Resume
<1>13. CASE PromotionRefused(o)
  BY <1>1, <1>13 DEF PromotionRefused, Return
<1>14. CASE OwnHeads(o)
  BY <1>1, <1>14 DEF OwnHeads, Return
<1>15. CASE AllHeads(o)
  BY <1>1, <1>15 DEF AllHeads
<1>16. CASE ListCandidates(o)
  BY <1>1, <1>16 DEF ListCandidates, Resume
<1>17. CASE DeleteRows(o)
  BY <1>1, <1>17 DEF DeleteRows, Goto
<1>18. CASE DeleteRecord(o)
  BY <1>1, <1>18 DEF DeleteRecord
<1>19. CASE Leave(o)
  BY <1>1, <1>19 DEF Leave, Return
<1> QED
  BY <1>2, <1>3, <1>4, <1>5, <1>6, <1>7, <1>8, <1>9, <1>10, <1>11, <1>12, <1>13, <1>14, <1>15, <1>16, <1>17, <1>18, <1>19 DEF OperatorStep

\* Where a step takes its operator.
LEMMA PlaceAfter ==
  ASSUME HeadTypes, NEW o \in Operators, OperatorStep(o)
  PROVE  /\ Pruning(o)' => Pruning(o) \/ OwnHeads(o)
         /\ op[o].pc \in Calm => op'[o].pc \in Calm \/ ReadBefore(o) \/ OwnHeads(o)
         /\ op'[o].pc \in Writing => (op[o].pc \in Writing /\ Gen(o)' = Gen(o)) \/ StartWorking(o)
         /\ op'[o].pc = "deleteRecord" => DeleteRows(o)
<1> USE DEF At, Pruning, Calm, Writing, LocalNames, Gen
<1>1. op = [x \in Operators |-> op[x]] /\ DOMAIN op[o] = LocalNames
  BY DEF HeadTypes
<1>2. CASE ReadBefore(o)
  <2>1. op'[o].pc = "stage"
    BY <1>1, <1>2 DEF ReadBefore
  <2> QED
    BY <1>2, <2>1
<1>3. CASE Stage(o)
  <2>1. op[o].pc = "stage" /\ op'[o].pc \in {"start", "ownHeads", "idle"}
    <3>1. CASE Goto(o, "start")
      BY <1>1, <1>3, <3>1 DEF Stage, Goto
    <3>2. CASE Resume(o, "ownHeads", <<>>)
      BY <1>1, <1>3, <3>2 DEF Stage, Resume, Idle
    <3>3. CASE Return(o)
      BY <1>1, <1>3, <3>3 DEF Stage, Return, Idle
    <3> QED
      BY <1>3, <3>1, <3>2, <3>3 DEF Stage
  <2> QED
    BY <2>1
<1>4. CASE StartWorking(o)
  BY <1>1, <1>4 DEF StartWorking
<1>5. CASE WorkingChanged(o)
  BY <1>1, <1>5 DEF WorkingChanged, Return, Idle
<1>6. CASE WriteBatch(o)
  BY <1>1, <1>6 DEF WriteBatch
<1>7. CASE CountBatch(o)
  BY <1>1, <1>7 DEF CountBatch, Goto
<1>8. CASE Verify(o)
  <2>1. CASE RowsMatch(Gen(o))
    <3>1. op[o].pc = "verify" /\ op'[o].pc = "ready" /\ op'[o].gen = op[o].gen
      BY <1>1, <1>8, <2>1 DEF Verify
    <3> QED
      BY <3>1
  <2>2. CASE ~RowsMatch(Gen(o))
    <3>1. op[o].pc = "verify" /\ op'[o].pc = "markFailed"
      BY <1>1, <1>8, <2>2 DEF Verify, Fail, Idle
    <3> QED
      BY <3>1
  <2> QED
    BY <2>1, <2>2
<1>9. CASE MarkReady(o)
  BY <1>1, <1>9 DEF MarkReady, Goto, Return, Idle
<1>10. CASE StagingFails(o)
  BY <1>1, <1>10 DEF StagingFails, Fail, Idle
<1>11. CASE MarkFailed(o)
  BY <1>1, <1>11 DEF MarkFailed, Return, Idle
<1>12. CASE Promote(o)
  BY <1>1, <1>12 DEF Promote, Resume, Idle
<1>13. CASE PromotionRefused(o)
  BY <1>1, <1>13 DEF PromotionRefused, Return, Idle
<1>14. CASE OwnHeads(o)
  <2>1. op'[o].pc \in {"idle", "allHeads"}
    <3>1. CASE Return(o)
      BY <1>1, <3>1 DEF Return, Idle
    <3>2. CASE ~Return(o)
      BY <1>1, <1>14, <3>2 DEF OwnHeads
    <3> QED
      BY <3>1, <3>2
  <2> QED
    BY <1>14, <2>1
<1>15. CASE AllHeads(o)
  BY <1>1, <1>15 DEF AllHeads
<1>16. CASE ListCandidates(o)
  BY <1>1, <1>16 DEF ListCandidates, Resume, Idle
<1>17. CASE DeleteRows(o)
  BY <1>1, <1>17 DEF DeleteRows, Goto
<1>18. CASE DeleteRecord(o)
  BY <1>1, <1>18 DEF DeleteRecord
<1>19. CASE Leave(o)
  BY <1>1, <1>19 DEF Leave, Return, Idle
<1> QED
  BY <1>2, <1>3, <1>4, <1>5, <1>6, <1>7, <1>8, <1>9, <1>10, <1>11, <1>12, <1>13, <1>14, <1>15, <1>16, <1>17, <1>18, <1>19 DEF OperatorStep

\* Whoever begins to prune finds the others calm, and nobody leaves calm
\* while one prunes.
LEMMA AloneStep ==
  ASSUME PrunesAlone, HeadTypes, Alone, NEW o \in Operators, OperatorStep(o)
  PROVE  Alone'
<1> SUFFICES ASSUME NEW x \in Operators, NEW y \in Operators, Pruning(x)', y # x
             PROVE  op'[y].pc \in Calm
  BY DEF Alone
<1>1. CASE x = o
  <2>1. op'[y] = op[y]
    BY <1>1, OthersKeep
  <2>2. Pruning(o) \/ OwnHeads(o)
    BY <1>1, PlaceAfter
  <2> QED
    BY <1>1, <2>1, <2>2 DEF Alone, OwnHeads, Calm
<1>2. CASE x # o
  <2>1. Pruning(x)
    BY <1>2, OthersKeep DEF Pruning
  <2>2. op[y].pc \in Calm
    BY <2>1 DEF Alone
  <2>3. CASE y # o
    BY <2>2, <2>3, OthersKeep
  <2>4. CASE y = o
    <3>1. ~ReadBefore(o)
      BY <2>1 DEF ReadBefore
    <3>2. ~OwnHeads(o)
      BY <2>1 DEF OwnHeads, Pruning
    <3> QED
      BY <2>2, <2>4, <3>1, <3>2, PlaceAfter
  <2> QED
    BY <2>3, <2>4
<1> QED
  BY <1>1, <1>2

\* Records go only where they are deleted, and rows come only where they are
\* written.
LEMMA RecordsStay ==
  ASSUME HeadTypes, HeadTypes', NEW o \in Operators, OperatorStep(o), ~DeleteRecord(o),
         NEW p \in Generations, Exists(p)
  PROVE  Exists(p)'
<1>1. CASE UNCHANGED status
  BY <1>1 DEF Exists
<1>2. CASE StartWorking(o) \/ MarkReady(o) \/ MarkFailed(o)
  BY <1>2 DEF StartWorking, MarkReady, MarkFailed, HeadTypes, Exists
<1>3. CASE Promote(o)
  BY <1>3 DEF Promote, Relabelled, Exists
<1> QED
  BY <1>1, <1>2, <1>3 DEF OperatorStep, ReadBefore, Stage, WorkingChanged, WriteBatch, CountBatch,
     Verify, StagingFails, PromotionRefused, OwnHeads, AllHeads, ListCandidates, DeleteRows, Leave, record

LEMMA RowsCome ==
  ASSUME NEW o \in Operators, OperatorStep(o), ~WriteBatch(o), rows = [p \in Generations |-> rows[p]]
  PROVE  /\ rows' = [p \in Generations |-> rows'[p]]
         /\ \A p \in Generations : rows'[p] \subseteq rows[p]
<1>1. CASE UNCHANGED rows
  BY <1>1
<1>2. CASE DeleteRows(o)
  BY <1>2 DEF DeleteRows
<1> QED
  BY <1>1, <1>2 DEF OperatorStep, ReadBefore, Stage, StartWorking, WorkingChanged, CountBatch, Verify,
     MarkReady, StagingFails, MarkFailed, Promote, PromotionRefused, OwnHeads, AllHeads, ListCandidates,
     DeleteRecord, Leave

LEMMA RowsStep ==
  ASSUME PrunesAlone, HeadTypes, HeadTypes', RowsInv, NEW o \in Operators, OperatorStep(o)
  PROVE  RowsInv'
<1>1. Alone'
  BY AloneStep DEF RowsInv
<1>2. rows' = [p \in Generations |-> rows'[p]]
  <2>1. CASE WriteBatch(o)
    BY <2>1 DEF WriteBatch, RowsInv
  <2> QED
    BY <2>1, RowsCome DEF RowsInv
<1>3. ASSUME NEW x \in Operators, op'[x].pc \in Writing
      PROVE  Exists(Gen(x))'
  <2>1. Gen(x)' \in Generations
    BY <1>3 DEF HeadTypes, Writing, Holding, Gen
  <2>2. CASE x = o /\ StartWorking(o)
    <3>1. op'[o].gen = op[o].gen
      BY <2>2 DEF StartWorking, HeadTypes, LocalNames
    <3>2. status' = [status EXCEPT ![Gen(o)] = "working"] /\ status \in [Generations -> Statuses]
      BY <2>2 DEF StartWorking, HeadTypes
    <3>3. Gen(o) \in Generations /\ Gen(x)' = Gen(o)
      BY <2>1, <2>2, <3>1 DEF Gen
    <3>4. status'[Gen(o)] = "working"
      BY <3>2, <3>3
    <3>5. Exists(Gen(x))' <=> status'[Gen(x)'] # "absent"
      BY DEF Exists
    <3> QED
      BY <3>3, <3>4, <3>5
  <2>3. CASE ~(x = o /\ StartWorking(o))
    <3>1. op[x].pc \in Writing /\ Gen(x)' = Gen(x)
      BY <1>3, <2>3, OthersKeep, PlaceAfter DEF Gen
    <3>2. ~DeleteRecord(o)
      BY <3>1 DEF RowsInv, Alone, DeleteRecord, At, Pruning, Calm, Writing
    <3>3. Exists(Gen(x))
      BY <3>1 DEF RowsInv
    <3>4. Exists(Gen(x))' <=> status'[Gen(x)'] # "absent"
      BY DEF Exists
    <3>5. status'[Gen(x)] # "absent"
      BY <2>1, <3>1, <3>2, <3>3, RecordsStay DEF Exists
    <3> QED
      BY <3>1, <3>4, <3>5
  <2> QED
    BY <2>2, <2>3
<1>4. ASSUME NEW x \in Operators, NEW p \in Generations,
             op'[x].pc = "deleteRecord", p = Head(op'[x].doomed)
      PROVE  rows'[p] = {}
  <2>1. CASE x = o
    <3>1. DeleteRows(o)
      BY <1>4, <2>1, PlaceAfter
    <3>2. op[o].pc = "deleteRows" /\ op'[o].pc = "deleteRecord"
      BY <1>4, <2>1, <3>1 DEF DeleteRows, At
    <3>3. NoneLeft(Head(op[o].doomed)) /\ op' = [op EXCEPT ![o].pc = "deleteRecord"] /\ rows' = rows
      BY <3>1, <3>2 DEF DeleteRows, Goto
    <3>4. op'[o].doomed = op[o].doomed
      BY <3>3 DEF HeadTypes, LocalNames
    <3> QED
      BY <1>4, <2>1, <3>3, <3>4 DEF NoneLeft
  <2>2. CASE x # o
    <3>1. op'[x] = op[x]
      BY <2>2, OthersKeep
    <3>2. rows[p] = {} /\ Pruning(x)
      BY <1>4, <3>1 DEF RowsInv, At, NoneLeft, Pruning
    <3>3. ~WriteBatch(o)
      BY <2>2, <3>2 DEF RowsInv, Alone, WriteBatch, At, Calm
    <3> QED
      BY <3>2, <3>3, RowsCome DEF RowsInv
  <2> QED
    BY <2>1, <2>2
<1>5. ASSUME NEW p \in Generations, rows'[p] # {}
      PROVE  Exists(p)'
  <2>1. Exists(p)
    <3>1. CASE WriteBatch(o) /\ p = Gen(o)
      BY <3>1 DEF WriteBatch, At, RowsInv, Writing
    <3>2. CASE WriteBatch(o) /\ p # Gen(o)
      BY <1>5, <3>2 DEF WriteBatch, RowsInv, NoOrphanRows
    <3>3. CASE ~WriteBatch(o)
      BY <1>5, <3>3, RowsCome DEF RowsInv, NoOrphanRows
    <3> QED
      BY <3>1, <3>2, <3>3
  <2>2. CASE DeleteRecord(o)
    <3>1. p # Head(op[o].doomed)
      BY <1>5, <2>2 DEF DeleteRecord, RowsInv, NoneLeft
    <3> QED
      BY <2>1, <2>2, <3>1 DEF DeleteRecord, Exists, HeadTypes
  <2> QED
    BY <2>1, <2>2, RecordsStay
<1>6. \A x \in Operators : (op[x].pc \in Writing => Exists(Gen(x)))'
  BY <1>3
<1> QED
  BY <1>1, <1>2, <1>4, <1>5, <1>6 DEF RowsInv, NoOrphanRows, At, NoneLeft

LEMMA RowsInvInit == Init => RowsInv
BY DEF Init, RowsInv, NoOrphanRows, Alone, Pruning, Idle, Writing, At

LEMMA RowsInvNext ==
  ASSUME PrunesAlone, LabelInv, LabelInv', RowsInv, [Next]_vars
  PROVE  RowsInv'
<1>1. CASE UNCHANGED vars
  BY <1>1 DEF vars, RowsInv, Alone, Pruning, At, NoneLeft, NoOrphanRows, Exists, Gen
<1> QED
  BY <1>1, RowsStep DEF Next, LabelInv

\* Where no prune runs beside a staging, every row is of a recorded generation,
\* so that a later prune finds it, whatever fails or is left half done.
THEOREM RowsAreRecorded ==
  ASSUME PrunesAlone
  PROVE  Spec => []NoOrphanRows
<1>1. LabelInv /\ LabelInv' /\ RowsInv /\ [Next]_vars => RowsInv'
  BY RowsInvNext
<1>2. RowsInv => NoOrphanRows
  BY DEF RowsInv
<1> QED
  BY <1>1, <1>2, RowsInvInit, InitLabelInv, NextLabelInv, PTL DEF Spec

-----------------------------------------------------------------------------
(* The order of the records. *)

\* A strict order of all of S, on S alone.
Orders(r, S) ==
  /\ r \subseteq S \X S
  /\ \A p, q \in S : p # q => (<<p, q>> \in r <=> <<q, p>> \notin r)
  /\ \A p, q, t \in S : <<p, q>> \in r /\ <<q, t>> \in r => <<p, t>> \in r
  /\ \A p \in S : <<p, p>> \notin r

\* A record that is put first leaves its old place: the order stays one.
LEMMA ForemostOrders ==
  ASSUME Orders(newer, Records), NEW p \in Generations
  PROVE  Orders(Foremost(p), Records \cup {p})
<1>1. \A q, t : <<q, t>> \in Foremost(p) <=>
        \/ <<q, t>> \in newer /\ p # q /\ p # t
        \/ q = p /\ t \in Records \ {p}
  BY DEF Foremost, Without, Ahead
<1>2. Foremost(p) \subseteq (Records \cup {p}) \X (Records \cup {p})
  BY DEF Foremost, Without, Ahead, Orders
<1> QED
  BY <1>1, <1>2 DEF Orders

\* A record that is deleted leaves the others in their order.
LEMMA WithoutOrders ==
  ASSUME Orders(newer, Records), NEW p
  PROVE  Orders(Without(p), Records \ {p})
<1>1. \A q, t : <<q, t>> \in Without(p) <=> <<q, t>> \in newer /\ p # q /\ p # t
  BY DEF Without
<1>2. Without(p) \subseteq (Records \ {p}) \X (Records \ {p})
  BY DEF Without, Orders
<1> QED
  BY <1>1, <1>2 DEF Orders

\* The rank of a record numbers those of a set without gaps.
LEMMA RankBijection ==
  ASSUME Orders(newer, Records), NEW S \in SUBSET Records, IsFiniteSet(S)
  PROVE  /\ Cardinality(S) \in Nat
         /\ \A p \in S : Rank(S, p) \in 0..Cardinality(S) - 1
         /\ \A p, q \in S : Rank(S, p) = Rank(S, q) => p = q
         /\ \A i \in 0..Cardinality(S) - 1 : \E p \in S : Rank(S, p) = i
<1> DEFINE Before(p) == {q \in S : <<q, p>> \in newer}
           n == Cardinality(S)
<1>1. n \in Nat
  BY FS_CardinalityType
<1>2. ASSUME NEW p \in S
      PROVE  IsFiniteSet(Before(p)) /\ Rank(S, p) = Cardinality(Before(p)) /\ Rank(S, p) \in 0..n - 1
  <2>1. Before(p) \in SUBSET (S \ {p}) /\ Rank(S, p) = Cardinality(Before(p))
    BY DEF Orders, Rank
  <2> HIDE DEF Before
  <2>2. IsFiniteSet(S \ {p}) /\ Cardinality(S \ {p}) = n - 1
    BY FS_RemoveElement
  <2>3. IsFiniteSet(Before(p)) /\ Cardinality(Before(p)) <= Cardinality(S \ {p})
    BY <2>1, <2>2, FS_Subset
  <2>4. Cardinality(Before(p)) \in Nat
    BY <2>3, FS_CardinalityType
  <2> QED
    BY <1>1, <2>1, <2>2, <2>3, <2>4
<1>3. ASSUME NEW p \in S, NEW q \in S, <<p, q>> \in newer
      PROVE  Rank(S, p) < Rank(S, q)
  <2>1. Before(p) \cup {p} \in SUBSET Before(q) /\ p \notin Before(p)
    BY <1>3 DEF Orders
  <2> HIDE DEF Before
  <2>2. Cardinality(Before(p) \cup {p}) = Cardinality(Before(p)) + 1
    BY <1>2, <2>1, FS_AddElement
  <2>3. Cardinality(Before(p) \cup {p}) <= Cardinality(Before(q))
    BY <1>2, <2>1, FS_Subset
  <2>4. Rank(S, p) \in Nat /\ Rank(S, q) \in Nat
    BY <1>1, <1>2
  <2> QED
    BY <1>2, <2>2, <2>3, <2>4
<1>4. ASSUME NEW p \in S, NEW q \in S, Rank(S, p) = Rank(S, q)
      PROVE  p = q
  <2>0. Rank(S, p) \in Int
    <3> HIDE DEF Before, n
    <3>1. Rank(S, p) \in 0..n - 1
      BY <1>2
    <3> QED
      BY <1>1, <3>1
  <2>1. ~(Rank(S, p) < Rank(S, q)) /\ ~(Rank(S, q) < Rank(S, p))
    BY <1>4, <2>0
  <2>2. <<p, q>> \notin newer /\ <<q, p>> \notin newer
    BY <1>3, <2>1
  <2> QED
    BY <2>2 DEF Orders
<1>5. ASSUME NEW i \in 0..n - 1
      PROVE  \E p \in S : Rank(S, p) = i
  <2> DEFINE f == [p \in S |-> Rank(S, p)]
  <2>1. f \in [S -> 0..n - 1]
    BY <1>2
  <2>2. f \in Injection(S, 0..n - 1)
    <3>1. \A p, q \in S : f[p] = f[q] => p = q
      BY <1>4
    <3> HIDE DEF f
    <3> QED
      BY <2>1, <3>1, Fun_IsInj
  <2>3. IsFiniteSet(0..n - 1) /\ Cardinality(0..n - 1) = n
    BY <1>1, FS_Interval
  <2>4. f \in Surjection(S, 0..n - 1)
    <3> HIDE DEF f
    <3> QED
      BY <2>2, <2>3, FS_Injection
  <2>5. \E p \in S : f[p] = i
    <3> HIDE DEF f
    <3> QED
      BY <2>4 DEF Surjection
  <2> QED
    BY <2>5
<1> QED
  BY <1>1, <1>2, <1>4, <1>5

\* A listing has every record of the set once, at its rank.
LEMMA ListingIs ==
  ASSUME Orders(newer, Records), NEW S \in SUBSET Records, IsFiniteSet(S)
  PROVE  /\ Cardinality(S) \in Nat
         /\ Listing(S) \in [1..Cardinality(S) -> S]
         /\ \A i \in 1..Cardinality(S) : Rank(S, Listing(S)[i]) = i - 1
         /\ \A p \in S : Rank(S, p) \in 0..Cardinality(S) - 1 /\ Listing(S)[Rank(S, p) + 1] = p
<1> DEFINE n == Cardinality(S)
           At_(i) == CHOOSE p \in S : Rank(S, p) = i - 1
<1>1. /\ n \in Nat
      /\ \A p \in S : Rank(S, p) \in 0..n - 1
      /\ \A p, q \in S : Rank(S, p) = Rank(S, q) => p = q
      /\ \A i \in 0..n - 1 : \E p \in S : Rank(S, p) = i
  BY RankBijection
<1>2. ASSUME NEW i \in 1..n
      PROVE  At_(i) \in S /\ Rank(S, At_(i)) = i - 1
  <2>1. \E p \in S : Rank(S, p) = i - 1
    BY <1>1
  <2> QED
    BY <2>1
<1>3. Listing(S) = [i \in 1..n |-> At_(i)]
  BY DEF Listing
<1> HIDE DEF At_
<1>4. Listing(S) \in [1..n -> S] /\ \A i \in 1..n : Rank(S, Listing(S)[i]) = i - 1
  BY <1>2, <1>3
<1>5. ASSUME NEW p \in S PROVE Listing(S)[Rank(S, p) + 1] = p
  <2>1. Rank(S, p) + 1 \in 1..n
    BY <1>1
  <2>2. Rank(S, Listing(S)[Rank(S, p) + 1]) = (Rank(S, p) + 1) - 1 /\ Listing(S)[Rank(S, p) + 1] \in S
    BY <1>4, <2>1
  <2> QED
    BY <1>1, <2>1, <2>2
<1> QED
  BY <1>1, <1>4, <1>5

\* What a prune deletes is what ranks behind the retained ones.
LEMMA PrunableIs ==
  ASSUME Orders(newer, Records), NEW S \in SUBSET Records, IsFiniteSet(S)
  PROVE  /\ Prunable(Listing(S)) \in Seq(S)
         /\ {Prunable(Listing(S))[i] : i \in DOMAIN Prunable(Listing(S))}
              = {p \in S : Rank(S, p) >= Retain}
<1> DEFINE n == Cardinality(S)
           s == Listing(S)
           d == SubSeq(s, Retain + 1, n)
<1>1. /\ n \in Nat /\ s \in [1..n -> S]
      /\ \A i \in 1..n : Rank(S, s[i]) = i - 1
      /\ \A p \in S : Rank(S, p) \in 0..n - 1 /\ s[Rank(S, p) + 1] = p
  BY ListingIs
<1>2. Len(s) = n
  BY <1>1, IsASeq
<1>3. Prunable(s) = d
  BY <1>2 DEF Prunable
<1>4. \A i \in Retain + 1 .. n : s[i] \in S
  BY <1>1
<1> HIDE DEF s
<1>5. /\ d \in Seq(S)
      /\ Len(d) = IF Retain + 1 <= n THEN n - Retain ELSE 0
      /\ \A i \in 1 .. n - Retain : d[i] = s[Retain + i]
  <2>1. /\ SubSeq(s, Retain + 1, n) \in Seq(S)
        /\ Len(SubSeq(s, Retain + 1, n)) = IF Retain + 1 <= n THEN n - (Retain + 1) + 1 ELSE 0
        /\ \A i \in 1 .. n - (Retain + 1) + 1 : SubSeq(s, Retain + 1, n)[i] = s[(Retain + 1) + i - 1]
    BY <1>1, <1>4, SubSeqProperties
  <2> QED
    BY <1>1, <2>1
<1>6. DOMAIN d = 1 .. n - Retain
  <2>1. DOMAIN d = 1..Len(d)
    BY <1>5, LenProperties
  <2> QED
    BY <1>1, <1>5, <2>1
<1> HIDE DEF d
<1>7. ASSUME NEW i \in 1 .. n - Retain
      PROVE  d[i] \in S /\ Rank(S, d[i]) >= Retain
  <2>1. Retain + i \in 1..n
    BY <1>1
  <2> QED
    BY <1>1, <1>5, <2>1
<1>8. ASSUME NEW p \in S, Rank(S, p) >= Retain
      PROVE  \E i \in 1 .. n - Retain : d[i] = p
  <2>1. Rank(S, p) + 1 - Retain \in 1 .. n - Retain
    BY <1>1, <1>8
  <2>2. d[Rank(S, p) + 1 - Retain] = s[Rank(S, p) + 1]
    BY <1>1, <1>5, <2>1
  <2> QED
    BY <1>1, <2>1, <2>2
<1> QED
  BY <1>3, <1>5, <1>6, <1>7, <1>8 DEF s

\* It leaves Retain of them.
LEMMA KeptAreFew ==
  ASSUME Orders(newer, Records), NEW S \in SUBSET Records, IsFiniteSet(S)
  PROVE  LET kept == {p \in S : ~(Rank(S, p) >= Retain)}
         IN  IsFiniteSet(kept) /\ Cardinality(kept) <= Retain
<1> DEFINE kept == {p \in S : ~(Rank(S, p) >= Retain)}
           f == [p \in kept |-> Rank(S, p)]
<1>1. /\ \A p \in S : Rank(S, p) \in 0..Cardinality(S) - 1
      /\ \A p, q \in S : Rank(S, p) = Rank(S, q) => p = q
      /\ Cardinality(S) \in Nat
  BY RankBijection
<1>2. f \in [kept -> 0..Retain - 1] /\ \A p, q \in kept : f[p] = f[q] => p = q
  BY <1>1
<1>3. IsFiniteSet(0..Retain - 1) /\ Cardinality(0..Retain - 1) = Retain
  BY FS_Interval
<1>4. IsFiniteSet(kept) /\ Cardinality(kept) <= Cardinality(0..Retain - 1)
  <2> HIDE DEF f, kept
  <2>1. f \in Injection(kept, 0..Retain - 1)
    BY <1>2, Fun_IsInj
  <2> QED
    BY <1>3, <2>1, FS_Injection
<1> QED
  BY <1>3, <1>4

-----------------------------------------------------------------------------
(* Types *)

\* The locals an operator has at each place.
Fit(l) ==
  /\ l \in Locals
  /\ l.pc \in Holding => l.gen \in Generations
  /\ l.pc \in {"idle", "stage", "start"} => l.batch = 0
  /\ l.pc = "write" => l.batch < Batches
  /\ l.pc \in {"deleteRows", "deleteRecord"} => l.doomed # <<>>
  /\ l.pc \in {"ownHeads", "pruned"} => l.doomed = <<>>

\* The types but for the operators' locals and the order.
RecordTypes ==
  /\ selected \in [Estates -> Generations \cup {None}]
  /\ working \in [Estates -> Generations \cup {None}]
  /\ status \in [Generations -> Statuses]
  /\ owner \in [Generations -> Estates \cup {None}]
  /\ processed \in [Generations -> 0..Batches]
  /\ rows \in [Generations -> SUBSET Content]
  /\ chosen \subseteq Records

\* A record has an owner and an absent one has none, so what an estate owns is
\* a set of records.
Owned == \A p \in Generations : owner[p] # None => Exists(p)

Ordering == Orders(newer, Records) /\ IsFiniteSet(Records)

TypeInv ==
  /\ RecordTypes /\ Owned /\ Ordering
  /\ \A o \in Operators : Fit(op[o])

LEMMA TypeInvTypes == TypeInv => TypeOK
BY DEF TypeInv, RecordTypes, Ordering, Orders, Fit, TypeOK

\* What an estate owns and no head protects can be listed.
LEMMA CandidatesListed ==
  ASSUME TypeInv, NEW o \in Operators, Mine(o) \in Estates
  PROVE  /\ Candidates(o) \in SUBSET Records /\ Candidates(o) \in SUBSET Generations
         /\ IsFiniteSet(Candidates(o))
         /\ Prunable(Listing(Candidates(o))) \in Seq(Candidates(o))
         /\ Prunable(Listing(Candidates(o))) \in Seq(Generations)
<1>1. Candidates(o) \in SUBSET Records
  BY DEF TypeInv, Owned, Candidates, Records
<1>2. IsFiniteSet(Candidates(o))
  BY <1>1, FS_Subset DEF TypeInv, Ordering
<1>3. Prunable(Listing(Candidates(o))) \in Seq(Candidates(o))
  BY <1>1, <1>2, PrunableIs DEF TypeInv, Ordering
<1>4. Candidates(o) \in SUBSET Generations
  BY DEF Candidates
<1>5. Prunable(Listing(Candidates(o))) \in Seq(Generations)
  BY <1>3, <1>4, SeqMonotonic
<1> QED
  BY <1>1, <1>2, <1>3, <1>4, <1>5

\* To return, or to go on with the other locals dropped, is to fit.
LEMMA FitMoves ==
  ASSUME NEW e \in Estates
  PROVE  /\ Fit(Idle(e))
         /\ Fit([Idle(e) EXCEPT !.pc = "ownHeads", !.doomed = <<>>])
         /\ Fit([Idle(e) EXCEPT !.pc = "pruned", !.doomed = <<>>])
         /\ \A d \in Seq(Generations) :
              d # <<>> => Fit([Idle(e) EXCEPT !.pc = "deleteRows", !.doomed = d])
         /\ \A p \in Generations : Fit([Idle(e) EXCEPT !.pc = "markFailed", !.gen = p])
<1>1. Idle(e) \in Locals
  BY EmptySeq DEF Idle, Locals, PCs
<1>2. <<>> \in Seq(Generations)
  BY EmptySeq
<1> QED
  BY <1>1, <1>2 DEF Fit, Idle, Locals, PCs, Holding

LEMMA FitStep ==
  ASSUME HeadTypes, TypeInv, NEW o \in Operators, OperatorStep(o)
  PROVE  Fit(op'[o])
<1> DEFINE l == op[o]
<1>1. /\ op = [x \in Operators |-> op[x]] /\ Fit(l) /\ Mine(o) \in Estates
      /\ l \in Locals
  BY DEF HeadTypes, TypeInv, Fit
<1>2. selected \in [Estates -> Generations \cup {None}] /\ working \in [Estates -> Generations \cup {None}]
  BY DEF TypeInv, RecordTypes
<1>3. CASE ReadBefore(o)
  <2>1. PICK p \in Generations, b \in Promoting :
          op' = [op EXCEPT ![o].pc = "stage", ![o].gen = p, ![o].promote = b,
                           ![o].expWorking = working[Mine(o)],
                           ![o].expSelected = selected[Mine(o)]]
    BY <1>3 DEF ReadBefore
  <2>2. op'[o] = [l EXCEPT !.pc = "stage", !.gen = p, !.promote = b,
                           !.expWorking = working[Mine(o)], !.expSelected = selected[Mine(o)]]
    BY <1>1, <2>1
  <2>3. working[Mine(o)] \in Generations \cup {None} /\ selected[Mine(o)] \in Generations \cup {None}
    BY <1>1, <1>2
  <2>4. l.batch = 0
    BY <1>1, <1>3 DEF ReadBefore, At, Fit
  <2> QED
    BY <1>1, <2>2, <2>3, <2>4 DEF Fit, Locals, PCs, Holding
<1>4. CASE Stage(o)
  <2>1. CASE Goto(o, "start")
    <3>1. op'[o] = [l EXCEPT !.pc = "start"] /\ l.pc = "stage"
      BY <1>1, <1>4, <2>1 DEF Stage, Goto, At
    <3> QED
      BY <1>1, <3>1 DEF Fit, Locals, PCs, Holding
  <2>2. CASE Resume(o, "ownHeads", <<>>)
    BY <1>1, <2>2, FitMoves DEF Resume
  <2>3. CASE Return(o)
    BY <1>1, <2>3, FitMoves DEF Return
  <2> QED
    BY <1>4, <2>1, <2>2, <2>3 DEF Stage
<1>5. CASE StartWorking(o)
  <2>1. op'[o] = [l EXCEPT !.pc = "write", !.expWorking = None] /\ l.pc = "start"
    BY <1>1, <1>5 DEF StartWorking, At
  <2>2. l.batch = 0 /\ 0 < Batches /\ l.gen \in Generations
    BY <1>1, <2>1 DEF Fit, Holding
  <2>3. op'[o] \in Locals
    BY <1>1, <2>1, <2>2 DEF Locals, PCs
  <2>4. op'[o].pc = "write" /\ op'[o].batch = l.batch /\ op'[o].gen = l.gen
    BY <1>1, <2>1 DEF Locals
  <2> QED
    BY <2>2, <2>3, <2>4 DEF Fit
<1>6. CASE WorkingChanged(o) \/ MarkFailed(o) \/ PromotionRefused(o) \/ Leave(o)
  BY <1>1, <1>6, FitMoves DEF WorkingChanged, MarkFailed, PromotionRefused, Leave, Return
<1>7. CASE WriteBatch(o)
  <2>1. op'[o] = [l EXCEPT !.pc = "count", !.batch = l.batch + 1] /\ l.pc = "write"
    BY <1>1, <1>7 DEF WriteBatch, At
  <2>2. l.batch + 1 \in 0..Batches
    BY <1>1, <2>1 DEF Fit, Locals
  <2>3. op'[o] \in Locals
    BY <1>1, <2>1, <2>2 DEF Locals, PCs
  <2>4. op'[o].pc = "count" /\ op'[o].gen = l.gen /\ l.gen \in Generations
    BY <1>1, <2>1 DEF Fit, Locals, Holding
  <2> QED
    BY <2>3, <2>4 DEF Fit
<1>8. CASE CountBatch(o)
  <2>1. /\ l.pc = "count"
        /\ op'[o] = [l EXCEPT !.pc = IF l.batch = Batches THEN "verify" ELSE "write"]
    BY <1>1, <1>8 DEF CountBatch, Goto, At
  <2>2. l.batch \in 0..Batches
    BY <1>1 DEF Locals
  <2>3. CASE l.batch = Batches
    <3>1. op'[o] = [l EXCEPT !.pc = "verify"]
      BY <2>1, <2>3
    <3> QED
      BY <1>1, <2>1, <3>1 DEF Fit, Locals, PCs, Holding
  <2>4. CASE l.batch # Batches
    <3>1. op'[o] = [l EXCEPT !.pc = "write"] /\ l.batch < Batches
      BY <2>1, <2>2, <2>4
    <3> QED
      BY <1>1, <2>1, <3>1 DEF Fit, Locals, PCs, Holding
  <2> QED
    BY <2>3, <2>4
<1>9. CASE Verify(o)
  <2>1. CASE RowsMatch(Gen(o))
    <3>1. op'[o] = [l EXCEPT !.pc = "ready", !.batch = 0] /\ l.pc = "verify"
      BY <1>1, <1>9, <2>1 DEF Verify, At
    <3>0. 0 \in 0..Batches
      OBVIOUS
    <3>2. op'[o] \in Locals
      BY <1>1, <3>0, <3>1 DEF Locals, PCs
    <3>3. op'[o].pc = "ready" /\ op'[o].gen = l.gen /\ l.gen \in Generations
      BY <1>1, <3>1 DEF Fit, Locals, Holding
    <3> QED
      BY <3>2, <3>3 DEF Fit
  <2>2. CASE Fail(o)
    BY <1>1, <1>9, <2>2, FitMoves DEF Verify, Fail, At, Fit, Holding, Gen
  <2> QED
    BY <1>9, <2>1, <2>2 DEF Verify
<1>10. CASE MarkReady(o)
  <2>1. CASE Goto(o, "promote")
    <3>1. op'[o] = [l EXCEPT !.pc = "promote"] /\ l.pc = "ready"
      BY <1>1, <1>10, <2>1 DEF MarkReady, Goto, At
    <3> QED
      BY <1>1, <3>1 DEF Fit, Locals, PCs, Holding
  <2>2. CASE Return(o)
    BY <1>1, <2>2, FitMoves DEF Return
  <2> QED
    BY <1>10, <2>1, <2>2 DEF MarkReady
<1>11. CASE StagingFails(o)
  <2>1. Gen(o) \in Generations
    BY <1>1, <1>11 DEF StagingFails, Fit, Holding, Gen
  <2> QED
    BY <1>1, <1>11, <2>1, FitMoves DEF StagingFails, Fail
<1>12. CASE Promote(o)
  BY <1>1, <1>12, FitMoves DEF Promote, Resume
<1>13. CASE OwnHeads(o)
  <2> DEFINE own == {selected[Mine(o)], working[Mine(o)]} \ {None}
  <2>1. CASE own = {}
    BY <1>1, <1>13, <2>1, FitMoves DEF OwnHeads, Return
  <2>2. CASE own # {}
    <3>1. op'[o] = [l EXCEPT !.pc = "allHeads", !.protected = own] /\ l.pc = "ownHeads"
      BY <1>1, <1>13, <2>2 DEF OwnHeads, At
    <3>2. own \subseteq Generations
      BY <1>1, <1>2
    <3> QED
      BY <1>1, <3>1, <3>2 DEF Fit, Locals, PCs, Holding
  <2> QED
    BY <2>1, <2>2
<1>14. CASE AllHeads(o)
  <2>1. op'[o] = [l EXCEPT !.pc = "candidates", !.protected = Spared(o)] /\ l.pc = "allHeads"
    BY <1>1, <1>14 DEF AllHeads, At
  <2>2. Spared(o) \subseteq Generations
    BY <1>1, <1>2 DEF Spared, HeadIds, Fit, Locals
  <2> QED
    BY <1>1, <2>1, <2>2 DEF Fit, Locals, PCs, Holding
<1>15. CASE ListCandidates(o)
  <2> DEFINE d == Prunable(Listing(Candidates(o)))
  <2>1. d \in Seq(Generations)
    BY <1>1, CandidatesListed
  <2>2. op'[o] = [Idle(Mine(o)) EXCEPT !.pc = IF d = <<>> THEN "pruned" ELSE "deleteRows", !.doomed = d]
    BY <1>1, <1>15 DEF ListCandidates, Resume
  <2> HIDE DEF d
  <2>3. CASE d = <<>>
    BY <1>1, <2>2, <2>3, FitMoves
  <2>4. CASE d # <<>>
    <3>1. op'[o] = [Idle(Mine(o)) EXCEPT !.pc = "deleteRows", !.doomed = d]
      BY <2>2, <2>4
    <3>2. Fit([Idle(Mine(o)) EXCEPT !.pc = "deleteRows", !.doomed = d])
      BY <1>1, <2>1, <2>4, FitMoves
    <3> QED
      BY <3>1, <3>2
  <2> QED
    BY <2>3, <2>4
<1>16. CASE DeleteRows(o)
  <2>1. (op' = op \/ op'[o] = [l EXCEPT !.pc = "deleteRecord"]) /\ l.pc = "deleteRows"
    BY <1>1, <1>16 DEF DeleteRows, Goto, At
  <2> QED
    BY <1>1, <2>1 DEF Fit, Locals, PCs, Holding
<1>17. CASE DeleteRecord(o)
  <2> DEFINE d == l.doomed
  <2>1. /\ op'[o] = [l EXCEPT !.pc = IF Len(d) = 1 THEN "pruned" ELSE "deleteRows", !.doomed = Tail(d)]
        /\ l.pc = "deleteRecord"
    BY <1>1, <1>17 DEF DeleteRecord, At
  <2>2. d \in Seq(Generations) /\ d # <<>>
    BY <1>1, <2>1 DEF Fit, Locals
  <2> HIDE DEF d
  <2>3. Tail(d) \in Seq(Generations) /\ (Len(d) = 1 <=> Tail(d) = <<>>)
    <3>1. Tail(d) \in Seq(Generations) /\ Len(Tail(d)) = Len(d) - 1 /\ Len(d) \in Nat
      BY <2>2, HeadTailProperties, LenProperties
    <3>2. Tail(d) = <<>> <=> Len(Tail(d)) = 0
      BY <3>1, EmptySeq
    <3> QED
      BY <3>1, <3>2
  <2> QED
    BY <1>1, <2>1, <2>3 DEF Fit, Locals, PCs, Holding
<1> QED
  BY <1>3, <1>4, <1>5, <1>6, <1>7, <1>8, <1>9, <1>10, <1>11, <1>12, <1>13, <1>14, <1>15, <1>16, <1>17
     DEF OperatorStep

\* The operators that only look, or move.
Looking(o) ==
  \/ ReadBefore(o) \/ Stage(o) \/ WorkingChanged(o) \/ Verify(o) \/ StagingFails(o)
  \/ PromotionRefused(o) \/ OwnHeads(o) \/ AllHeads(o) \/ ListCandidates(o) \/ Leave(o)

\* Looking changes nothing, and writing or deleting rows no record.
LEMMA LookingKeeps ==
  ASSUME NEW o \in Operators
  PROVE  /\ Looking(o) => UNCHANGED <<heads, record, rows>>
         /\ WriteBatch(o) \/ DeleteRows(o) => UNCHANGED <<heads, record>>
BY DEF Looking, ReadBefore, Stage, WorkingChanged, Verify, StagingFails, PromotionRefused,
   OwnHeads, AllHeads, ListCandidates, Leave, WriteBatch, DeleteRows

LEMMA OrderingStep ==
  ASSUME HeadTypes, TypeInv, NEW o \in Operators, OperatorStep(o)
  PROVE  Ordering'
<1> DEFINE p == Gen(o)
<1>0. /\ status \in [Generations -> Statuses]
      /\ op[o].pc \in Holding => p \in Generations
      /\ Orders(newer, Records) /\ IsFiniteSet(Records)
  BY DEF HeadTypes, TypeInv, Ordering
<1>1. CASE UNCHANGED <<status, newer>>
  BY <1>0, <1>1 DEF Ordering, Records, Exists
<1>2. CASE StartWorking(o)
  <2>1. p \in Generations /\ status' = [status EXCEPT ![p] = "working"]
    BY <1>0, <1>2 DEF StartWorking, At, Holding
  <2>2. Records' = Records \cup {p}
    BY <1>0, <2>1 DEF Records, Exists
  <2>3. IsFiniteSet(Records')
    BY <1>0, <2>2, FS_AddElement
  <2>4. CASE Exists(p)
    BY <1>0, <1>2, <2>1, <2>2, <2>3, <2>4 DEF StartWorking, Ordering, Records, Orders
  <2>5. CASE ~Exists(p)
    <3>1. newer' = Foremost(p)
      BY <1>2, <2>5 DEF StartWorking
    <3> QED
      BY <1>0, <2>1, <2>2, <2>3, <3>1, ForemostOrders DEF Ordering
  <2> QED
    BY <2>4, <2>5
<1>3. CASE MarkReady(o)
  <2>1. p \in Generations /\ Exists(p) /\ status' = [status EXCEPT ![p] = "ready"]
    BY <1>0, <1>3 DEF MarkReady, At, Holding
  <2>2. Records' = Records /\ Records \cup {p} = Records
    BY <1>0, <2>1 DEF Records, Exists
  <2>3. newer' = newer \/ newer' = Foremost(p)
    BY <1>3 DEF MarkReady
  <2> QED
    BY <1>0, <2>1, <2>2, <2>3, ForemostOrders DEF Ordering
<1>4. CASE MarkFailed(o)
  <2>1. Records' = Records
    BY <1>0, <1>4 DEF MarkFailed, Records, Exists
  <2> QED
    BY <1>0, <1>4, <2>1 DEF MarkFailed, Ordering
<1>5. CASE Promote(o)
  <2>1. /\ p \in Generations /\ Exists(p) /\ newer' = Foremost(p)
        /\ status' = Relabelled(selected[Mine(o)], p)
    BY <1>0, <1>5 DEF Promote, Promotable, At, Holding, Exists
  <2>2. Records' = Records /\ Records \cup {p} = Records
    BY <1>0, <2>1 DEF Records, Exists, Relabelled
  <2> QED
    BY <1>0, <2>1, <2>2, ForemostOrders DEF Ordering
<1>6. CASE DeleteRecord(o)
  <2> DEFINE q == Head(op[o].doomed)
  <2>1. status' = [status EXCEPT ![q] = "absent"] /\ newer' = Without(q)
    BY <1>6 DEF DeleteRecord
  <2>2. Records' = Records \ {q}
    BY <1>0, <2>1 DEF Records, Exists
  <2>3. IsFiniteSet(Records')
    BY <1>0, <2>2, FS_RemoveElement
  <2> QED
    BY <1>0, <2>1, <2>2, <2>3, WithoutOrders DEF Ordering
<1>7. CASE CountBatch(o)
  BY <1>1, <1>7 DEF CountBatch
<1>8. CASE Looking(o) \/ WriteBatch(o) \/ DeleteRows(o)
  BY <1>1, <1>8, LookingKeeps DEF record
<1> QED
  BY <1>2, <1>3, <1>4, <1>5, <1>6, <1>7, <1>8 DEF OperatorStep, Looking

LEMMA RecordStep ==
  ASSUME HeadTypes, HeadTypes', TypeInv, NEW o \in Operators, OperatorStep(o)
  PROVE  RecordTypes' /\ Owned'
<1> DEFINE p == Gen(o)
           e == Mine(o)
<1>0. /\ RecordTypes /\ Owned /\ Fit(op[o]) /\ e \in Estates
      /\ op[o].pc \in Holding => p \in Generations
      /\ selected' \in [Estates -> Generations \cup {None}]
      /\ status' \in [Generations -> Statuses]
  BY DEF HeadTypes, TypeInv
<1> USE DEF RecordTypes, Owned, Records, Exists
<1>1. CASE Looking(o)
  BY <1>0, <1>1, LookingKeeps DEF heads, record
<1>2. CASE StartWorking(o)
  <2>1. p \in Generations
    BY <1>0, <1>2 DEF StartWorking, At, Holding
  <2> QED
    BY <1>0, <1>2, <2>1 DEF StartWorking
<1>3. CASE WriteBatch(o)
  <2>1. p \in Generations /\ op[o].batch + 1 \in Content
    <3>1. op[o].batch < Batches /\ op[o].batch \in 0..Batches
      BY <1>0, <1>3 DEF WriteBatch, At, Fit, Locals
    <3> QED
      BY <1>0, <1>3, <3>1 DEF WriteBatch, At, Holding, Content
  <2> QED
    BY <1>0, <1>3, <2>1 DEF WriteBatch, heads, record
<1>4. CASE CountBatch(o)
  <2>1. op[o].batch \in 0..Batches
    BY <1>0 DEF Fit, Locals
  <2> QED
    BY <1>0, <1>4, <2>1 DEF CountBatch, heads
<1>5. CASE MarkReady(o)
  BY <1>0, <1>5 DEF MarkReady, heads
<1>6. CASE MarkFailed(o)
  BY <1>0, <1>6 DEF MarkFailed, heads
<1>7. CASE Promote(o)
  <2>1. p \in Generations /\ status[p] = "ready"
    BY <1>0, <1>7 DEF Promote, Promotable, At, Holding
  <2>2. \A q \in Generations :
          status'[q] = IF q = p THEN "selected"
                       ELSE IF q = selected[e] /\ Exists(q) THEN "superseded" ELSE status[q]
    BY <1>7 DEF Promote, Relabelled
  <2>3. \A q \in Generations : status[q] # "absent" => status'[q] # "absent"
    BY <2>2
  <2> QED
    BY <1>0, <1>7, <2>1, <2>3 DEF Promote
<1>8. CASE DeleteRows(o)
  BY <1>0, <1>8 DEF DeleteRows, heads, record
<1>9. CASE DeleteRecord(o)
  <2> DEFINE q == Head(op[o].doomed)
  <2>1. q \in Generations
    BY <1>0, <1>9, HeadTailProperties DEF DeleteRecord, At, Fit, Locals
  <2>2. 0 \in 0..Batches
    OBVIOUS
  <2>3. /\ status' = [status EXCEPT ![q] = "absent"] /\ owner' = [owner EXCEPT ![q] = None]
        /\ processed' = [processed EXCEPT ![q] = 0] /\ chosen' = chosen \ {q}
        /\ UNCHANGED <<heads, rows>>
    BY <1>9 DEF DeleteRecord
  <2> QED
    BY <1>0, <2>1, <2>2, <2>3 DEF heads
<1> QED
  BY <1>1, <1>2, <1>3, <1>4, <1>5, <1>6, <1>7, <1>8, <1>9 DEF OperatorStep, Looking

LEMMA TypeInvInit == Init => TypeInv
<1> SUFFICES ASSUME Init PROVE TypeInv
  OBVIOUS
<1>1. PICK f \in [Operators -> Estates] : op = [o \in Operators |-> Idle(f[o])]
  BY DEF Init
<1>2. \A o \in Operators : Fit(op[o])
  BY <1>1, FitMoves
<1>3. Records = {}
  BY DEF Init, Records, Exists
<1>4. Ordering
  BY <1>3, FS_EmptySet DEF Init, Ordering, Orders
<1>5. RecordTypes /\ Owned
  <2>1. 0 \in 0..Batches
    OBVIOUS
  <2> QED
    BY <2>1 DEF Init, RecordTypes, Owned, Statuses
<1> QED
  BY <1>2, <1>4, <1>5 DEF TypeInv

LEMMA TypeInvNext == LabelInv /\ LabelInv' /\ TypeInv /\ [Next]_vars => TypeInv'
<1> SUFFICES ASSUME LabelInv, LabelInv', TypeInv, [Next]_vars
             PROVE  TypeInv'
  OBVIOUS
<1> USE DEF LabelInv
<1>1. CASE UNCHANGED vars
  BY <1>1 DEF vars, TypeInv, RecordTypes, Owned, Ordering, Records, Exists
<1>2. ASSUME NEW o \in Operators, OperatorStep(o)
      PROVE  TypeInv'
  <2>1. ASSUME NEW x \in Operators PROVE Fit(op'[x])
    BY <1>2, FitStep, OthersKeep DEF TypeInv
  <2>2. \A x \in Operators : Fit(op[x])'
    BY <2>1
  <2> QED
    BY <1>2, <2>2, OrderingStep, RecordStep DEF TypeInv
<1> QED
  BY <1>1, <1>2 DEF Next

LEMMA TypesHold == Spec => [](LabelInv /\ TypeInv)
<1>1. Init => LabelInv /\ TypeInv
  BY InitLabelInv, TypeInvInit
<1>2. LabelInv /\ TypeInv /\ [Next]_vars => (LabelInv /\ TypeInv)'
  BY NextLabelInv, TypeInvNext
<1> QED
  BY <1>1, <1>2, PTL DEF Spec

\* The heads, the records, their rows and the operators' locals keep their
\* types, and the records one strict order, with concurrent prunes too.
THEOREM TypeCorrect == Spec => []TypeOK
BY TypesHold, TypeInvTypes, PTL

-----------------------------------------------------------------------------
(* What a prune spares, where prunes run alone. *)

Doomed(o) == {op[o].doomed[i] : i \in DOMAIN op[o].doomed}
OwnedBy(e) == {p \in Generations : owner[p] = e}
Kept(o) == (OwnedBy(Mine(o)) \ HeadIds) \ Doomed(o)

\* From the reading of the heads on a prune knows every head, dooms none, and
\* leaves Retain of the other generations of its estate.
Spares(o) ==
  /\ At(o, "allHeads") => op[o].protected \subseteq HeadIds \ {None}
  /\ At(o, "candidates") => op[o].protected = HeadIds \ {None}
  /\ op[o].pc \in {"deleteRows", "deleteRecord"} => Doomed(o) \cap HeadIds = {}
  /\ op[o].pc \in {"deleteRows", "deleteRecord", "pruned"} =>
       IsFiniteSet(Kept(o)) /\ Cardinality(Kept(o)) <= Retain

\* What was verified is whole until it is promoted, and then while it is selected.
Whole ==
  /\ \A o \in Operators : op[o].pc \in {"ready", "promote"} => rows[Gen(o)] = Content
  /\ SelectedIsIntact

PruneInv == (\A o \in Operators : Spares(o)) /\ Whole

\* While one prunes, the others can only leave.
LEMMA OthersLeave ==
  ASSUME PrunesAlone, HeadTypes, Alone, NEW o \in Operators, OperatorStep(o),
         NEW x \in Operators, x # o, Pruning(x)
  PROVE  UNCHANGED <<heads, record, rows>> /\ op'[x] = op[x]
<1>1. op[o].pc \in Calm
  BY DEF Alone
<1>2. ~ReadBefore(o) /\ ~OwnHeads(o)
  BY DEF ReadBefore, OwnHeads, Pruning
<1>3. Leave(o)
  BY <1>1, <1>2 DEF OperatorStep, Calm, At, Stage, StartWorking, WorkingChanged, WriteBatch,
     CountBatch, Verify, MarkReady, StagingFails, MarkFailed, Promote, PromotionRefused, AllHeads,
     ListCandidates, DeleteRows, DeleteRecord
<1> QED
  BY <1>3, OthersKeep DEF Leave

\* The listing of a prune: the heads are spared and Retain others kept.
LEMMA ListingSpares ==
  ASSUME HeadTypes, TypeInv, NEW o \in Operators, Spares(o), ListCandidates(o)
  PROVE  Spares(o)'
<1> DEFINE C == Candidates(o)
           d == Prunable(Listing(C))
<1>1. /\ C \in SUBSET Records /\ IsFiniteSet(C) /\ Mine(o) \in Estates
      /\ op = [x \in Operators |-> op[x]] /\ Orders(newer, Records)
  BY CandidatesListed DEF HeadTypes, TypeInv, Ordering
<1>2. C = OwnedBy(Mine(o)) \ HeadIds
  BY DEF Spares, ListCandidates, At, Candidates, OwnedBy
<1>3. {d[i] : i \in DOMAIN d} = {p \in C : Rank(C, p) >= Retain}
  BY <1>1, PrunableIs
<1>4. LET kept == {p \in C : ~(Rank(C, p) >= Retain)}
      IN  IsFiniteSet(kept) /\ Cardinality(kept) <= Retain
  BY <1>1, KeptAreFew
<1>5. op'[o] = [Idle(Mine(o)) EXCEPT !.pc = IF d = <<>> THEN "pruned" ELSE "deleteRows", !.doomed = d]
  BY <1>1 DEF ListCandidates, Resume
<1>6. /\ op'[o].doomed = d /\ op'[o].estate = Mine(o)
      /\ op'[o].pc \in {"pruned", "deleteRows"}
  BY <1>5 DEF Idle
<1>7. UNCHANGED <<heads, record>>
  BY DEF ListCandidates
<1>8. HeadIds' = HeadIds /\ Mine(o)' = Mine(o) /\ OwnedBy(Mine(o))' = OwnedBy(Mine(o))
  BY <1>6, <1>7 DEF HeadIds, heads, record, Mine, OwnedBy
<1> HIDE DEF C, d
<1>9. Doomed(o)' = {p \in C : Rank(C, p) >= Retain}
  BY <1>3, <1>6 DEF Doomed
<1>10. Kept(o)' = {p \in C : ~(Rank(C, p) >= Retain)}
  BY <1>2, <1>8, <1>9 DEF Kept
<1>11. Doomed(o)' \cap HeadIds' = {}
  BY <1>2, <1>8, <1>9
<1> QED
  BY <1>4, <1>6, <1>10, <1>11 DEF Spares, At

\* A record deleted was doomed: the others of the estate are as many as before.
LEMMA DeletingSpares ==
  ASSUME HeadTypes, TypeInv, NEW o \in Operators, Spares(o), DeleteRecord(o)
  PROVE  Spares(o)'
<1> DEFINE d == op[o].doomed
           q == Head(d)
<1>1. op = [x \in Operators |-> op[x]] /\ op[o] \in Locals /\ op[o].pc = "deleteRecord" /\ d # <<>>
  BY DEF HeadTypes, TypeInv, Fit, DeleteRecord, At
<1>2. d \in Seq(Generations) /\ d # <<>>
  BY <1>1 DEF Locals
<1>3. /\ op'[o] = [op[o] EXCEPT !.pc = IF Len(d) = 1 THEN "pruned" ELSE "deleteRows", !.doomed = Tail(d)]
      /\ owner' = [owner EXCEPT ![q] = None] /\ UNCHANGED heads
  BY <1>1 DEF DeleteRecord
<1>4. /\ op'[o].doomed = Tail(d) /\ op'[o].estate = op[o].estate
      /\ op'[o].pc \in {"pruned", "deleteRows"}
  BY <1>1, <1>3 DEF Locals
<1>5. HeadIds' = HeadIds /\ Mine(o)' = Mine(o)
  BY <1>3, <1>4 DEF HeadIds, heads, Mine
<1>6. /\ q \in Generations /\ Tail(d) \in Seq(Generations) /\ Len(Tail(d)) = Len(d) - 1 /\ Len(d) \in Nat
      /\ \A i \in 1..Len(Tail(d)) : Tail(d)[i] = d[i + 1]
      /\ DOMAIN d = 1..Len(d) /\ DOMAIN Tail(d) = 1..Len(Tail(d)) /\ q = d[1]
  BY <1>2, HeadTailProperties, LenProperties
<1>7. Doomed(o)' = {Tail(d)[i] : i \in 1..Len(Tail(d))}
  <2>1. Doomed(o)' = {op'[o].doomed[i] : i \in DOMAIN op'[o].doomed}
    BY DEF Doomed
  <2>2. op'[o].doomed = Tail(d) /\ DOMAIN Tail(d) = 1..Len(Tail(d))
    BY <1>4, <1>6
  <2> HIDE DEF d
  <2> QED
    BY <2>1, <2>2, Zenon
<1>8. Doomed(o)' \subseteq Doomed(o) /\ Doomed(o) \subseteq Doomed(o)' \cup {q}
  <2> HIDE DEF d, q
  <2>1. Doomed(o) = {d[i] : i \in 1..Len(d)}
    BY <1>6 DEF Doomed, d
  <2>2. ASSUME NEW i \in 1..Len(d)
        PROVE  d[i] = q \/ \E j \in 1..Len(Tail(d)) : Tail(d)[j] = d[i]
    <3>1. CASE i = 1
      BY <1>6, <3>1
    <3>2. CASE i # 1
      <4>1. i - 1 \in 1..Len(Tail(d)) /\ Tail(d)[i - 1] = d[(i - 1) + 1] /\ (i - 1) + 1 = i
        BY <1>6, <3>2
      <4> QED
        BY <4>1
    <3> QED
      BY <3>1, <3>2
  <2>3. ASSUME NEW i \in 1..Len(Tail(d)) PROVE i + 1 \in 1..Len(d) /\ Tail(d)[i] = d[i + 1]
    BY <1>6
  <2> QED
    BY <1>7, <2>1, <2>2, <2>3
<1>9. OwnedBy(Mine(o))' \subseteq OwnedBy(Mine(o)) \ {q}
  <2>1. Mine(o) # None /\ owner \in [Generations -> Estates \cup {None}]
    BY DEF HeadTypes, TypeInv, RecordTypes
  <2> QED
    BY <1>3, <1>5, <1>6, <2>1 DEF OwnedBy
<1>10. Kept(o)' \in SUBSET Kept(o)
  BY <1>5, <1>8, <1>9 DEF Kept
<1>11. IsFiniteSet(Kept(o)) /\ Cardinality(Kept(o)) <= Retain
  BY <1>1 DEF Spares
<1>12. IsFiniteSet(Kept(o)') /\ Cardinality(Kept(o)') <= Retain
  <2>1. IsFiniteSet(Kept(o)') /\ Cardinality(Kept(o)') <= Cardinality(Kept(o))
    BY <1>10, <1>11, FS_Subset
  <2>2. Cardinality(Kept(o)') \in Nat /\ Cardinality(Kept(o)) \in Nat
    BY <1>11, <2>1, FS_CardinalityType
  <2> QED
    BY <1>11, <2>1, <2>2
<1>13. Doomed(o)' \cap HeadIds' = {}
  BY <1>1, <1>5, <1>8 DEF Spares
<1> QED
  BY <1>4, <1>12, <1>13 DEF Spares, At

LEMMA SparesStep ==
  ASSUME PrunesAlone, LabelInv, TypeInv, Alone, NEW x \in Operators, Spares(x),
         NEW o \in Operators, OperatorStep(o)
  PROVE  Spares(x)'
<1> USE DEF LabelInv
<1>0. op = [y \in Operators |-> op[y]] /\ op[o] \in Locals /\ Mine(o) \in Estates
  BY DEF HeadTypes, TypeInv, Fit
<1>1. CASE ~Pruning(x)'
  <2>1. op'[x].pc \notin {"allHeads", "candidates", "deleteRows", "deleteRecord", "pruned"}
    BY <1>1 DEF Pruning
  <2> QED
    BY <2>1 DEF Spares, At
<1>2. CASE x # o /\ Pruning(x)'
  <2>1. op'[x] = op[x] /\ Pruning(x)
    BY <1>2, OthersKeep DEF Pruning
  <2>2. UNCHANGED <<heads, record, rows>>
    BY <1>2, <2>1, OthersLeave
  <2> QED
    BY <2>1, <2>2 DEF Spares, At, Kept, Doomed, OwnedBy, HeadIds, Mine, heads, record
<1>3. CASE x = o /\ OwnHeads(o) /\ Pruning(x)'
  <2> DEFINE own == {selected[Mine(o)], working[Mine(o)]} \ {None}
  <2>1. own # {}
    <3>1. ~Return(o)
      BY <1>0, <1>3 DEF Return, Pruning, Idle
    <3> QED
      BY <1>3, <3>1 DEF OwnHeads
  <2>2. op'[o].pc = "allHeads" /\ op'[o].protected = own
    <3>1. op' = [op EXCEPT ![o].pc = "allHeads", ![o].protected = own]
      BY <1>3, <2>1 DEF OwnHeads
    <3> HIDE DEF own
    <3> QED
      BY <1>0, <3>1 DEF Locals
  <2>3. HeadIds' = HeadIds /\ own \subseteq HeadIds \ {None}
    BY <1>0, <1>3 DEF OwnHeads, HeadIds, heads
  <2> QED
    BY <1>3, <2>2, <2>3 DEF Spares, At
<1>4. CASE x = o /\ AllHeads(o)
  <2>1. op'[o].pc = "candidates" /\ op'[o].protected = Spared(o)
    BY <1>0, <1>4 DEF AllHeads, Locals
  <2>2. HeadIds' = HeadIds /\ Spared(o) = HeadIds \ {None}
    BY <1>4 DEF AllHeads, HeadIds, heads, Spared, Spares
  <2> QED
    BY <1>4, <2>1, <2>2 DEF Spares, At
<1>5. CASE x = o /\ ListCandidates(o)
  BY <1>5, ListingSpares
<1>6. CASE x = o /\ DeleteRows(o)
  <2>1. /\ op[o].pc = "deleteRows" /\ op'[o].pc \in {"deleteRows", "deleteRecord"}
        /\ op'[o].doomed = op[o].doomed /\ op'[o].estate = op[o].estate
    BY <1>0, <1>6 DEF DeleteRows, Goto, At, Locals
  <2>2. UNCHANGED <<heads, record>>
    BY <1>6, LookingKeeps
  <2>3. Doomed(o)' = Doomed(o)
    BY <2>1 DEF Doomed
  <2>4. Mine(o)' = Mine(o) /\ HeadIds' = HeadIds
    BY <2>1, <2>2 DEF Mine, HeadIds, heads
  <2>5. Kept(o)' = Kept(o)
    BY <2>2, <2>3, <2>4 DEF Kept, OwnedBy, record
  <2> QED
    BY <1>6, <2>1, <2>3, <2>4, <2>5 DEF Spares, At
<1>7. CASE x = o /\ DeleteRecord(o)
  BY <1>7, DeletingSpares
<1>8. CASE x = o /\ Leave(o)
  BY <1>0, <1>1, <1>8 DEF Leave, Return, Idle, Pruning
<1>9. CASE x = o /\ Pruning(x)' /\ ~OwnHeads(o)
  <2>1. Pruning(o)
    BY <1>9, PlaceAfter
  <2>2. AllHeads(o) \/ ListCandidates(o) \/ DeleteRows(o) \/ DeleteRecord(o) \/ Leave(o)
    BY <1>9, <2>1 DEF OperatorStep, Pruning, At, ReadBefore, Stage, StartWorking, WorkingChanged,
       WriteBatch, CountBatch, Verify, MarkReady, StagingFails, MarkFailed, Promote,
       PromotionRefused
  <2> QED
    BY <1>4, <1>5, <1>6, <1>7, <1>8, <1>9, <2>2
<1> QED
  BY <1>1, <1>2, <1>3, <1>9

\* A generation comes to be ready or promoted only through its verification.
LEMMA VerifiedFirst ==
  ASSUME HeadTypes, NEW o \in Operators, OperatorStep(o), op'[o].pc \in {"ready", "promote"}
  PROVE  /\ UNCHANGED <<selected, rows>> /\ op'[o].gen = op[o].gen
         /\ op[o].pc = "ready" \/ RowsMatch(Gen(o))
<1>1. op = [x \in Operators |-> op[x]] /\ DOMAIN op[o] = LocalNames
  BY DEF HeadTypes
<1>2. Verify(o) \/ MarkReady(o)
  <2>1. CASE Return(o)
    BY <1>1, <2>1 DEF Return, Idle
  <2>2. CASE Fail(o)
    BY <1>1, <2>2 DEF Fail, Idle
  <2>3. ASSUME NEW label, NEW doomed, Resume(o, label, doomed)
        PROVE  op'[o].pc = label
    BY <1>1, <2>3 DEF Resume, Idle
  <2>4. ASSUME NEW label, Goto(o, label)
        PROVE  op'[o].pc = label
    BY <1>1, <2>4 DEF Goto, LocalNames
  <2>5. CASE ReadBefore(o)
    BY <1>1, <2>5 DEF ReadBefore, LocalNames
  <2>6. CASE Stage(o)
    BY <2>1, <2>3, <2>4, <2>6 DEF Stage
  <2>7. CASE StartWorking(o)
    BY <1>1, <2>7 DEF StartWorking, LocalNames
  <2>8. CASE WriteBatch(o)
    BY <1>1, <2>8 DEF WriteBatch, LocalNames
  <2>9. CASE CountBatch(o)
    BY <2>4, <2>9 DEF CountBatch
  <2>10. CASE Promote(o)
    BY <2>3, <2>10 DEF Promote
  <2>11. CASE OwnHeads(o)
    BY <1>1, <2>1, <2>11 DEF OwnHeads, LocalNames
  <2>12. CASE AllHeads(o)
    BY <1>1, <2>12 DEF AllHeads, LocalNames
  <2>13. CASE ListCandidates(o)
    BY <2>3, <2>13 DEF ListCandidates
  <2>14. CASE DeleteRows(o)
    BY <2>4, <2>14 DEF DeleteRows, At
  <2>15. CASE DeleteRecord(o)
    BY <1>1, <2>15 DEF DeleteRecord, LocalNames
  <2> QED
    BY <2>1, <2>2, <2>5, <2>6, <2>7, <2>8, <2>9, <2>10, <2>11, <2>12, <2>13, <2>14, <2>15
       DEF OperatorStep, WorkingChanged, StagingFails, MarkFailed, PromotionRefused, Leave
<1>3. CASE Verify(o)
  <2>1. RowsMatch(Gen(o)) \/ Fail(o)
    BY <1>3 DEF Verify
  <2>2. ~Fail(o)
    BY <1>1 DEF Fail, Idle
  <2> QED
    BY <1>1, <1>3, <2>1, <2>2 DEF Verify, heads, LocalNames
<1>4. CASE MarkReady(o)
  <2>1. Goto(o, "promote") \/ Return(o)
    BY <1>4 DEF MarkReady
  <2>2. ~Return(o)
    BY <1>1 DEF Return, Idle
  <2> QED
    BY <1>1, <1>4, <2>1, <2>2 DEF MarkReady, Goto, heads, At, LocalNames
<1> QED
  BY <1>2, <1>3, <1>4

\* A prune deletes neither rows nor the record of what is selected.
LEMMA HeadsAreSpared ==
  ASSUME TypeInv, NEW o \in Operators, Spares(o), DeleteRows(o) \/ DeleteRecord(o),
         NEW e \in Estates
  PROVE  Head(op[o].doomed) # selected[e]
<1>1. op[o].pc \in {"deleteRows", "deleteRecord"}
  BY DEF DeleteRows, DeleteRecord, At
<1>2. op[o].doomed \in Seq(Generations) /\ op[o].doomed # <<>>
  BY <1>1 DEF TypeInv, Fit, Locals
<1>3. Head(op[o].doomed) \in Doomed(o)
  <2>1. Len(op[o].doomed) >= 1 /\ DOMAIN op[o].doomed = 1..Len(op[o].doomed)
        /\ Head(op[o].doomed) = op[o].doomed[1]
    BY <1>2, LenProperties, EmptySeq, HeadTailProperties
  <2> QED
    BY <2>1 DEF Doomed
<1> QED
  BY <1>1, <1>3 DEF Spares, HeadIds

LEMMA WholeStep ==
  ASSUME PrunesAlone, LabelInv, LabelInv', TypeInv, TypeInv', Alone, PruneInv,
         NEW o \in Operators, OperatorStep(o)
  PROVE  Whole'
<1> USE DEF LabelInv
<1>1. ASSUME NEW p \in Generations, rows[p] = Content, ~(DeleteRows(o) /\ p = Head(op[o].doomed))
      PROVE  rows'[p] = Content
  <2>1. CASE WriteBatch(o)
    <3>1. Content \subseteq rows'[p]
      BY <1>1, <2>1 DEF WriteBatch, TypeInv, RecordTypes
    <3> QED
      BY <3>1 DEF TypeInv, RecordTypes
  <2>2. CASE DeleteRows(o)
    BY <1>1, <2>2 DEF DeleteRows, TypeInv, RecordTypes
  <2>3. CASE ~WriteBatch(o) /\ ~DeleteRows(o)
    <3>1. UNCHANGED rows
      BY <2>3, LookingKeeps DEF OperatorStep, Looking, StartWorking, CountBatch, MarkReady,
         MarkFailed, Promote, DeleteRecord
    <3> QED
      BY <1>1, <3>1
  <2> QED
    BY <2>1, <2>2, <2>3
<1>2. ASSUME NEW x \in Operators, op'[x].pc \in {"ready", "promote"}
      PROVE  rows'[op'[x].gen] = Content
  <2>1. CASE x = o
    BY <1>2, <2>1, VerifiedFirst DEF PruneInv, Whole, RowsMatch, Gen
  <2>2. CASE x # o
    <3>1. op'[x] = op[x]
      BY <2>2, OthersKeep
    <3>2. Gen(x) \in Generations /\ rows[Gen(x)] = Content
      BY <1>2, <3>1 DEF PruneInv, Whole, HeadTypes, Holding
    <3>3. ~DeleteRows(o)
      BY <1>2, <2>2, <3>1 DEF Alone, Pruning, DeleteRows, At, Calm
    <3> QED
      BY <1>1, <3>1, <3>2, <3>3 DEF Gen
  <2> QED
    BY <2>1, <2>2
<1>3. ASSUME NEW e \in Estates, selected'[e] # None
      PROVE  Exists(selected[e])' /\ rows'[selected'[e]] = Content
  <2>1. CASE Promote(o) /\ e = Mine(o)
    <3>1. /\ Gen(o) \in Generations /\ op[o].pc = "promote"
          /\ selected' = [selected EXCEPT ![e] = Gen(o)] /\ UNCHANGED rows
          /\ status' = Relabelled(selected[e], Gen(o))
      BY <2>1 DEF Promote, At, HeadTypes, Holding
    <3>2. selected'[e] = Gen(o) /\ status'[Gen(o)] = "selected"
      BY <3>1 DEF Relabelled, HeadTypes
    <3>3. rows'[Gen(o)] = Content
      BY <3>1 DEF PruneInv, Whole
    <3> QED
      BY <3>2, <3>3 DEF Exists
  <2>2. CASE ~(Promote(o) /\ e = Mine(o))
    <3>1. selected'[e] = selected[e]
      <4>1. CASE Promote(o)
        BY <2>2, <4>1 DEF Promote, HeadTypes
      <4>2. CASE ~Promote(o)
        BY <4>2, LookingKeeps DEF OperatorStep, Looking, StartWorking, CountBatch, MarkReady,
           MarkFailed, DeleteRecord, heads
      <4> QED
        BY <4>1, <4>2
    <3> DEFINE p == selected[e]
    <3>2. p \in Generations /\ Exists(p) /\ rows[p] = Content
      BY <1>3, <3>1 DEF PruneInv, Whole, SelectedIsIntact, HeadTypes
    <3>3. DeleteRows(o) \/ DeleteRecord(o) => p # Head(op[o].doomed)
      BY HeadsAreSpared DEF PruneInv
    <3>4. rows'[p] = Content
      BY <1>1, <3>2, <3>3
    <3>5. status'[p] # "absent"
      <4>1. CASE DeleteRecord(o)
        BY <3>2, <3>3, <4>1 DEF DeleteRecord, HeadTypes, Exists
      <4>2. CASE ~DeleteRecord(o)
        BY <3>2, <4>2, RecordsStay DEF Exists
      <4> QED
        BY <4>1, <4>2
    <3> QED
      BY <3>1, <3>4, <3>5 DEF Exists
  <2> QED
    BY <2>1, <2>2
<1>4. \A x \in Operators : (op[x].pc \in {"ready", "promote"} => rows[Gen(x)] = Content)'
  BY <1>2 DEF Gen
<1>5. SelectedIsIntact'
  BY <1>3 DEF SelectedIsIntact
<1> QED
  BY <1>4, <1>5 DEF Whole

LEMMA PruneInvInit == Init => PruneInv
<1> SUFFICES ASSUME Init PROVE PruneInv
  OBVIOUS
<1>1. \A o \in Operators : op[o].pc = "idle"
  BY DEF Init, Idle
<1> QED
  BY <1>1 DEF Init, PruneInv, Spares, Whole, SelectedIsIntact, At

LEMMA PruneInvNext ==
  ASSUME PrunesAlone, LabelInv, LabelInv', TypeInv, TypeInv', Alone, PruneInv, [Next]_vars
  PROVE  PruneInv'
<1>1. CASE UNCHANGED vars
  <2>1. ASSUME NEW x \in Operators PROVE Spares(x)'
    <3>1. HeadIds' = HeadIds /\ op' = op /\ owner' = owner
      BY <1>1 DEF vars, HeadIds
    <3>2. Doomed(x)' = Doomed(x) /\ Kept(x)' = Kept(x)
      BY <3>1 DEF Doomed, Kept, OwnedBy, Mine
    <3> QED
      BY <3>1, <3>2 DEF PruneInv, Spares, At
  <2>2. Whole'
    BY <1>1 DEF vars, PruneInv, Whole, SelectedIsIntact, Gen, Exists
  <2> QED
    BY <2>1, <2>2 DEF PruneInv
<1>2. ASSUME NEW o \in Operators, OperatorStep(o)
      PROVE  PruneInv'
  <2>1. ASSUME NEW x \in Operators PROVE Spares(x)'
    BY <1>2, SparesStep DEF PruneInv
  <2> QED
    BY <1>2, <2>1, WholeStep DEF PruneInv
<1> QED
  BY <1>1, <1>2 DEF Next

LEMMA PrunesHold ==
  ASSUME PrunesAlone
  PROVE  Spec => [](LabelInv /\ TypeInv /\ RowsInv /\ PruneInv)
<1>1. Init => LabelInv /\ TypeInv /\ RowsInv /\ PruneInv
  BY InitLabelInv, TypeInvInit, RowsInvInit, PruneInvInit
<1>2. LabelInv /\ TypeInv /\ RowsInv /\ PruneInv /\ [Next]_vars
        => (LabelInv /\ TypeInv /\ RowsInv /\ PruneInv)'
  <2> SUFFICES ASSUME LabelInv, TypeInv, RowsInv, PruneInv, [Next]_vars
               PROVE  (LabelInv /\ TypeInv /\ RowsInv /\ PruneInv)'
    OBVIOUS
  <2>1. LabelInv'
    BY NextLabelInv
  <2>2. TypeInv'
    BY <2>1, TypeInvNext
  <2>3. RowsInv'
    BY <2>1, RowsInvNext
  <2>4. PruneInv'
    BY <2>1, <2>2, PruneInvNext DEF RowsInv
  <2> QED
    BY <2>1, <2>2, <2>3, <2>4
<1> QED
  BY <1>1, <1>2, PTL DEF Spec

\* Where no prune runs beside a staging or a promotion, what an estate has
\* selected keeps its record and all its rows: through other operators that
\* stage the same contents again, through failures and half-done prunes.
THEOREM SelectedStaysIntact ==
  ASSUME PrunesAlone
  PROVE  Spec => []SelectedIsIntact
<1>1. PruneInv => SelectedIsIntact
  BY DEF PruneInv, Whole
<1> QED
  BY <1>1, PrunesHold, PTL

\* There a prune that has run to its end leaves an estate, besides what some
\* head names, no more than the generations it is to retain.
THEOREM RetentionHolds ==
  ASSUME PrunesAlone
  PROVE  Spec => []RetentionIsBounded
<1>1. TypeInv /\ PruneInv => RetentionIsBounded
  <2> SUFFICES ASSUME TypeInv, PruneInv, NEW o \in Operators, At(o, "pruned")
               PROVE  Cardinality({p \in Generations : owner[p] = Mine(o)} \ HeadIds) <= Retain
    BY DEF RetentionIsBounded
  <2>1. op[o].doomed = <<>>
    BY DEF TypeInv, Fit, At
  <2>2. Kept(o) = {p \in Generations : owner[p] = Mine(o)} \ HeadIds
    BY <2>1 DEF Kept, OwnedBy, Doomed
  <2> QED
    BY <2>2 DEF PruneInv, Spares, At
<1> QED
  BY <1>1, PrunesHold, PTL
-----------------------------------------------------------------------------
(* The heads implement EstateRegister. *)

Swapping == {"stage", "start", "write", "count", "verify", "ready", "promote"}

\* What an operator expects comes from its reading of the heads, and goes with
\* its promotion, or with whatever ends its staging.
LEMMA ExpectedStep ==
  ASSUME HeadTypes, NEW o \in Operators, OperatorStep(o)
  PROVE  \/ Expected(o)' = Expected(o) /\ ~Promote(o)
         \/ /\ ReadBefore(o) /\ Expected(o) = {}
            /\ Expected(o)' = {<<Mine(o), selected[Mine(o)]>>}
         \/ /\ Promote(o) /\ Expected(o) = {<<Mine(o), op[o].expSelected>>}
            /\ Expected(o)' = {}
         \/ /\ Stage(o) \/ WorkingChanged(o) \/ Verify(o) \/ MarkReady(o) \/ StagingFails(o)
               \/ PromotionRefused(o) \/ Leave(o)
            /\ Expected(o) # {} /\ Expected(o)' = {}
<1>1. op = [x \in Operators |-> op[x]] /\ DOMAIN op[o] = LocalNames
  BY DEF HeadTypes
<1>2. /\ Expected(o) = IF op[o].pc \in Swapping THEN {<<op[o].estate, op[o].expSelected>>} ELSE {}
      /\ Expected(o)' = IF op'[o].pc \in Swapping THEN {<<op'[o].estate, op'[o].expSelected>>} ELSE {}
  BY DEF Expected, Swapping, Mine
<1>3. ASSUME op'[o].pc \notin Swapping PROVE Expected(o)' = {}
  BY <1>2, <1>3
<1>4. ASSUME op[o].pc \in Swapping, op'[o].pc \in Swapping, op'[o].estate = op[o].estate,
             op'[o].expSelected = op[o].expSelected
      PROVE  Expected(o)' = Expected(o)
  BY <1>2, <1>4
<1>5. ASSUME op[o].pc \notin Swapping, op'[o].pc \notin Swapping PROVE Expected(o)' = Expected(o)
  BY <1>2, <1>5
<1>6. Return(o) => op'[o].pc = "idle"
  BY <1>1 DEF Return, Idle
<1>7. Fail(o) => op'[o].pc = "markFailed"
  BY <1>1 DEF Fail, Idle
<1>8. ASSUME NEW label, NEW d, Resume(o, label, d) PROVE op'[o].pc = label
  BY <1>1, <1>8 DEF Resume, Idle
<1>9. ASSUME NEW label, Goto(o, label)
      PROVE  op'[o].pc = label /\ op'[o].estate = op[o].estate /\ op'[o].expSelected = op[o].expSelected
  BY <1>1, <1>9 DEF Goto, LocalNames
<1>10. CASE ReadBefore(o)
  <2>1. op[o].pc = "idle" /\ op'[o].pc = "stage" /\ op'[o].estate = op[o].estate
        /\ op'[o].expSelected = selected[Mine(o)]
    BY <1>1, <1>10 DEF ReadBefore, At, LocalNames
  <2> QED
    BY <1>2, <1>10, <2>1 DEF Swapping, Mine
<1>11. CASE Promote(o)
  <2>1. op[o].pc = "promote" /\ op'[o].pc = "ownHeads"
    BY <1>8, <1>11 DEF Promote, At
  <2> QED
    BY <1>2, <1>11, <2>1 DEF Swapping, Mine
<1>12. CASE Stage(o)
  <2>1. op[o].pc = "stage"
    BY <1>12 DEF Stage, At
  <2>2. CASE Goto(o, "start")
    BY <1>4, <1>9, <1>12, <2>1, <2>2 DEF Swapping, Stage, Promote, At
  <2>3. CASE Resume(o, "ownHeads", <<>>) \/ Return(o)
    <3>1. op'[o].pc \in {"ownHeads", "idle"}
      BY <1>6, <1>8, <2>3
    <3> QED
      BY <1>2, <1>12, <2>1, <3>1 DEF Swapping
  <2> QED
    BY <1>12, <2>2, <2>3 DEF Stage
<1>13. CASE StartWorking(o)
  <2>1. op[o].pc = "start" /\ op'[o].pc = "write" /\ op'[o].estate = op[o].estate
        /\ op'[o].expSelected = op[o].expSelected
    BY <1>1, <1>13 DEF StartWorking, At, LocalNames
  <2> QED
    BY <1>4, <2>1 DEF Swapping, Promote, At
<1>14. CASE WriteBatch(o)
  <2>1. op[o].pc = "write" /\ op'[o].pc = "count" /\ op'[o].estate = op[o].estate
        /\ op'[o].expSelected = op[o].expSelected
    BY <1>1, <1>14 DEF WriteBatch, At, LocalNames
  <2> QED
    BY <1>4, <2>1 DEF Swapping, Promote, At
<1>15. CASE CountBatch(o)
  <2>1. op[o].pc = "count" /\ op'[o].pc \in {"verify", "write"} /\ op'[o].estate = op[o].estate
        /\ op'[o].expSelected = op[o].expSelected
    BY <1>9, <1>15 DEF CountBatch, At
  <2> QED
    BY <1>4, <2>1 DEF Swapping, Promote, At
<1>16. CASE Verify(o)
  <2>1. op[o].pc = "verify"
    BY <1>16 DEF Verify, At
  <2>2. CASE RowsMatch(Gen(o))
    <3>1. op'[o].pc = "ready" /\ op'[o].estate = op[o].estate /\ op'[o].expSelected = op[o].expSelected
      BY <1>1, <1>16, <2>2 DEF Verify, LocalNames
    <3> QED
      BY <1>4, <2>1, <3>1 DEF Swapping, Promote, At
  <2>3. CASE Fail(o)
    BY <1>2, <1>7, <1>16, <2>1, <2>3 DEF Swapping
  <2> QED
    BY <1>16, <2>2, <2>3 DEF Verify
<1>17. CASE MarkReady(o)
  <2>1. op[o].pc = "ready"
    BY <1>17 DEF MarkReady, At
  <2>2. CASE Goto(o, "promote")
    BY <1>4, <1>9, <2>1, <2>2 DEF Swapping, Promote, At
  <2>3. CASE Return(o)
    BY <1>2, <1>6, <1>17, <2>1, <2>3 DEF Swapping
  <2> QED
    BY <1>17, <2>2, <2>3 DEF MarkReady
<1>18. CASE WorkingChanged(o) \/ PromotionRefused(o)
  <2>1. op[o].pc \in Swapping /\ op'[o].pc = "idle"
    BY <1>6, <1>18 DEF WorkingChanged, PromotionRefused, At, Swapping
  <2> QED
    BY <1>2, <1>18, <2>1 DEF Swapping
<1>19. CASE StagingFails(o)
  <2>1. op[o].pc \in Swapping /\ op'[o].pc = "markFailed"
    BY <1>7, <1>19 DEF StagingFails, Swapping
  <2> QED
    BY <1>2, <1>19, <2>1 DEF Swapping
<1>20. CASE Leave(o)
  <2>1. op'[o].pc = "idle"
    BY <1>6, <1>20 DEF Leave
  <2>2. CASE op[o].pc \in Swapping
    BY <1>2, <1>20, <2>1, <2>2 DEF Swapping
  <2>3. CASE op[o].pc \notin Swapping
    BY <1>5, <2>1, <2>3 DEF Swapping, Promote, At
  <2> QED
    BY <2>2, <2>3
<1>21. CASE MarkFailed(o)
  BY <1>5, <1>6, <1>21 DEF MarkFailed, At, Swapping, Promote
<1>22. CASE OwnHeads(o)
  <2>1. op[o].pc = "ownHeads"
    BY <1>22 DEF OwnHeads, At
  <2>2. op'[o].pc \in {"idle", "allHeads"}
    <3>1. CASE Return(o)
      BY <1>6, <3>1
    <3>2. CASE ~Return(o)
      BY <1>1, <1>22, <3>2 DEF OwnHeads, LocalNames
    <3> QED
      BY <3>1, <3>2
  <2> QED
    BY <1>5, <2>1, <2>2 DEF Swapping, Promote, At
<1>23. CASE AllHeads(o)
  <2>1. op[o].pc = "allHeads" /\ op'[o].pc = "candidates"
    BY <1>1, <1>23 DEF AllHeads, At, LocalNames
  <2> QED
    BY <1>5, <2>1 DEF Swapping, Promote, At
<1>24. CASE ListCandidates(o)
  <2>1. op[o].pc = "candidates" /\ op'[o].pc \in {"pruned", "deleteRows"}
    BY <1>8, <1>24 DEF ListCandidates, At
  <2> QED
    BY <1>5, <2>1 DEF Swapping, Promote, At
<1>25. CASE DeleteRows(o)
  <2>1. op[o].pc = "deleteRows" /\ op'[o].pc \in {"deleteRows", "deleteRecord"}
    BY <1>9, <1>25 DEF DeleteRows, At
  <2> QED
    BY <1>5, <2>1 DEF Swapping, Promote, At
<1>26. CASE DeleteRecord(o)
  <2>1. op[o].pc = "deleteRecord" /\ op'[o].pc \in {"pruned", "deleteRows"}
    BY <1>1, <1>26 DEF DeleteRecord, At, LocalNames
  <2> QED
    BY <1>5, <2>1 DEF Swapping, Promote, At
<1> QED
  BY <1>10, <1>11, <1>12, <1>13, <1>14, <1>15, <1>16, <1>17, <1>18, <1>19, <1>20, <1>21, <1>22,
     <1>23, <1>24, <1>25, <1>26 DEF OperatorStep

\* The store grows by the generation being staged, and shrinks by the one
\* being deleted.
LEMMA StoredStep ==
  ASSUME LabelInv, TypeInv, LabelInv', TypeInv', NEW o \in Operators, OperatorStep(o)
  PROVE  \/ Stored' = Stored
         \/ (StartWorking(o) \/ WriteBatch(o)) /\ Stored' = Stored \cup {Gen(o)}
         \/ (DeleteRows(o) \/ DeleteRecord(o)) /\ Stored' = Stored \ {Head(op[o].doomed)}
<1> USE DEF LabelInv
<1>1. /\ status \in [Generations -> Statuses] /\ rows \in [Generations -> SUBSET Content]
      /\ status' \in [Generations -> Statuses] /\ rows' \in [Generations -> SUBSET Content]
  BY DEF TypeInv, RecordTypes
<1>2. Stored = {p \in Generations : status[p] # "absent" /\ rows[p] = Content}
      /\ Stored' = {p \in Generations : status'[p] # "absent" /\ rows'[p] = Content}
  BY DEF Stored, Exists
<1>3. CASE Looking(o)
  BY <1>2, <1>3, LookingKeeps DEF record
<1>4. CASE CountBatch(o) \/ MarkReady(o) \/ MarkFailed(o) \/ Promote(o)
  <2>1. rows' = rows
    BY <1>4 DEF CountBatch, MarkReady, MarkFailed, Promote
  <2>2. ASSUME NEW p \in Generations PROVE status'[p] # "absent" <=> status[p] # "absent"
    BY <1>1, <1>4 DEF CountBatch, MarkReady, MarkFailed, Promote, Promotable, Relabelled, Exists
  <2> QED
    BY <1>2, <2>1, <2>2
<1>5. CASE StartWorking(o)
  <2>1. Gen(o) \in Generations
    BY <1>5 DEF StartWorking, At, HeadTypes, Holding
  <2>2. rows' = rows /\ status' = [status EXCEPT ![Gen(o)] = "working"]
    BY <1>5 DEF StartWorking
  <2>3. CASE rows[Gen(o)] = Content
    <3>1. Stored' = Stored \cup {Gen(o)}
      BY <1>1, <1>2, <2>1, <2>2, <2>3
    <3> QED
      BY <1>5, <3>1
  <2>4. CASE rows[Gen(o)] # Content
    BY <1>1, <1>2, <2>1, <2>2, <2>4
  <2> QED
    BY <2>3, <2>4
<1>6. CASE WriteBatch(o)
  <2> DEFINE g == Gen(o)
  <2>1. g \in Generations
    BY <1>6 DEF WriteBatch, At, HeadTypes, Holding
  <2>2. status' = status /\ rows[g] \subseteq rows'[g] /\ rows'[g] \subseteq Content
        /\ \A p \in Generations : p # g => rows'[p] = rows[p]
    BY <1>1, <1>6, <2>1 DEF WriteBatch, record
  <2> HIDE DEF g
  <2>3. ASSUME NEW p \in Generations, p # g PROVE p \in Stored' <=> p \in Stored
    BY <1>2, <2>2, <2>3
  <2>4. g \in Stored => g \in Stored'
    BY <1>2, <2>1, <2>2
  <2>5. Stored' \subseteq Generations /\ Stored \subseteq Generations
    BY <1>2
  <2>6. Stored' = Stored \/ Stored' = Stored \cup {g}
    BY <2>1, <2>3, <2>4, <2>5
  <2> QED
    BY <1>6, <2>6 DEF g
<1>7. CASE DeleteRows(o)
  <2> DEFINE g == Head(op[o].doomed)
  <2>1. CASE UNCHANGED rows
    <3>1. status' = status
      BY <1>7, LookingKeeps DEF record
    <3> QED
      BY <1>2, <2>1, <3>1
  <2>2. CASE \E b \in rows[g] : rows' = [rows EXCEPT ![g] = @ \ {b}]
    <3> HIDE DEF g
    <3>1. PICK b \in rows[g] : rows' = [rows EXCEPT ![g] = rows[g] \ {b}]
      BY <2>2
    <3>2. status' = status
      BY <1>7, LookingKeeps DEF record
    <3>3. g \notin Stored'
      BY <1>1, <1>2, <3>1
    <3>4. ASSUME NEW p \in Generations, p # g PROVE p \in Stored' <=> p \in Stored
      BY <1>1, <1>2, <3>1, <3>2, <3>4
    <3>5. Stored' \subseteq Generations /\ Stored \subseteq Generations
      BY <1>2
    <3>6. Stored' = Stored \ {g}
      BY <3>3, <3>4, <3>5
    <3> QED
      BY <1>7, <3>6 DEF g
  <2> QED
    BY <1>7, <2>1, <2>2 DEF DeleteRows
<1>8. CASE DeleteRecord(o)
  <2> DEFINE g == Head(op[o].doomed)
  <2>1. rows' = rows /\ status' = [status EXCEPT ![g] = "absent"]
    BY <1>8 DEF DeleteRecord
  <2> HIDE DEF g
  <2>2. g \notin Stored'
    BY <1>1, <1>2, <2>1
  <2>3. ASSUME NEW p \in Generations, p # g PROVE p \in Stored' <=> p \in Stored
    BY <1>1, <1>2, <2>1, <2>3
  <2>4. Stored' \subseteq Generations /\ Stored \subseteq Generations
    BY <1>2
  <2>5. Stored' = Stored \ {g}
    BY <2>2, <2>3, <2>4
  <2> QED
    BY <1>8, <2>5 DEF g
<1> QED
  BY <1>3, <1>4, <1>5, <1>6, <1>7, <1>8 DEF OperatorStep, Looking

\* All that holds of the store and of the operators, as far as prunes run alone.
RegisterInv == LabelInv /\ TypeInv /\ (PrunesAlone => Alone /\ PruneInv)

\* A promotion replaces what its operator expects, by what it verified.
LEMMA PromotesWhole ==
  ASSUME RegisterInv, NEW o \in Operators, Promote(o)
  PROVE  /\ Mine(o) \in Estates /\ Gen(o) \in Generations
         /\ op[o].expSelected = selected[Mine(o)]
         /\ selected' = [selected EXCEPT ![Mine(o)] = Gen(o)]
         /\ PrunesAlone => Gen(o) \in Stored
<1>1. op[o].pc = "promote" /\ Mine(o) \in Estates /\ Gen(o) \in Generations
  BY DEF Promote, At, RegisterInv, LabelInv, HeadTypes, Holding
<1>2. /\ status[Gen(o)] = "ready" /\ op[o].expSelected = selected[Mine(o)]
      /\ selected' = [selected EXCEPT ![Mine(o)] = Gen(o)]
  BY DEF Promote, Promotable
<1>3. PrunesAlone => rows[Gen(o)] = Content
  BY <1>1 DEF RegisterInv, PruneInv, Whole
<1> QED
  BY <1>1, <1>2, <1>3 DEF Stored, Exists

LEMMA OperatorKeepsRegister ==
  ASSUME RegisterInv, RegisterInv', NEW o \in Operators, OperatorStep(o)
  PROVE  [Register!Next]_(Register!vars)
<1> USE DEF RegisterInv
<1> DEFINE Seen == [x \in Operators |-> Expected(x)]
<1>0. HeadTypes
  BY DEF LabelInv
<1>1. \A x \in Operators : x # o => Expected(x)' = Expected(x)
  <2> SUFFICES ASSUME NEW x \in Operators, x # o PROVE Expected(x)' = Expected(x)
    OBVIOUS
  <2>1. op'[x] = op[x]
    BY <1>0, OthersKeep
  <2> QED
    BY <2>1 DEF Expected, Mine
<1>2. ASSUME Expected(o)' = Expected(o) PROVE Seen' = Seen
  BY <1>1, <1>2
<1>3. Seen' = [Seen EXCEPT ![o] = Expected(o)']
  BY <1>1
<1>4. CASE Promote(o)
  <2>1. Stored' = Stored
    BY <1>4, StoredStep DEF Promote, StartWorking, WriteBatch, DeleteRows, DeleteRecord, At
  <2>2. Expected(o) = {<<Mine(o), op[o].expSelected>>} /\ Expected(o)' = {}
    <3>1. Expected(o) = {<<Mine(o), op[o].expSelected>>}
      BY <1>4 DEF Promote, At, Expected
    <3>2. ~ReadBefore(o)
      BY <1>4 DEF Promote, ReadBefore, At
    <3> QED
      BY <1>0, <1>4, <3>1, <3>2, ExpectedStep
  <2>3. Register!Replace(o)
    BY <1>3, <1>4, <2>1, <2>2, PromotesWhole DEF Register!Replace
  <2> QED
    BY <2>2, <2>3 DEF Register!Next
<1>5. CASE ReadBefore(o) /\ Expected(o)' # Expected(o)
  <2>1. /\ Expected(o) = {} /\ Expected(o)' = {<<Mine(o), selected[Mine(o)]>>}
        /\ Mine(o) \in Estates
    BY <1>0, <1>5, ExpectedStep DEF ReadBefore, Promote, Stage, WorkingChanged, Verify, MarkReady,
       StagingFails, PromotionRefused, Leave, At, HeadTypes
  <2>2. Stored' = Stored /\ selected' = selected
    BY <1>5 DEF ReadBefore, heads, record, Stored, Exists
  <2>3. Register!Look(o)
    BY <1>3, <2>1, <2>2 DEF Register!Look
  <2> QED
    BY <1>5, <2>3 DEF Register!Next
<1>6. CASE ~Promote(o) /\ ~ReadBefore(o) /\ Expected(o)' # Expected(o)
  <2>1. /\ Stage(o) \/ WorkingChanged(o) \/ Verify(o) \/ MarkReady(o) \/ StagingFails(o)
           \/ PromotionRefused(o) \/ Leave(o)
        /\ Expected(o) # {} /\ Expected(o)' = {}
    BY <1>0, <1>6, ExpectedStep
  <2>2. selected' = selected
    BY <2>1 DEF Stage, WorkingChanged, Verify, MarkReady, StagingFails, PromotionRefused, Leave, heads
  <2>3. Stored' = Stored
    <3>1. CASE MarkReady(o)
      BY <3>1, StoredStep DEF MarkReady, StartWorking, WriteBatch, DeleteRows, DeleteRecord, At
    <3>2. CASE Looking(o)
      BY <3>2, LookingKeeps DEF record, Stored, Exists
    <3> QED
      BY <2>1, <3>1, <3>2 DEF Looking
  <2>4. Register!Forget(o)
    BY <1>3, <2>1, <2>2, <2>3 DEF Register!Forget
  <2> QED
    BY <1>6, <2>4 DEF Register!Next
<1>7. CASE ~Promote(o) /\ Expected(o)' = Expected(o)
  <2>1. selected' = selected
    BY <1>7, LookingKeeps DEF OperatorStep, Looking, StartWorking, CountBatch, MarkReady, MarkFailed,
       DeleteRecord, heads
  <2>2. Seen' = Seen
    BY <1>2, <1>7
  <2>3. CASE Stored' = Stored
    BY <2>1, <2>2, <2>3 DEF Register!vars
  <2>4. CASE (StartWorking(o) \/ WriteBatch(o)) /\ Stored' = Stored \cup {Gen(o)} /\ Stored' # Stored
    <3>1. Gen(o) \in Generations
      BY <1>0, <2>4 DEF StartWorking, WriteBatch, At, HeadTypes, Holding
    <3>2. Register!Complete(Gen(o))
      BY <2>1, <2>2, <2>4 DEF Register!Complete
    <3> QED
      BY <2>4, <3>1, <3>2 DEF Register!Next
  <2>5. CASE (DeleteRows(o) \/ DeleteRecord(o)) /\ Stored' = Stored \ {Head(op[o].doomed)} /\ Stored' # Stored
    <3> DEFINE g == Head(op[o].doomed)
    <3>1. g \in Stored /\ g \in Generations
      BY <2>5 DEF Stored
    <3>2. PrunesAlone => \A e \in Estates : selected[e] # g
      BY <2>5, HeadsAreSpared DEF PruneInv
    <3>3. Register!Discard(g)
      BY <2>1, <2>2, <2>5, <3>1, <3>2 DEF Register!Discard
    <3> QED
      BY <2>5, <3>1, <3>3 DEF Register!Next
  <2> QED
    BY <2>3, <2>4, <2>5, StoredStep
<1> QED
  BY <1>4, <1>5, <1>6, <1>7

LEMMA RegisterInvHolds == Spec => []RegisterInv
<1>1. CASE PrunesAlone
  <2>1. Spec => [](LabelInv /\ TypeInv /\ RowsInv /\ PruneInv)
    BY <1>1, PrunesHold
  <2>2. LabelInv /\ TypeInv /\ RowsInv /\ PruneInv => RegisterInv
    BY DEF RegisterInv, RowsInv
  <2> QED
    BY <2>1, <2>2, PTL
<1>2. CASE ~PrunesAlone
  <2>1. LabelInv /\ TypeInv => RegisterInv
    BY <1>2 DEF RegisterInv
  <2> QED
    BY <2>1, TypesHold, PTL
<1> QED
  BY <1>1, <1>2

\* Queries interleaved, staging repeated, failures and deaths taken together,
\* each estate is a register that changes by compare-and-set against what the
\* promoting operator read before it staged; and where prunes run alone, what
\* it names is whole when it is set and for as long as it is served.
THEOREM EstateIsRegister == Spec => ImplementsRegister
<1>1. Init => Register!Init
  <2> SUFFICES ASSUME Init PROVE Register!Init
    OBVIOUS
  <2>1. Stored = {}
    BY DEF Init, Stored, Exists
  <2>2. \A o \in Operators : Expected(o) = {}
    BY DEF Init, Expected, Idle
  <2> QED
    BY <2>1, <2>2 DEF Init, Register!Init
<1>2. RegisterInv /\ RegisterInv' /\ [Next]_vars => [Register!Next]_(Register!vars)
  <2> SUFFICES ASSUME RegisterInv, RegisterInv', [Next]_vars PROVE [Register!Next]_(Register!vars)
    OBVIOUS
  <2>1. CASE UNCHANGED vars
    BY <2>1 DEF vars, Register!vars, Stored, Exists, Expected, Mine
  <2> QED
    BY <2>1, OperatorKeepsRegister DEF Next
<1> QED
  BY <1>1, <1>2, RegisterInvHolds, PTL DEF Spec, ImplementsRegister, Register!Spec
=============================================================================
