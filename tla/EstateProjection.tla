-------------------------- MODULE EstateProjection --------------------------
(***************************************************************************)
(* The generations of an estate graph (tools/estate-graph-projection.mjs): *)
(* operators run projectEstateMap against one database, staging a          *)
(* generation under the working head, promoting it to the selected head,   *)
(* and pruning what no head needs.                                         *)
(*                                                                         *)
(* A query to the database is one step, and between two of them any other  *)
(* operator runs; an operator may die at any point, and a query may fail.  *)
(* The rows of a generation are batches of nodes; its edges, which follow  *)
(* the nodes alike and go with them, are left out.  The compare-and-set of *)
(* a head is taken to be atomic, as one Cypher statement.                  *)
(***************************************************************************)
EXTENDS Integers, Sequences, FiniteSets

CONSTANTS
  Operators,    \* processes that run projectEstateMap
  Estates,
  Generations,  \* projection ids, which name contents
  Batches,      \* the batches of rows of a generation
  Retain,       \* retain_superseded
  Promoting,    \* the values of --promote
  PrunesAlone,  \* an operator prunes only while no other one stages or promotes
  None

ASSUME ProjectionAssumption ==
  /\ Batches \in Nat \ {0} /\ Retain \in Nat
  /\ Promoting \subseteq BOOLEAN /\ PrunesAlone \in BOOLEAN
  /\ None \notin Generations \cup Estates

Content == 1..Batches

VARIABLES
  selected, working,   \* the heads of each estate
  status, owner,       \* p.status ("absent" without a record) and p.estate
  processed,           \* p.processed_nodes, in batches
  rows,                \* the batches whose rows are there
  newer,               \* the records in their order by selected_at, verified_at or created_at
  chosen,              \* the records that have a selected_at
  op                   \* the local state of each operator

heads == <<selected, working>>
record == <<status, owner, processed, newer, chosen>>
vars == <<selected, working, status, owner, processed, rows, newer, chosen, op>>

\* An operator's configuration names its estate.  A local variable that is
\* not read again is reset.
Idle(e) ==
  [pc |-> "idle", estate |-> e, gen |-> None, promote |-> FALSE, batch |-> 0,
   expWorking |-> None, expSelected |-> None, protected |-> {}, doomed |-> <<>>]

Exists(p) == status[p] # "absent"
Mine(o) == op[o].estate
Gen(o) == op[o].gen
At(o, label) == op[o].pc = label
Goto(o, label) == op' = [op EXCEPT ![o].pc = label]
Return(o) == op' = [op EXCEPT ![o] = Idle(Mine(o))]

\* The operator goes on for its estate with its other locals dropped.
Resume(o, label, doomed) ==
  op' = [op EXCEPT ![o] = [Idle(Mine(o)) EXCEPT !.pc = label, !.doomed = doomed]]

\* The staging has failed; only the generation is still needed.
Fail(o) == op' = [op EXCEPT ![o] = [Idle(Mine(o)) EXCEPT !.pc = "markFailed", !.gen = Gen(o)]]

Records == {p \in Generations : Exists(p)}

\* newer orders the records, the latest first: pairs of a later and an earlier one.
Without(p) == {r \in newer : p \notin {r[1], r[2]}}
Ahead(p) == {p} \X (Records \ {p})

\* Mutant: a record is ranked again without leaving its old rank.
RankedTwice(p) == newer \cup Ahead(p)

Foremost(p) == Without(p) \cup Ahead(p)

Init ==
  /\ selected = [e \in Estates |-> None] /\ working = [e \in Estates |-> None]
  /\ status = [p \in Generations |-> "absent"]
  /\ owner = [p \in Generations |-> None]
  /\ processed = [p \in Generations |-> 0]
  /\ rows = [p \in Generations |-> {}]
  /\ newer = {} /\ chosen = {}
  /\ \E f \in [Operators -> Estates] : op = [o \in Operators |-> Idle(f[o])]

-----------------------------------------------------------------------------
(* projectEstateMap *)

Pruning(o) == op[o].pc \in {"allHeads", "candidates", "deleteRows", "deleteRecord", "pruned"}

\* An operator has built its generation, and reads the heads it will
\* compare with.  The inputs of two estates may come to one generation.
ReadBefore(o) ==
  /\ At(o, "idle")
  /\ PrunesAlone => \A x \in Operators : ~Pruning(x)
  /\ \E p \in Generations, b \in Promoting :
       op' = [op EXCEPT ![o].pc = "stage", ![o].gen = p, ![o].promote = b,
                        ![o].expWorking = working[Mine(o)],
                        ![o].expSelected = selected[Mine(o)]]
  /\ UNCHANGED <<heads, record, rows>>

-----------------------------------------------------------------------------
(* stageEstateProjection *)

AlreadySelected(o) ==
  /\ selected[Mine(o)] = Gen(o)
  /\ status[Gen(o)] = "selected" /\ processed[Gen(o)] = Batches

\* The heads are read again: a generation that is selected and whole is not
\* built again, and needs no promotion.
Stage(o) ==
  /\ At(o, "stage")
  /\ IF ~AlreadySelected(o) THEN Goto(o, "start")
     ELSE IF op[o].promote THEN Resume(o, "ownHeads", <<>>)
     ELSE Return(o)
  /\ UNCHANGED <<heads, record, rows>>

\* startWorkingProjection, if the working head is still the expected one.
StartWorking(o) ==
  /\ At(o, "start") /\ working[Mine(o)] = op[o].expWorking
  /\ working' = [working EXCEPT ![Mine(o)] = Gen(o)]
  /\ status' = [status EXCEPT ![Gen(o)] = "working"]
  /\ owner' = [owner EXCEPT ![Gen(o)] = Mine(o)]
  /\ processed' = [processed EXCEPT ![Gen(o)] = 0]
  /\ newer' = IF Exists(Gen(o)) THEN newer ELSE Foremost(Gen(o))
  /\ op' = [op EXCEPT ![o].pc = "write", ![o].expWorking = None]
  /\ UNCHANGED <<selected, chosen, rows>>

WorkingChanged(o) ==
  /\ At(o, "start") /\ working[Mine(o)] # op[o].expWorking
  /\ Return(o)
  /\ UNCHANGED <<heads, record, rows>>

\* The next batch of rows is merged.
WriteBatch(o) ==
  /\ At(o, "write")
  /\ rows' = [rows EXCEPT ![Gen(o)] = @ \cup {op[o].batch + 1}]
  /\ op' = [op EXCEPT ![o].pc = "count", ![o].batch = @ + 1]
  /\ UNCHANGED <<heads, record>>

\* The record, if there is one, is told how far the writing has come.
CountBatch(o) ==
  /\ At(o, "count")
  /\ processed' = IF Exists(Gen(o)) THEN [processed EXCEPT ![Gen(o)] = op[o].batch]
                  ELSE processed
  /\ Goto(o, IF op[o].batch = Batches THEN "verify" ELSE "write")
  /\ UNCHANGED <<heads, status, owner, newer, chosen, rows>>

\* verifyProjectionRows
RowsMatch(p) == rows[p] = Content

Verify(o) ==
  /\ At(o, "verify")
  /\ IF RowsMatch(Gen(o)) THEN op' = [op EXCEPT ![o].pc = "ready", ![o].batch = 0]
     ELSE Fail(o)
  /\ UNCHANGED <<heads, record, rows>>

\* The record is marked ready, if its counts are complete.
MarkReady(o) ==
  /\ At(o, "ready")
  /\ Exists(Gen(o)) /\ processed[Gen(o)] = Batches
  /\ status' = [status EXCEPT ![Gen(o)] = "ready"]
  /\ newer' = IF Gen(o) \in chosen THEN newer ELSE Foremost(Gen(o))
  /\ IF op[o].promote THEN Goto(o, "promote") ELSE Return(o)
  /\ UNCHANGED <<heads, owner, processed, chosen, rows>>

\* The record is gone or its counts were reset, or a query of the staging fails.
StagingFails(o) ==
  /\ op[o].pc \in {"write", "count", "verify", "ready"}
  /\ Fail(o)
  /\ UNCHANGED <<heads, record, rows>>

MarkFailed(o) ==
  /\ At(o, "markFailed")
  /\ status' = IF Exists(Gen(o)) THEN [status EXCEPT ![Gen(o)] = "failed"] ELSE status
  /\ Return(o)
  /\ UNCHANGED <<heads, owner, processed, newer, chosen, rows>>

-----------------------------------------------------------------------------
(* promoteEstateProjection *)

\* Mutant: what the candidate replaces keeps its status.
PriorKept(prior, p) == [status EXCEPT ![p] = "selected"]

\* The candidate is selected, and what it replaces is superseded.
Relabelled(prior, p) ==
  [q \in Generations |-> IF q = p THEN "selected"
                         ELSE IF q = prior /\ Exists(q) THEN "superseded" ELSE status[q]]

\* Mutant: the head is replaced whatever it is by then.
ReadyIsEnough(o) == status[Gen(o)] = "ready"

\* A ready candidate may be promoted if the head is still the expected one.
Promotable(o) ==
  status[Gen(o)] = "ready" /\ selected[Mine(o)] = op[o].expSelected

\* One transaction: the candidate takes the selected head, and leaves the
\* working head.
Promote(o) ==
  LET p == Gen(o)  e == Mine(o)  prior == selected[e] IN
  /\ At(o, "promote") /\ Promotable(o)
  /\ selected' = [selected EXCEPT ![e] = p]
  /\ working' = IF working[e] = p THEN [working EXCEPT ![e] = None] ELSE working
  /\ status' = Relabelled(prior, p)
  /\ newer' = Foremost(p) /\ chosen' = chosen \cup {p}
  /\ Resume(o, "ownHeads", <<>>)
  /\ UNCHANGED <<owner, processed, rows>>

PromotionRefused(o) ==
  /\ At(o, "promote") /\ ~Promotable(o)
  /\ Return(o)
  /\ UNCHANGED <<heads, record, rows>>

-----------------------------------------------------------------------------
(* pruneEstateProjections *)

\* The heads of the estate are read; without any the prune refuses to run.
OwnHeads(o) ==
  LET own == {selected[Mine(o)], working[Mine(o)]} \ {None} IN
  /\ At(o, "ownHeads")
  /\ PrunesAlone => \A x \in Operators : op[x].pc \in {"idle", "ownHeads"}
  /\ IF own = {} THEN Return(o)
     ELSE op' = [op EXCEPT ![o].pc = "allHeads", ![o].protected = own]
  /\ UNCHANGED <<heads, record, rows>>

HeadIds == {selected[e] : e \in Estates} \cup {working[e] : e \in Estates}

\* Mutant: only the heads of the estate itself are spared.
OwnSpared(o) == op[o].protected

Spared(o) == op[o].protected \cup (HeadIds \ {None})

\* The heads of every estate are read.
AllHeads(o) ==
  /\ At(o, "allHeads")
  /\ op' = [op EXCEPT ![o].pc = "candidates", ![o].protected = Spared(o)]
  /\ UNCHANGED <<heads, record, rows>>

\* How many records of S come before p.
Rank(S, p) == Cardinality({q \in S : <<q, p>> \in newer})

\* The records of S in order, the latest first.
Listing(S) == [i \in 1..Cardinality(S) |-> CHOOSE p \in S : Rank(S, p) = i - 1]

\* The records of this estate that no head protects.
Candidates(o) == {p \in Generations : owner[p] = Mine(o)} \ op[o].protected

\* Mutant: one candidate too many is kept.
PrunableBelow(s) == SubSeq(s, Retain + 2, Len(s))

Prunable(s) == SubSeq(s, Retain + 1, Len(s))

ListCandidates(o) ==
  LET doomed == Prunable(Listing(Candidates(o))) IN
  /\ At(o, "candidates")
  /\ Resume(o, IF doomed = <<>> THEN "pruned" ELSE "deleteRows", doomed)
  /\ UNCHANGED <<heads, record, rows>>

\* Mutant: one batch is taken to be all the rows.
OneBatch(p) == TRUE

NoneLeft(p) == rows[p] = {}

\* The rows of a generation are deleted batch by batch until none is found.
DeleteRows(o) ==
  LET p == Head(op[o].doomed) IN
  /\ At(o, "deleteRows")
  /\ \/ /\ ~NoneLeft(p)
        /\ \E b \in rows[p] : rows' = [rows EXCEPT ![p] = @ \ {b}]
        /\ UNCHANGED op
     \/ NoneLeft(p) /\ Goto(o, "deleteRecord") /\ UNCHANGED rows
  /\ UNCHANGED <<heads, record>>

\* Then its record is.
DeleteRecord(o) ==
  LET p == Head(op[o].doomed) IN
  /\ At(o, "deleteRecord")
  /\ status' = [status EXCEPT ![p] = "absent"]
  /\ owner' = [owner EXCEPT ![p] = None]
  /\ processed' = [processed EXCEPT ![p] = 0]
  /\ newer' = Without(p) /\ chosen' = chosen \ {p}
  /\ op' = [op EXCEPT ![o].pc = IF Len(op[o].doomed) = 1 THEN "pruned" ELSE "deleteRows",
                      ![o].doomed = Tail(@)]
  /\ UNCHANGED <<heads, rows>>

-----------------------------------------------------------------------------

\* The operator returns from its prune, or dies at any point.
Leave(o) ==
  /\ ~At(o, "idle")
  /\ Return(o)
  /\ UNCHANGED <<heads, record, rows>>

OperatorStep(o) ==
  \/ ReadBefore(o) \/ Stage(o) \/ StartWorking(o) \/ WorkingChanged(o)
  \/ WriteBatch(o) \/ CountBatch(o) \/ Verify(o) \/ MarkReady(o)
  \/ StagingFails(o) \/ MarkFailed(o)
  \/ Promote(o) \/ PromotionRefused(o)
  \/ OwnHeads(o) \/ AllHeads(o) \/ ListCandidates(o) \/ DeleteRows(o) \/ DeleteRecord(o)
  \/ Leave(o)

Next == \E o \in Operators : OperatorStep(o)

Spec == Init /\ [][Next]_vars

-----------------------------------------------------------------------------
(* The register this implements. *)

Stored == {p \in Generations : Exists(p) /\ rows[p] = Content}

\* What an operator expects to replace, from reading the heads to promoting.
Expected(o) ==
  IF op[o].pc \in {"stage", "start", "write", "count", "verify", "ready", "promote"}
  THEN {<<Mine(o), op[o].expSelected>>} ELSE {}

Register == INSTANCE EstateRegister WITH
  Sheltered <- PrunesAlone, serving <- selected, store <- Stored,
  seen <- [o \in Operators |-> Expected(o)]

\* The queries of all operators together make each estate a register that is
\* replaced by compare-and-set only, and, where prunes run alone, names only
\* generations that are whole.
ImplementsRegister == Register!Spec

-----------------------------------------------------------------------------
(* Properties *)

Statuses == {"absent", "working", "ready", "failed", "selected", "superseded"}

PCs == {"idle", "stage", "start", "write", "count", "verify", "ready", "markFailed",
        "promote", "ownHeads", "allHeads", "candidates", "deleteRows", "deleteRecord", "pruned"}

Locals ==
  [pc : PCs, estate : Estates, gen : Generations \cup {None}, promote : BOOLEAN, batch : 0..Batches,
   expWorking : Generations \cup {None}, expSelected : Generations \cup {None},
   protected : SUBSET Generations, doomed : Seq(Generations)]

\* Types; the records have one order, and those selected once exist.
TypeOK ==
  /\ selected \in [Estates -> Generations \cup {None}]
  /\ working \in [Estates -> Generations \cup {None}]
  /\ status \in [Generations -> Statuses]
  /\ owner \in [Generations -> Estates \cup {None}]
  /\ processed \in [Generations -> 0..Batches]
  /\ rows \in [Generations -> SUBSET Content]
  /\ newer \subseteq Records \X Records
  /\ \A p, q \in Records : p # q => (<<p, q>> \in newer <=> <<q, p>> \notin newer)
  /\ \A p, q, r \in Records : <<p, q>> \in newer /\ <<q, r>> \in newer => <<p, r>> \in newer
  /\ \A p \in Records : <<p, p>> \notin newer
  /\ chosen \subseteq Records
  /\ \A o \in Operators : op[o] \in Locals

\* What an estate serves is there: the selected generation has its record and
\* every one of its rows, whatever is staged, pruned or left half done
\* (retention "protects every head in the database").
SelectedIsIntact ==
  \A e \in Estates : selected[e] # None =>
    Exists(selected[e]) /\ rows[selected[e]] = Content

\* Only what a head selects is labelled selected: no promotion leaves a former
\* selection labelled, of this estate or of one with the same contents.
SelectedLabelIsTrue ==
  \A p \in Generations : status[p] = "selected" => \E e \in Estates : selected[e] = p

\* No rows are left that no record accounts for: no prune would find them.
NoOrphanRows == \A p \in Generations : rows[p] # {} => Exists(p)

\* A prune leaves an estate its heads and Retain generations.
RetentionIsBounded ==
  \A o \in Operators : At(o, "pruned") =>
    Cardinality({p \in Generations : owner[p] = Mine(o)} \ HeadIds) <= Retain
=============================================================================
