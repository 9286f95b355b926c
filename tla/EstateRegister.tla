--------------------------- MODULE EstateRegister ---------------------------
(***************************************************************************)
(* What the estate's generations promise their readers and promoters: each *)
(* estate is a register that names a generation; operators replace it by   *)
(* compare-and-set against what they saw; and while generations come and   *)
(* go, what a register names is in the store, if promoters are sheltered   *)
(* from those who discard.  EstateProjection implements this.              *)
(***************************************************************************)

CONSTANTS
  Operators, Estates, Generations,
  Sheltered,   \* nobody discards while another stages or promotes
  None

VARIABLES
  serving,   \* the generation each estate serves
  store,     \* the generations that are whole
  seen       \* what an operator with a promotion in hand saw: an estate, and what it served

vars == <<serving, store, seen>>

Init ==
  /\ serving = [e \in Estates |-> None]
  /\ store = {}
  /\ seen = [o \in Operators |-> {}]

Look(o) ==
  /\ seen[o] = {}
  /\ \E e \in Estates : seen' = [seen EXCEPT ![o] = {<<e, serving[e]>>}]
  /\ UNCHANGED <<serving, store>>

\* The promotion is given up, refused, or lost with its operator.
Forget(o) ==
  /\ seen[o] # {} /\ seen' = [seen EXCEPT ![o] = {}]
  /\ UNCHANGED <<serving, store>>

\* Compare-and-set, to a generation that is whole.
Replace(o) ==
  /\ \E e \in Estates, p \in Generations :
       /\ seen[o] = {<<e, serving[e]>>}
       /\ Sheltered => p \in store
       /\ serving' = [serving EXCEPT ![e] = p]
  /\ seen' = [seen EXCEPT ![o] = {}]
  /\ UNCHANGED store

Complete(p) == p \notin store /\ store' = store \cup {p} /\ UNCHANGED <<serving, seen>>

\* Nothing that is served is discarded, nor made less than whole.
Discard(p) ==
  /\ p \in store
  /\ Sheltered => \A e \in Estates : serving[e] # p
  /\ store' = store \ {p}
  /\ UNCHANGED <<serving, seen>>

\* The inequalities follow from the actions; they spare TLC trying those that
\* change something else.
Next ==
  \/ \E o \in Operators : seen'[o] # seen[o] /\ (Look(o) \/ Forget(o) \/ Replace(o))
  \/ store' # store /\ \E p \in Generations : Complete(p) \/ Discard(p)

Spec == Init /\ [][Next]_vars
=============================================================================
