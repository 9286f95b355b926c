------------------------------ MODULE WorkList ------------------------------
(***************************************************************************)
(* What a queue of paid units promises its caller: units are handed out in *)
(* their order, each once and to one worker; each gets one outcome, while  *)
(* it is in a worker's hands; the list is closed by its caller, or for an  *)
(* outcome that gives cause, and then hands out nothing more.  UnitQueue   *)
(* implements this.                                                        *)
(***************************************************************************)
EXTENDS Integers

CONSTANTS
  Units, Workers,
  Alarming,      \* outcomes that may close the list
  NoUnit, None

VARIABLES
  handed,    \* the units handed out so far
  hand,      \* the unit in each worker's hands
  fate,      \* the outcome of each unit
  closed

vars == <<handed, hand, fate, closed>>

Init ==
  /\ handed = {}
  /\ hand = [w \in Workers |-> NoUnit]
  /\ fate = [u \in Units |-> None]
  /\ closed = FALSE

\* Outcomes are given to units in hand, and none is ever changed.
Settling ==
  /\ DOMAIN fate' = Units
  /\ \A u \in Units : fate'[u] # fate[u] =>
       fate[u] = None /\ \E w \in Workers : hand[w] = u

\* A worker takes the first unit left; leases found to have run out are settled.
Take(w) ==
  /\ ~closed
  /\ hand[w] = NoUnit
  /\ \E u \in Units \ handed :
       /\ \A v \in Units : v < u => v \in handed
       /\ handed' = handed \cup {u}
       /\ hand' = [hand EXCEPT ![w] = u]
  /\ Settling
  /\ UNCHANGED closed

Decide ==
  /\ Settling
  /\ closed' # closed => closed' /\ \E u \in Units : fate'[u] \in Alarming
  /\ UNCHANGED <<handed, hand>>

\* A worker lets go of a unit that has its outcome.
Release(w) ==
  /\ hand[w] # NoUnit /\ fate[hand[w]] # None
  /\ hand' = [hand EXCEPT ![w] = NoUnit]
  /\ UNCHANGED <<handed, fate, closed>>

Close ==
  /\ ~closed /\ closed' = TRUE
  /\ UNCHANGED <<handed, hand, fate>>

Next == Decide \/ Close \/ \E w \in Workers : Take(w) \/ Release(w)

Spec == Init /\ [][Next]_vars
=============================================================================
