----------------------------- MODULE DurableMap -----------------------------
(***************************************************************************)
(* What a journal promises a run: a set of keys on disk that sessions read *)
(* once, when they open it, and add to; a key goes to disk before it is    *)
(* answered for, and only if it is not there.  A key that is answered for  *)
(* is secured, with all that is stored, and stays so through any end of a  *)
(* session, until the whole map is written anew: from then to the next key *)
(* that is answered for, or a clean close, none is secured.                *)
(* CheckpointJournal implements this.                                      *)
(***************************************************************************)

CONSTANTS
  Keys

VARIABLES
  open,      \* a session answers
  map,       \* the keys it answers for
  stored,    \* the keys on disk
  secured,   \* those of them that a loss of power leaves there
  rewriting  \* the map is being written anew

vars == <<open, map, stored, secured, rewriting>>

Init == open = FALSE /\ map = {} /\ stored = {} /\ secured = {} /\ rewriting = FALSE

\* Before a session answers, it may have to write everything anew.
Rewrite ==
  /\ ~open /\ ~rewriting /\ rewriting' = TRUE
  /\ secured' = {}
  /\ UNCHANGED <<open, map, stored>>

Rewritten ==
  /\ rewriting /\ rewriting' = FALSE
  /\ UNCHANGED <<open, map, stored, secured>>

\* A session starts from everything on disk.
Open ==
  /\ ~open /\ ~rewriting /\ open' = TRUE
  /\ map' = stored
  /\ UNCHANGED <<stored, secured, rewriting>>

Write(k) ==
  /\ open /\ k \notin stored
  /\ stored' = stored \cup {k}
  /\ UNCHANGED <<open, map, secured, rewriting>>

Confirm(k) ==
  /\ open /\ k \in stored \ map
  /\ map' = map \cup {k} /\ secured' = stored
  /\ UNCHANGED <<open, stored, rewriting>>

\* A session that has failed to write secures nothing more.
Close ==
  /\ open /\ open' = FALSE
  /\ map' = {} /\ secured' \in {secured, stored}
  /\ UNCHANGED <<stored, rewriting>>

\* A session's process dies, before or after it answers: what it had stored
\* stays, but for what it was writing anew.
Die ==
  /\ open' = FALSE /\ map' = {} /\ rewriting' = FALSE
  /\ stored' \in IF rewriting THEN SUBSET stored ELSE {stored}
  /\ UNCHANGED secured

\* A loss of power: what is left is what was secured, and perhaps more.
LosePower ==
  /\ open' = FALSE /\ map' = {} /\ rewriting' = FALSE
  /\ stored' \in SUBSET stored /\ secured \subseteq stored'
  /\ secured' = stored'

Next ==
  \/ Rewrite \/ Rewritten \/ Open \/ Close \/ Die \/ LosePower
  \/ \E k \in Keys : Write(k) \/ Confirm(k)

Spec == Init /\ [][Next]_vars
=============================================================================
