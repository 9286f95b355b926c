-------------------------- MODULE EstateRetention --------------------------
(***************************************************************************)
(* EstateProjection with the history its retention is about: which         *)
(* generation each estate had selected before the present one.             *)
(***************************************************************************)
EXTENDS EstateProjection

VARIABLE predecessor   \* what was selected before the present selection

Remembered(e) == IF selected'[e] = selected[e] THEN predecessor[e] ELSE selected[e]

HistoryInit == Init /\ predecessor = [e \in Estates |-> None]
HistoryNext == Next /\ predecessor' = [e \in Estates |-> Remembered(e)]
HistorySpec == HistoryInit /\ [][HistoryNext]_<<vars, predecessor>>

\* The generation selected before the present one is kept, to go back to
\* ("Retention keeps the selected generation and one predecessor").
PredecessorIsKept ==
  \A e \in Estates : predecessor[e] # None => rows[predecessor[e]] = Content
=============================================================================
