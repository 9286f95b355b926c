------------------------- MODULE MCEstateRetention -------------------------
(* Values of the constants of EstateRetention for TLC. *)
EXTENDS EstateRetention, TLC

Always == {TRUE}
Alike == Permutations(Generations)
=============================================================================
