------------------------- MODULE MCEstateProjection -------------------------
(* Values of the constants of EstateProjection for TLC. *)
EXTENDS EstateProjection, TLC

Always == {TRUE}
Maybe == {TRUE, FALSE}

\* Operators, estates and generations are alike.
Alike == Permutations(Operators) \cup Permutations(Estates) \cup Permutations(Generations)
=============================================================================
