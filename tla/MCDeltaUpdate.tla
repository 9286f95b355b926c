--------------------------- MODULE MCDeltaUpdate ---------------------------
(* Values of the constants of DeltaUpdate for TLC. *)
EXTENDS DeltaUpdate, TLC

CONSTANTS f1, f2, c1, c2

Pair == {f1, f2}
Blobs == {c1, c2}
\* A producer throws on one unit.
SecondRefuses == {<<f2, c1>>}
\* The cache begins with one of the four units.
FirstCached == {<<f1, c1>>}
=============================================================================
