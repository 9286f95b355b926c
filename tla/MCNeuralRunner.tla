--------------------------- MODULE MCNeuralRunner ---------------------------
(* Two runners over two items: each has one, or one of them has both. *)
EXTENDS NeuralRunner
=============================================================================
