------------------------ MODULE MCCheckpointJournal ------------------------
(* Values of the constants of CheckpointJournal for TLC. *)
EXTENDS CheckpointJournal

ProcessOnly == {"process"}
AnyLoss == {"process", "power"}
=============================================================================
