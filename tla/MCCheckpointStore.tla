-------------------------- MODULE MCCheckpointStore --------------------------
(* CheckpointStore for TLC: fingerprints and slots are interchangeable. *)
EXTENDS CheckpointStore, TLC

Symmetry == Permutations(Fingerprints) \cup Permutations(Slots)
==============================================================================
