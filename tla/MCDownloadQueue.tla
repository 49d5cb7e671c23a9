---------------------------- MODULE MCDownloadQueue ----------------------------
(* Constants of the model-checked instance of DownloadQueue. *)
EXTENDS DownloadQueue

\* Nothing in the manager tells one download from another.
Symmetry == Permutations(Tasks)
=============================================================================
