----------------------------- MODULE JobQueueMC -----------------------------
(* Instances of JobQueue for TLC: the constants are given by the .cfg files. *)
EXTENDS JobQueue, TLC

(* Goroutines and requests are interchangeable; sources are too. *)
Symmetry == Permutations(Workers) \cup Permutations(Sources)
=============================================================================
