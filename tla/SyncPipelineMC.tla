--------------------------- MODULE SyncPipelineMC ---------------------------
EXTENDS SyncPipeline, TLC

CONSTANTS guide, usage, limits, v1, v2

(* A guide that gains a section and loses it again, or goes. *)
OneDoc == guide :> (v1 :> {usage} @@ v2 :> {usage, limits})

Symmetry == Permutations(Procs)
=============================================================================
