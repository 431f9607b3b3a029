--------------------------- MODULE MCBuildWorker ---------------------------
(* Instances of BuildWorker for TLC: revisions are interchangeable.        *)
EXTENDS BuildWorker, TLC

Symmetry == Permutations(Revisions)
=============================================================================
