----------------------------- MODULE MCRunStore -----------------------------
(* Model values and symmetry for checking RunStore on small instances.     *)
EXTENDS RunStore, TLC

CONSTANTS r1, r2, b1, b2, v1, v2

Symmetry == Permutations(Runs) \cup Permutations(Sandboxes)
            \cup Permutations(Revisions)
=============================================================================
