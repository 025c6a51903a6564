----------------------------- MODULE MCJobSlots -----------------------------
(* Instances of JobSlots for TLC: jobs and task names are interchangeable. *)
EXTENDS JobSlots, TLC

Symmetry == Permutations(Jobs) \cup Permutations(Tasks)
=============================================================================
