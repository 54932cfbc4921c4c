-------------------------- MODULE MCApplicationFlow --------------------------
(* Applications and resume versions on small instances. *)
EXTENDS ApplicationFlow, TLC

Symmetry == Permutations(Handlers) \cup Permutations(Apps)
            \cup Permutations(Jobs) \cup Permutations(Versions)
=============================================================================
