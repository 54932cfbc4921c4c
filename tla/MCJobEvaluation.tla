--------------------------- MODULE MCJobEvaluation ---------------------------
(* Job evaluation on small instances. *)
EXTENDS JobEvaluation, TLC

Symmetry == Permutations(Workers) \cup Permutations(Jobs)
=============================================================================
