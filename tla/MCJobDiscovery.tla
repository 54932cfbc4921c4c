--------------------------- MODULE MCJobDiscovery ----------------------------
(* Job discovery on small instances. *)
EXTENDS JobDiscovery, TLC

Symmetry == Permutations(Workers)

CONSTANTS id1, id2, n1, n2

\* A job with a stable identity whose title is changed later, and the first of
\* the two titles at another source without identities.
TwoSources == <<"s1", "s2">>
TwoSourcesPostings ==
    {[source |-> "s1", sourceJobID |-> id1, name |-> n1],
     [source |-> "s1", sourceJobID |-> id1, name |-> n2],
     [source |-> "s2", sourceJobID |-> None, name |-> n1]}
=============================================================================
