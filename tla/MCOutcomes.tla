------------------------------ MODULE MCOutcomes ------------------------------
(* Outcome records on small instances. *)
EXTENDS Outcomes, TLC

CONSTANTS a1, a2, a3

\* Two versions, sources and roles that cut the applications differently; scores
\* at the upper edge of a bucket, at the top and outside the range.
Mixed ==
    [a \in Applications |->
        CASE a = a1 -> [version |-> 1, source |-> "s", role |-> "r", score |-> 89]
          [] a = a2 -> [version |-> 1, source |-> "t", role |-> "r", score |-> 105]
          [] a = a3 -> [version |-> 2, source |-> "s", role |-> "q", score |-> -15]]

\* One application is closed, answered or not; or none is.
OneClosed == [a \in {a3} |-> {<<"submitted">>, <<"submitted", "responded">>}]
NoneClosed == [a \in {} |-> {}]

Symmetry == Permutations(Handlers) \cup Permutations(Arrays)
=============================================================================
