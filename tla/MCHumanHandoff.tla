---------------------------- MODULE MCHumanHandoff ----------------------------
(* The runner with its notification service on a small instance. *)
EXTENDS HumanHandoff

\* One single day.
SameDay == [t \in Time |-> 0]
=============================================================================
