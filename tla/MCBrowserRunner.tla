--------------------------- MODULE MCBrowserRunner ---------------------------
(* The browser runner on small instances. *)
EXTENDS BrowserRunner, TLC

\* Midnight at every tick, so that a call may run across it.
MidnightEveryTick == [t \in Time |-> t]

\* One single day.
SameDay == [t \in Time |-> 0]

Symmetry == Permutations(Workers) \cup Permutations(Ids) \cup Permutations(Tokens)
=============================================================================
