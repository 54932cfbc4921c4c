----------------------------- MODULE DailyBudget -----------------------------
(***************************************************************************)
(* What a daily limit promises when it is enforced by comparing a count of *)
(* stored records with the limit, and the record that uses the budget up   *)
(* is stored only later: any number of workers may have been admitted      *)
(* before the first of them is counted.                                    *)
(*                                                                         *)
(* This is the contract of Limits.DeepEvaluationsPerDay in                 *)
(* src/internal/job/pipeline.go, which JobEvaluation implements, of        *)
(* Limits.BrowserSessionsPerDay in src/internal/browser/runner.go, which   *)
(* BrowserRunner implements, and of SafetyGateInput.DailyApplicationLimit  *)
(* in src/internal/application/safety_gate.go, which ApplicationFlow       *)
(* implements one handler at a time.                                       *)
(***************************************************************************)
EXTENDS Integers, FiniteSets

CONSTANTS
    Workers,  \* those that may ask for a unit of the budget
    Limit     \* units a day

\* What the constants are; the implementing module assumes as much.
ConstantsOK == IsFiniteSet(Workers) /\ Workers # {} /\ Limit \in Nat

VARIABLES
    used,     \* units counted since midnight
    admitted  \* workers that passed the check and are not counted yet

Init == used = 0 /\ admitted = {}

Admit(w) ==
    /\ w \notin admitted
    /\ used < Limit
    /\ admitted' = admitted \cup {w}
    /\ UNCHANGED used

Commit(w) ==
    /\ w \in admitted
    /\ used' = used + 1
    /\ admitted' = admitted \ {w}

Abandon(w) ==
    /\ w \in admitted
    /\ admitted' = admitted \ {w}
    /\ UNCHANGED used

Midnight == used' = 0 /\ UNCHANGED admitted

\* The process ends, and with it every worker.
Crash == admitted' = {} /\ UNCHANGED used

Next == Midnight \/ Crash \/ \E w \in Workers : Admit(w) \/ Commit(w) \/ Abandon(w)

Spec == Init /\ [][Next]_<<used, admitted>>

-----------------------------------------------------------------------------
\* The limit is exceeded by less than one unit per worker.
OverrunBounded == used <= Limit + Cardinality(Workers) - 1
=============================================================================
