-------------------------- MODULE DailyBudgetProofs --------------------------
(* The daily budget is exceeded by less than one unit per worker.          *)
EXTENDS DailyBudget, FiniteSetTheorems, TLAPS

\* Every admission counts as if it were used already; and nobody is ever
\* admitted under a limit of zero, which is what makes midnight harmless.
IInv ==
    /\ used \in Nat
    /\ admitted \in SUBSET Workers
    /\ used + Cardinality(admitted) <= Limit + Cardinality(Workers) - 1
    /\ admitted # {} => Limit >= 1

\* Facts about the sizes of the sets involved.
LEMMA Sizes ==
    ASSUME ConstantsOK, NEW S \in SUBSET Workers
    PROVE  /\ Cardinality(S) \in Nat
           /\ Cardinality(S) <= Cardinality(Workers)
           /\ Cardinality(Workers) \in Nat
           /\ Cardinality(Workers) >= 1
           /\ \A w \in S : Cardinality(S \ {w}) = Cardinality(S) - 1
<1>1. IsFiniteSet(S) /\ IsFiniteSet(Workers)
  BY FS_Subset DEF ConstantsOK
<1>2. Cardinality(Workers) # 0
  BY <1>1, FS_EmptySet DEF ConstantsOK
<1>3. \A w \in S : Cardinality(S \ {w}) = Cardinality(S) - 1
  BY <1>1, FS_RemoveElement
<1> QED
  BY <1>1, <1>2, <1>3, FS_Subset, FS_CardinalityType DEF ConstantsOK

\* The inductive step.
LEMMA BudgetNext == ConstantsOK /\ IInv /\ [Next]_<<used, admitted>> => IInv'
<1> SUFFICES ASSUME ConstantsOK, IInv, [Next]_<<used, admitted>> PROVE IInv'
  OBVIOUS
<1> USE DEF ConstantsOK
<1>1. CASE UNCHANGED <<used, admitted>>
  BY <1>1 DEF IInv
<1>2. CASE Midnight
  <2>1. CASE admitted = {}
    BY <1>2, <2>1, Sizes, FS_EmptySet DEF IInv, Midnight
  <2>2. CASE admitted # {}
    BY <1>2, <2>2, Sizes DEF IInv, Midnight
  <2> QED BY <2>1, <2>2
<1>3. ASSUME NEW w \in Workers, Admit(w) PROVE IInv'
  <2>1. admitted' \in SUBSET Workers
    BY <1>3 DEF Admit, IInv
  <2>2. Cardinality(admitted') <= Cardinality(Workers) /\ Cardinality(admitted') \in Nat
    BY <2>1, Sizes
  <2> QED BY <1>3, <2>1, <2>2, Sizes DEF Admit, IInv
<1>4. ASSUME NEW w \in Workers, Commit(w) PROVE IInv'
  <2>1. Cardinality(admitted \ {w}) = Cardinality(admitted) - 1
    BY <1>4, Sizes DEF Commit, IInv
  <2> QED BY <1>4, <2>1, Sizes DEF Commit, IInv
<1>5. ASSUME NEW w \in Workers, Abandon(w) PROVE IInv'
  <2>1. Cardinality(admitted \ {w}) = Cardinality(admitted) - 1
    BY <1>5, Sizes DEF Abandon, IInv
  <2> QED BY <1>5, <2>1, Sizes DEF Abandon, IInv
<1>6. CASE Crash
  <2>1. Cardinality(admitted) \in Nat
    BY Sizes DEF IInv
  <2> QED
    BY <1>6, <2>1, Sizes, FS_EmptySet DEF IInv, Crash
<1> QED
  BY <1>1, <1>2, <1>3, <1>4, <1>5, <1>6 DEF Next

\* The daily limit is exceeded by less than the number of workers, for every
\* limit and every number of workers: the contract of Limits in pipeline.go
\* and runner.go.
THEOREM BudgetOverrun == ASSUME ConstantsOK PROVE Spec => []OverrunBounded
<1>1. Init => IInv
  BY Sizes, FS_EmptySet DEF Init, IInv, ConstantsOK
<1>2. IInv => OverrunBounded
  <2> SUFFICES ASSUME IInv PROVE OverrunBounded
    OBVIOUS
  <2>1. Cardinality(admitted) \in Nat /\ Cardinality(Workers) \in Nat
    BY Sizes DEF IInv
  <2> QED BY <2>1 DEF IInv, OverrunBounded, ConstantsOK
<1> QED
  BY <1>1, <1>2, BudgetNext, PTL DEF Spec
=============================================================================
