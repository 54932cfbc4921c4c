------------------------- MODULE JobEvaluationProofs -------------------------
(* What holds of scheduled job evaluation for every number of overlapping   *)
(* invocations, jobs and retries, and for every limit.                      *)
EXTENDS JobEvaluation, FiniteSetTheorems, TLAPS

InProcess == {"discovery", "lookup", "budget", "generate", "save"}

\* Which locals are set where: a job of the batch while Process runs, a
\* proposal while it waits to be saved, the deep stage after the budget.
ShapeOf(w) ==
    /\ pc[w] \in InProcess <=> job[w] # None
    /\ job[w] # None => job[w] \in batch[w]
    /\ pc[w] = "save" => proposal[w] # None
    /\ stage[w] = "deep_evaluation" => pc[w] \in {"lookup", "generate", "save"}

Shape == \A w \in Workers : ShapeOf(w)

Basic == TypeOK /\ Shape

\* The model of stage s may still be called for j in this attempt of w.
Pending(w, s, j) ==
    \/ pc[w] = "list"
    \/ /\ j \in batch[w]
       /\ j = job[w] =>
              \/ /\ s = "deep_evaluation"
                 /\ stage[w] = "triage" \/ pc[w] \in {"lookup", "generate"}
              \/ /\ s = "triage" /\ stage[w] = "triage"
                 /\ pc[w] \in {"discovery", "lookup", "generate"}

\* A call that may still be made leaves room for itself.
PaidOf(w) ==
    \A s \in Stages, j \in Jobs :
        /\ paid[w][s][j] <= attempt[w]
        /\ Pending(w, s, j) => paid[w][s][j] < attempt[w]

PaidOK == \A w \in Workers : PaidOf(w)

IInv == Basic /\ PaidOK

-----------------------------------------------------------------------------
(* What the helpers of the actions do to the locals of all workers.        *)

\* w is where its Run was left: no local of Run is set.
Left(w) ==
    /\ older' \in [Workers -> Nat]
    /\ batch' \in [Workers -> SUBSET Jobs]
    /\ job' \in [Workers -> Jobs \cup {None}]
    /\ stage' \in [Workers -> Stages]
    /\ proposal' \in [Workers -> Recommendations \cup {None}]
    /\ score' \in [Workers -> Evaluation \cup {None}]
    /\ batch'[w] = {} /\ job'[w] = None /\ stage'[w] = "triage"
    /\ \A v \in Workers \ {w} :
           /\ batch'[v] = batch[v] /\ job'[v] = job[v]
           /\ stage'[v] = stage[v] /\ proposal'[v] = proposal[v]

\* Leaving Run resets its locals and touches no other worker's.
LEMMA LeaveStep ==
    ASSUME TypeOK, NEW w \in Workers, Leave(w)
    PROVE  Left(w)
BY DEF TypeOK, Leave, Left, Stages

\* Execute either starts another attempt or gives up.
Retried(w) ==
    /\ attempt' \in [Workers -> 0..(MaxRetries + 1)]
    /\ status' \in [Workers -> {"SUCCEEDED", "DEAD_LETTER", None}]
    /\ pc' \in [Workers -> Labels]
    /\ \/ pc'[w] = "list" /\ attempt'[w] = attempt[w] + 1
       \/ pc'[w] = "idle" /\ attempt'[w] = attempt[w]
    /\ \A v \in Workers \ {w} : pc'[v] = pc[v] /\ attempt'[v] = attempt[v]

\* A failed attempt is retried, or the run becomes a dead letter.
LEMMA FailStep ==
    ASSUME TypeOK, NEW w \in Workers, Fail(w)
    PROVE  Left(w) /\ Retried(w)
<1>1. Left(w)
  BY LeaveStep DEF Fail
<1>3. CASE attempt[w] <= MaxRetries
  <2>1. attempt[w] + 1 \in 0..(MaxRetries + 1)
    BY <1>3, ConstantsAssumption DEF TypeOK
  <2>2. attempt' = [attempt EXCEPT ![w] = attempt[w] + 1] /\ status' = status
        /\ pc' = [pc EXCEPT ![w] = "list"]
    BY <1>3 DEF Fail, Decide, Goto
  <2>3. attempt' \in [Workers -> 0..(MaxRetries + 1)]
    BY <2>1, <2>2 DEF TypeOK
  <2> QED BY <1>1, <2>2, <2>3 DEF TypeOK, Labels, Retried
<1>4. CASE ~(attempt[w] <= MaxRetries)
  <2>1. attempt' = attempt /\ status' = [status EXCEPT ![w] = "DEAD_LETTER"]
        /\ pc' = [pc EXCEPT ![w] = "idle"]
    BY <1>4 DEF Fail, Decide, Goto
  <2> QED BY <1>1, <2>1 DEF TypeOK, Labels, Retried
<1> QED BY <1>3, <1>4

\* Process returned: its job leaves the batch.
ReturnedFrom(w) ==
    /\ older' \in [Workers -> Nat]
    /\ batch' \in [Workers -> SUBSET Jobs]
    /\ job' \in [Workers -> Jobs \cup {None}]
    /\ stage' \in [Workers -> Stages]
    /\ proposal' \in [Workers -> Recommendations \cup {None}]
    /\ score' \in [Workers -> Evaluation \cup {None}]
    /\ pc' \in [Workers -> Labels]
    /\ batch'[w] = batch[w] \ {job[w]} /\ job'[w] = None
    /\ stage'[w] = "triage" /\ pc'[w] = "next"
    /\ \A v \in Workers \ {w} :
           /\ batch'[v] = batch[v] /\ job'[v] = job[v] /\ pc'[v] = pc[v]
           /\ stage'[v] = stage[v] /\ proposal'[v] = proposal[v]
    /\ UNCHANGED retries

\* A returned score is one of the job that Process was at.
LEMMA ReturnStep ==
    ASSUME TypeOK, NEW w \in Workers, job[w] # None,
           NEW s \in Stages, NEW r \in Recommendations, Return(w, s, r)
    PROVE  ReturnedFrom(w)
<1> DEFINE sc == [job |-> job[w], stage |-> s, recommendation |-> r]
<1>1. sc \in Evaluation
  BY DEF TypeOK, Evaluation
<1>2. score' = [score EXCEPT ![w] = sc]
  BY DEF Return
<1> HIDE DEF sc
<1>3. score' \in [Workers -> Evaluation \cup {None}]
  BY <1>1, <1>2 DEF TypeOK
<1>4. "triage" \in Stages
  BY DEF Stages
<1> QED
  BY <1>3, <1>4 DEF TypeOK, Return, ReturnedFrom, Goto, Labels

\* A worker went on to another step of Process, perhaps with a proposal.
Moved(w) ==
    /\ pc' \in [Workers -> Labels]
    /\ proposal' \in [Workers -> Recommendations \cup {None}]
    /\ \A v \in Workers \ {w} : pc'[v] = pc[v] /\ proposal'[v] = proposal[v]
    /\ UNCHANGED <<retries, older, batch, job, score>>

\* What a stage produced is returned, or goes on to the budget check.
LEMMA ProceedStep ==
    ASSUME TypeOK, NEW w \in Workers, job[w] # None,
           NEW r \in Recommendations, Proceed(w, r)
    PROVE  \/ ReturnedFrom(w)
           \/ /\ Moved(w) /\ stage' = stage
              /\ stage[w] = "triage" /\ pc'[w] = "budget"
<1>1. stage[w] \in Stages
  BY DEF TypeOK
<1>2. CASE Return(w, stage[w], r)
  BY <1>1, <1>2, ReturnStep
<1>3. CASE ~Return(w, stage[w], r)
  BY <1>3 DEF TypeOK, Proceed, Goto, Labels, Moved
<1> QED BY <1>2, <1>3

-----------------------------------------------------------------------------
(* Types and the shape of the locals.                                      *)

\* Each effect on the locals keeps Basic, with the store typed again.
LEMMA EffectsKeepBasic ==
    ASSUME Basic, NEW w \in Workers,
           evals' \in [Stages -> [Jobs -> Recommendations \cup {None}]],
           deepToday' \in Nat,
           saved' \in SUBSET Evaluation,
           paid' \in [Workers -> [Stages -> [Jobs -> Nat]]],
           \/ Left(w) /\ Retried(w)
           \/ ReturnedFrom(w)
           \/ /\ Moved(w) /\ stage' \in [Workers -> Stages]
              /\ \A v \in Workers \ {w} : stage'[v] = stage[v]
              /\ pc[w] \in InProcess /\ pc'[w] \in InProcess
              /\ pc'[w] = "save" => proposal'[w] # None
              /\ stage'[w] = "deep_evaluation" => pc'[w] \in {"lookup", "generate", "save"}
    PROVE  Basic'
<1> USE DEF InProcess
<1>1. CASE Left(w) /\ Retried(w)
  <2>1. TypeOK'
    BY <1>1 DEF Basic, TypeOK, Left, Retried
  <2>2. ShapeOf(w)'
    BY <1>1 DEF Basic, TypeOK, Shape, ShapeOf, Left, Retried
  <2>3. ASSUME NEW v \in Workers \ {w} PROVE ShapeOf(v)'
    BY <1>1 DEF Basic, Shape, ShapeOf, Left, Retried
  <2>4. Shape'
    BY <2>2, <2>3 DEF Shape
  <2> QED BY <2>1, <2>4 DEF Basic
<1>2. CASE ReturnedFrom(w)
  <2>1. TypeOK'
    BY <1>2 DEF Basic, TypeOK, ReturnedFrom, retries
  <2>2. ShapeOf(w)'
    BY <1>2 DEF Basic, TypeOK, Shape, ShapeOf, ReturnedFrom
  <2>3. ASSUME NEW v \in Workers \ {w} PROVE ShapeOf(v)'
    BY <1>2 DEF Basic, Shape, ShapeOf, ReturnedFrom
  <2>4. Shape'
    BY <2>2, <2>3 DEF Shape
  <2> QED BY <2>1, <2>4 DEF Basic
<1>3. CASE /\ Moved(w) /\ stage' \in [Workers -> Stages]
           /\ \A v \in Workers \ {w} : stage'[v] = stage[v]
           /\ pc[w] \in InProcess /\ pc'[w] \in InProcess
           /\ pc'[w] = "save" => proposal'[w] # None
           /\ stage'[w] = "deep_evaluation" => pc'[w] \in {"lookup", "generate", "save"}
  <2>1. TypeOK'
    BY <1>3 DEF Basic, TypeOK, Moved, retries
  <2>2. ShapeOf(w)'
    BY <1>3 DEF Basic, TypeOK, Shape, ShapeOf, Moved
  <2>3. ASSUME NEW v \in Workers \ {w} PROVE ShapeOf(v)'
    BY <1>3 DEF Basic, Shape, ShapeOf, Moved
  <2>4. Shape'
    BY <2>2, <2>3 DEF Shape
  <2> QED BY <2>1, <2>4 DEF Basic
<1> QED BY <1>1, <1>2, <1>3

\* The recommendation table: model output becomes a recommendation.
LEMMA DerivableTyped == \A s \in Stages : Derivable(s) \subseteq Recommendations
<1>1. \A p : ApplyEvaluation(p) \in Recommendations
  BY DEF ApplyEvaluation, Recommendations
<1> QED BY <1>1 DEF Derivable, ApplyTriage, Recommendations

\* What each action but the store's own does to the locals of its worker.
LEMMA StepEffect ==
    ASSUME Basic, NEW w \in Workers, Step(w)
    PROVE  \/ Left(w) /\ Retried(w)
           \/ ReturnedFrom(w)
           \/ /\ Moved(w) /\ stage' \in [Workers -> Stages]
              /\ \A v \in Workers \ {w} : stage'[v] = stage[v]
              /\ pc[w] \in InProcess /\ pc'[w] \in InProcess
              /\ pc'[w] = "save" => proposal'[w] # None
              /\ stage'[w] = "deep_evaluation" => pc'[w] \in {"lookup", "generate", "save"}
              /\ CheckBudget(w) \/ stage' = stage
           \/ ListPendingEvaluation(w) \/ Process(w)
<1> USE DEF InProcess
<1>1. CASE CheckDiscovery(w)
  <2>1. CASE Goto(w, "lookup") /\ UNCHANGED <<retries, progress>>
    BY <1>1, <2>1 DEF CheckDiscovery, Goto, Basic, TypeOK, Labels, Moved, progress
  <2> QED BY <1>1, <2>1, FailStep DEF CheckDiscovery, Basic
<1>2. CASE Lookup(w)
  <2>1. job[w] \in Jobs /\ stage[w] \in Stages /\ pc[w] = "lookup"
    BY <1>2 DEF Lookup, Basic, TypeOK, Shape, ShapeOf
  <2> DEFINE existing == evals[stage[w]][job[w]]
  <2>2. existing \in Recommendations \cup {None}
    BY <2>1 DEF Basic, TypeOK
  <2>3. CASE existing # None /\ Proceed(w, existing)
    <3>1. job[w] # None
      BY <2>1, ConstantsAssumption
    <3> HIDE DEF existing
    <3> QED BY <2>1, <2>2, <2>3, <3>1, ProceedStep DEF Basic, TypeOK
  <2>4. CASE Goto(w, "generate") /\ UNCHANGED <<retries, progress>>
    BY <2>1, <2>4 DEF Goto, Basic, TypeOK, Labels, Moved, progress
  <2> QED BY <1>2, <2>3, <2>4, FailStep DEF Lookup, Basic
<1>3. CASE Generate(w)
  <2>1. CASE Fail(w)
    BY <2>1, FailStep DEF Basic
  <2>2. ASSUME NEW r \in Derivable(stage[w]),
               proposal' = [proposal EXCEPT ![w] = r], Goto(w, "save"),
               UNCHANGED <<retries, older, batch, job, stage, score>>
        PROVE  Moved(w) /\ proposal'[w] # None
    <3>1. r \in Recommendations /\ r # None
      BY DerivableTyped, ConstantsAssumption DEF Basic, TypeOK
    <3> QED BY <2>2, <3>1 DEF Goto, Basic, TypeOK, Labels, Moved
  <2>3. CASE ~Fail(w)
    <3>1. PICK r \in Derivable(stage[w]) :
              /\ proposal' = [proposal EXCEPT ![w] = r]
              /\ Goto(w, "save")
              /\ UNCHANGED <<retries, older, batch, job, stage, score>>
      BY <1>3, <2>3 DEF Generate
    <3>2. Moved(w) /\ proposal'[w] # None
      BY <2>2, <3>1
    <3> QED BY <1>3, <3>1, <3>2 DEF Generate, Goto, Basic, TypeOK
  <2> QED BY <2>1, <2>3
<1>4. CASE SaveEvaluation(w)
  <2>1. CASE Fail(w)
    BY <2>1, FailStep DEF Basic
  <2>2. CASE Proceed(w, proposal[w])
    <3>1. job[w] # None /\ proposal[w] \in Recommendations /\ pc[w] = "save"
      BY <1>4 DEF SaveEvaluation, Basic, TypeOK, Shape, ShapeOf
    <3> QED BY <2>2, <3>1, ProceedStep DEF Basic, TypeOK
  <2> QED BY <1>4, <2>1, <2>2 DEF SaveEvaluation
<1>5. CASE CheckBudget(w)
  <2>1. CASE Fail(w)
    BY <2>1, FailStep DEF Basic
  <2>2. CASE Return(w, "triage", "APPLY")
    <3>1. job[w] # None /\ "triage" \in Stages /\ "APPLY" \in Recommendations
      BY <1>5 DEF CheckBudget, Basic, Shape, ShapeOf, Stages, Recommendations
    <3> QED BY <2>2, <3>1, ReturnStep DEF Basic
  <2>3. CASE /\ stage' = [stage EXCEPT ![w] = "deep_evaluation"]
             /\ Goto(w, "lookup")
             /\ UNCHANGED <<retries, older, batch, job, proposal, score>>
    BY <1>5, <2>3 DEF CheckBudget, Goto, Basic, TypeOK, Labels, Moved, Stages
  <2> QED BY <1>5, <2>1, <2>2, <2>3 DEF CheckBudget
<1> QED BY <1>1, <1>2, <1>3, <1>4, <1>5 DEF Step

\* The store and the count of paid calls keep their types.
LEMMA StepStore ==
    ASSUME Basic, NEW w \in Workers, Step(w)
    PROVE  /\ evals' \in [Stages -> [Jobs -> Recommendations \cup {None}]]
           /\ deepToday' \in Nat
           /\ saved' \in SUBSET Evaluation
           /\ paid' \in [Workers -> [Stages -> [Jobs -> Nat]]]
<1>1. CASE Generate(w)
  <2>1. job[w] \in Jobs /\ stage[w] \in Stages
    BY <1>1 DEF Generate, InProcess, Basic, TypeOK, Shape, ShapeOf
  <2>2. paid' = [paid EXCEPT ![w] = [paid[w] EXCEPT ![stage[w]] =
                    [paid[w][stage[w]] EXCEPT ![job[w]] = paid[w][stage[w]][job[w]] + 1]]]
    BY <1>1 DEF Generate
  <2>3. [paid[w][stage[w]] EXCEPT ![job[w]] = paid[w][stage[w]][job[w]] + 1] \in [Jobs -> Nat]
    BY <2>1 DEF Basic, TypeOK
  <2>4. [paid[w] EXCEPT ![stage[w]] =
            [paid[w][stage[w]] EXCEPT ![job[w]] = paid[w][stage[w]][job[w]] + 1]]
        \in [Stages -> [Jobs -> Nat]]
    BY <2>1, <2>3 DEF Basic, TypeOK
  <2>5. paid' \in [Workers -> [Stages -> [Jobs -> Nat]]]
    BY <2>2, <2>4 DEF Basic, TypeOK
  <2>6. evals' = evals /\ deepToday' = deepToday /\ saved' = saved
    BY <1>1 DEF Generate, store
  <2> QED BY <2>5, <2>6 DEF Basic, TypeOK
<1>2. CASE SaveEvaluation(w)
  <2>1. job[w] \in Jobs /\ stage[w] \in Stages
    BY <1>2 DEF SaveEvaluation, InProcess, Basic, TypeOK, Shape, ShapeOf
  <2>2. [evals[stage[w]] EXCEPT ![job[w]] = proposal[w]] \in [Jobs -> Recommendations \cup {None}]
    BY <2>1 DEF Basic, TypeOK
  <2>3. evals' = evals \/
        evals' = [evals EXCEPT ![stage[w]] = [evals[stage[w]] EXCEPT ![job[w]] = proposal[w]]]
    BY <1>2 DEF SaveEvaluation, store
  <2>4. deepToday' = deepToday \/ deepToday' = deepToday + 1
    BY <1>2 DEF SaveEvaluation, store
  <2>5. evals' \in [Stages -> [Jobs -> Recommendations \cup {None}]]
    BY <2>2, <2>3 DEF Basic, TypeOK
  <2>6. deepToday' \in Nat
    BY <2>4 DEF Basic, TypeOK
  <2>7. paid' = paid
    BY <1>2 DEF SaveEvaluation
  <2>8. saved' \in SUBSET Evaluation
    <3>1. proposal[w] \in Recommendations
      BY <1>2 DEF SaveEvaluation, Basic, TypeOK, Shape, ShapeOf
    <3>2. [job |-> job[w], stage |-> stage[w], recommendation |-> proposal[w]] \in Evaluation
      BY <2>1, <3>1 DEF Evaluation
    <3> QED BY <1>2, <3>2 DEF SaveEvaluation, store, Basic, TypeOK
  <2> QED BY <2>5, <2>6, <2>7, <2>8 DEF Basic, TypeOK
<1>3. CASE ListPendingEvaluation(w) \/ Process(w) \/ CheckDiscovery(w) \/ Lookup(w) \/ CheckBudget(w)
  BY <1>3 DEF ListPendingEvaluation, Process, CheckDiscovery, Lookup, CheckBudget, store, Basic, TypeOK
<1> QED BY <1>1, <1>2, <1>3 DEF Step

\* The inductive step of Basic.
LEMMA BasicNext == Basic /\ [Next]_vars => Basic'
<1> SUFFICES ASSUME Basic, [Next]_vars PROVE Basic'
  OBVIOUS
<1> USE DEF InProcess
<1>1. CASE UNCHANGED vars
  BY <1>1 DEF vars, Basic, TypeOK, Shape, ShapeOf
<1>2. CASE Midnight
  <2>1. older' \in [Workers -> Nat]
    BY <1>2 DEF Midnight, Basic, TypeOK
  <2> QED BY <1>2, <2>1 DEF Midnight, retries, Basic, TypeOK, Shape, ShapeOf
<1>3. ASSUME NEW w \in Workers, Execute(w) PROVE Basic'
  <2>1. paid' \in [Workers -> [Stages -> [Jobs -> Nat]]]
    BY <1>3 DEF Execute, Basic, TypeOK
  <2>2. attempt' \in [Workers -> 0..(MaxRetries + 1)]
    BY <1>3, ConstantsAssumption DEF Execute, Basic, TypeOK
  <2>3. TypeOK'
    BY <1>3, <2>1, <2>2 DEF Execute, Goto, store, progress, Labels, Basic, TypeOK
  <2>4. Shape'
    BY <1>3 DEF Execute, Goto, progress, Basic, TypeOK, Shape, ShapeOf
  <2> QED BY <2>3, <2>4 DEF Basic
<1>4. ASSUME NEW w \in Workers, Crash(w) PROVE Basic'
  <2>1. Left(w) /\ pc' = [pc EXCEPT ![w] = "idle"]
    BY <1>4, LeaveStep DEF Crash, Goto, Basic
  <2>2. TypeOK'
    BY <1>4, <2>1 DEF Crash, Left, store, retries, Labels, Basic, TypeOK
  <2>3. Shape'
    BY <2>1 DEF Left, Basic, TypeOK, Shape, ShapeOf
  <2> QED BY <2>2, <2>3 DEF Basic
<1>5. ASSUME NEW w \in Workers, Step(w) PROVE Basic'
  <2>1. CASE ListPendingEvaluation(w)
    <3>1. CASE Fail(w)
      BY <1>5, <3>1, FailStep, StepStore, EffectsKeepBasic DEF Basic
    <3>2. CASE ~Fail(w)
      <4>1. PICK jobs \in SUBSET Jobs :
                /\ batch' = [batch EXCEPT ![w] = jobs]
                /\ Goto(w, "next")
                /\ UNCHANGED <<retries, older, job, stage, proposal, score>>
        BY <2>1, <3>2 DEF ListPendingEvaluation
      <4>2. TypeOK'
        BY <2>1, <4>1 DEF ListPendingEvaluation, Goto, store, retries, Labels, Basic, TypeOK
      <4>3. Shape'
        BY <2>1, <4>1 DEF ListPendingEvaluation, Goto, Basic, TypeOK, Shape, ShapeOf
      <4> QED BY <4>2, <4>3 DEF Basic
    <3> QED BY <3>1, <3>2
  <2>2. CASE Process(w)
    <3>1. CASE \E j \in batch[w] :
                  /\ job' = [job EXCEPT ![w] = j]
                  /\ Goto(w, "discovery")
                  /\ UNCHANGED <<retries, older, batch, stage, proposal, score>>
      <4>1. PICK j \in batch[w] :
                  /\ job' = [job EXCEPT ![w] = j]
                  /\ Goto(w, "discovery")
                  /\ UNCHANGED <<retries, older, batch, stage, proposal, score>>
        BY <3>1
      <4>2. j \in Jobs /\ j # None
        BY ConstantsAssumption DEF Basic, TypeOK
      <4>3. TypeOK'
        BY <2>2, <4>1, <4>2 DEF Process, Goto, store, retries, Labels, Basic, TypeOK
      <4>4. Shape'
        BY <2>2, <4>1, <4>2 DEF Process, Goto, Basic, TypeOK, Shape, ShapeOf
      <4> QED BY <4>3, <4>4 DEF Basic
    <3>2. CASE /\ status' = [status EXCEPT ![w] = "SUCCEEDED"]
               /\ Goto(w, "idle")
               /\ Leave(w)
               /\ UNCHANGED attempt
      <4>1. Left(w)
        BY <3>2, LeaveStep DEF Basic
      <4>2. TypeOK'
        BY <2>2, <3>2, <4>1 DEF Process, Goto, Left, store, Labels, Basic, TypeOK
      <4>3. Shape'
        BY <3>2, <4>1 DEF Goto, Left, Basic, TypeOK, Shape, ShapeOf
      <4> QED BY <4>2, <4>3 DEF Basic
    <3> QED BY <2>2, <3>1, <3>2 DEF Process
  <2>3. CASE ~ListPendingEvaluation(w) /\ ~Process(w)
    BY <1>5, <2>3, StepEffect, StepStore, EffectsKeepBasic
  <2> QED BY <2>1, <2>2, <2>3
<1> QED
  BY <1>1, <1>2, <1>3, <1>4, <1>5 DEF Next

LEMMA BasicInit == Init => Basic
BY ConstantsAssumption DEF Init, Basic, TypeOK, Shape, ShapeOf, InProcess, Labels, Stages

\* All state keeps its type (the run's TypeOK) for every value of the constants.
THEOREM TypeCorrect == Spec => []TypeOK
<1>1. Basic => TypeOK
  BY DEF Basic
<1> QED BY <1>1, BasicInit, BasicNext, PTL DEF Spec
-----------------------------------------------------------------------------
(* Retries pay for each call at most once per attempt.                     *)

\* After a failed attempt every call may be made once more.
LEMMA FailPaid ==
    ASSUME Basic, NEW w \in Workers, Left(w), Retried(w),
           \A s \in Stages, j \in Jobs :
               paid'[w][s][j] \in Nat /\ paid'[w][s][j] <= attempt[w]
    PROVE  PaidOf(w)'
<1>1. attempt[w] \in Nat /\ job'[w] = None /\ batch'[w] = {}
  BY DEF Basic, TypeOK, Left
<1>2. CASE pc'[w] = "list" /\ attempt'[w] = attempt[w] + 1
  BY <1>1, <1>2 DEF PaidOf
<1>3. CASE pc'[w] = "idle" /\ attempt'[w] = attempt[w]
  BY <1>1, <1>3 DEF PaidOf, Pending
<1> QED BY <1>2, <1>3 DEF Retried

\* A job that was returned leaves the rest of the batch as it was.
LEMMA ReturnPaid ==
    ASSUME Basic, NEW w \in Workers, PaidOf(w), ReturnedFrom(w), paid' = paid
    PROVE  PaidOf(w)'
<1> SUFFICES ASSUME NEW s \in Stages, NEW j \in Jobs
             PROVE  /\ paid[w][s][j] <= attempt[w]
                    /\ Pending(w, s, j)' => paid[w][s][j] < attempt[w]
  BY DEF PaidOf, ReturnedFrom, retries
<1>1. Pending(w, s, j)' => Pending(w, s, j)
  BY ConstantsAssumption DEF Pending, ReturnedFrom
<1> QED BY <1>1 DEF PaidOf

\* Other steps only use up what was pending.
LEMMA MovePaid ==
    ASSUME NEW w \in Workers, PaidOf(w), paid' = paid, attempt' = attempt,
           \A s \in Stages, j \in Jobs : Pending(w, s, j)' => Pending(w, s, j)
    PROVE  PaidOf(w)'
BY DEF PaidOf

\* The worker that takes a step keeps its bound.
LEMMA StepPaid ==
    ASSUME Basic, NEW w \in Workers, PaidOf(w), Step(w)
    PROVE  PaidOf(w)'
<1>0. \A s \in Stages, j \in Jobs : paid[w][s][j] \in Nat /\ paid[w][s][j] <= attempt[w]
  BY DEF Basic, TypeOK, PaidOf
<1>1. CASE ReturnedFrom(w) /\ paid' = paid
  BY <1>1, ReturnPaid
<1>2. CASE Fail(w) /\ paid' = paid
  <2>1. Left(w) /\ Retried(w)
    BY <1>2, FailStep DEF Basic
  <2> QED BY <1>0, <1>2, <2>1, FailPaid
<1>3. CASE ListPendingEvaluation(w)
  <2>1. CASE ~Fail(w)
    <3>1. PICK jobs \in SUBSET Jobs :
              /\ batch' = [batch EXCEPT ![w] = jobs]
              /\ Goto(w, "next")
              /\ UNCHANGED <<retries, older, job, stage, proposal, score>>
      BY <1>3, <2>1 DEF ListPendingEvaluation
    <3> QED BY <1>3, <3>1, MovePaid DEF ListPendingEvaluation, Goto, retries, Pending
  <2> QED BY <1>2, <1>3, <2>1 DEF ListPendingEvaluation
<1>4. CASE Process(w)
  <2>1. CASE \E j \in batch[w] :
                /\ job' = [job EXCEPT ![w] = j]
                /\ Goto(w, "discovery")
                /\ UNCHANGED <<retries, older, batch, stage, proposal, score>>
    <3>1. PICK j \in batch[w] :
                /\ job' = [job EXCEPT ![w] = j]
                /\ Goto(w, "discovery")
                /\ UNCHANGED <<retries, older, batch, stage, proposal, score>>
      BY <2>1
    <3>2. job[w] = None /\ stage[w] = "triage"
      BY <1>4 DEF Process, Basic, TypeOK, Shape, ShapeOf, InProcess, Stages
    <3>3. \A s \in Stages, k \in Jobs : Pending(w, s, k)' => Pending(w, s, k)
      BY <1>4, <3>1, <3>2, ConstantsAssumption DEF Process, Goto, Pending, Basic, TypeOK
    <3> QED BY <1>4, <3>1, <3>3, MovePaid DEF Process, retries
  <2>2. CASE Leave(w) /\ Goto(w, "idle") /\ attempt' = attempt
    <3>1. Left(w) /\ pc'[w] = "idle"
      BY <2>2, LeaveStep DEF Goto, Basic, TypeOK
    <3>2. \A s \in Stages, j \in Jobs : ~Pending(w, s, j)'
      BY <3>1 DEF Left, Pending
    <3> QED BY <1>4, <2>2, <3>2, MovePaid DEF Process
  <2> QED BY <1>4, <2>1, <2>2 DEF Process
<1>5. CASE CheckDiscovery(w)
  <2>1. CASE Goto(w, "lookup") /\ UNCHANGED <<retries, progress>>
    <3>1. \A s \in Stages, j \in Jobs : Pending(w, s, j)' => Pending(w, s, j)
      BY <1>5, <2>1 DEF CheckDiscovery, Goto, progress, Pending, Basic, TypeOK, Shape, ShapeOf, Stages
    <3> QED BY <1>5, <2>1, <3>1, MovePaid DEF CheckDiscovery, retries
  <2> QED BY <1>2, <1>5, <2>1 DEF CheckDiscovery
<1>6. ASSUME NEW r \in Recommendations, Proceed(w, r), paid' = paid,
             pc[w] \in {"lookup", "save"}
      PROVE  PaidOf(w)'
  <2>1. job[w] # None
    BY <1>6 DEF Basic, Shape, ShapeOf, InProcess
  <2>2. CASE ReturnedFrom(w)
    BY <1>1, <1>6, <2>2
  <2>3. CASE Moved(w) /\ stage' = stage /\ stage[w] = "triage" /\ pc'[w] = "budget"
    <3>1. \A s \in Stages, j \in Jobs : Pending(w, s, j)' => Pending(w, s, j)
      BY <1>6, <2>3 DEF Moved, Pending
    <3> QED BY <1>6, <2>3, <3>1, MovePaid DEF Moved, retries
  <2> QED BY <1>6, <2>1, <2>2, <2>3, ProceedStep DEF Basic
<1>7. CASE Lookup(w)
  <2>1. job[w] \in Jobs /\ stage[w] \in Stages
    BY <1>7 DEF Lookup, InProcess, Basic, TypeOK, Shape, ShapeOf
  <2>2. evals[stage[w]][job[w]] \in Recommendations \cup {None}
    BY <2>1 DEF Basic, TypeOK
  <2>3. CASE Goto(w, "generate") /\ UNCHANGED <<retries, progress>>
    <3>1. \A s \in Stages, j \in Jobs : Pending(w, s, j)' => Pending(w, s, j)
      BY <1>7, <2>3 DEF Lookup, Goto, progress, Pending, Basic, TypeOK
    <3> QED BY <1>7, <2>3, <3>1, MovePaid DEF Lookup, retries
  <2> QED BY <1>2, <1>6, <1>7, <2>2, <2>3 DEF Lookup
<1>8. CASE Generate(w)
  <2>1. job[w] \in Jobs /\ stage[w] \in Stages /\ job[w] \in batch[w] /\ pc[w] = "generate"
    BY <1>8 DEF Generate, InProcess, Basic, TypeOK, Shape, ShapeOf
  <2>2. Pending(w, stage[w], job[w])
    BY <2>1 DEF Pending, Stages
  <2>3. \A s \in Stages, j \in Jobs :
            paid'[w][s][j] = IF s = stage[w] /\ j = job[w] THEN paid[w][s][j] + 1
                                                           ELSE paid[w][s][j]
    BY <1>8, <2>1 DEF Generate, Basic, TypeOK
  <2>4. \A s \in Stages, j \in Jobs :
            paid'[w][s][j] \in Nat /\ paid'[w][s][j] <= attempt[w]
    <3>1. paid[w][stage[w]][job[w]] < attempt[w]
      BY <2>1, <2>2 DEF PaidOf
    <3>2. attempt[w] \in Nat
      BY DEF Basic, TypeOK
    <3> QED BY <1>0, <2>1, <2>3, <3>1, <3>2
  <2>5. CASE Fail(w)
    <3>1. Left(w) /\ Retried(w)
      BY <2>5, FailStep DEF Basic
    <3> QED BY <2>4, <3>1, FailPaid
  <2>6. CASE ~Fail(w)
    <3>1. Goto(w, "save") /\ UNCHANGED <<retries, batch, job, stage>>
      BY <1>8, <2>6 DEF Generate
    <3>2. \A s \in Stages, j \in Jobs : Pending(w, s, j)' =>
              Pending(w, s, j) /\ ~(s = stage[w] /\ j = job[w])
      BY <2>1, <3>1 DEF Goto, Pending, Basic, TypeOK, Stages
    <3> QED BY <2>3, <2>4, <3>1, <3>2 DEF PaidOf, retries
  <2> QED BY <2>5, <2>6
<1>9. CASE SaveEvaluation(w)
  <2>1. proposal[w] \in Recommendations
    BY <1>9 DEF SaveEvaluation, Basic, TypeOK, Shape, ShapeOf
  <2> QED BY <1>2, <1>6, <1>9, <2>1 DEF SaveEvaluation
<1>10. CASE CheckBudget(w)
  <2>1. job[w] # None /\ "triage" \in Stages /\ "APPLY" \in Recommendations /\ stage[w] = "triage"
    BY <1>10 DEF CheckBudget, InProcess, Basic, TypeOK, Shape, ShapeOf, Stages, Recommendations
  <2>2. CASE Return(w, "triage", "APPLY")
    BY <1>1, <1>10, <2>1, <2>2, ReturnStep DEF CheckBudget, Basic
  <2>3. CASE /\ stage' = [stage EXCEPT ![w] = "deep_evaluation"]
             /\ Goto(w, "lookup")
             /\ UNCHANGED <<retries, older, batch, job, proposal, score>>
    <3>1. \A s \in Stages, j \in Jobs : Pending(w, s, j)' => Pending(w, s, j)
      BY <1>10, <2>1, <2>3 DEF CheckBudget, Goto, Pending, Basic, TypeOK
    <3> QED BY <1>10, <2>3, <3>1, MovePaid DEF CheckBudget, retries
  <2> QED BY <1>2, <1>10, <2>2, <2>3 DEF CheckBudget
<1> QED BY <1>3, <1>4, <1>5, <1>7, <1>8, <1>9, <1>10 DEF Step
\* The other workers' share of the state is left alone by a step of w.
LEMMA OthersUntouched ==
    ASSUME Basic, NEW w \in Workers, Step(w), NEW v \in Workers \ {w}
    PROVE  /\ pc'[v] = pc[v] /\ stage'[v] = stage[v] /\ job'[v] = job[v]
           /\ batch'[v] = batch[v] /\ attempt'[v] = attempt[v]
           /\ paid'[v] = paid[v]
<1>1. paid'[v] = paid[v]
  BY DEF Step, ListPendingEvaluation, Process, CheckDiscovery, Lookup, Generate,
         SaveEvaluation, CheckBudget, Basic, TypeOK
<1>2. CASE Left(w) /\ Retried(w)
  BY <1>1, <1>2 DEF Left, Retried
<1>3. CASE ReturnedFrom(w)
  BY <1>1, <1>3 DEF ReturnedFrom, retries
<1>4. CASE Moved(w) /\ \A u \in Workers \ {w} : stage'[u] = stage[u]
  BY <1>1, <1>4 DEF Moved, retries
<1>5. CASE ListPendingEvaluation(w) /\ ~Fail(w)
  BY <1>1, <1>5 DEF ListPendingEvaluation, Goto, retries, Basic, TypeOK
<1>6. CASE Process(w)
  <2>1. CASE Leave(w) /\ Goto(w, "idle") /\ attempt' = attempt
    BY <1>1, <2>1, LeaveStep DEF Left, Goto, Basic, TypeOK
  <2>2. CASE \E j \in batch[w] :
                 /\ job' = [job EXCEPT ![w] = j]
                 /\ Goto(w, "discovery")
                 /\ UNCHANGED <<retries, older, batch, stage, proposal, score>>
    BY <1>1, <2>2 DEF Goto, retries, Basic, TypeOK
  <2> QED BY <1>6, <2>1, <2>2 DEF Process
<1>7. CASE Fail(w)
  BY <1>2, <1>7, FailStep DEF Basic
<1> QED BY <1>2, <1>3, <1>4, <1>5, <1>6, <1>7, StepEffect

\* The inductive step of PaidOK.
LEMMA PaidNext == Basic /\ PaidOK /\ [Next]_vars => PaidOK'
<1> SUFFICES ASSUME Basic, PaidOK, [Next]_vars, NEW v \in Workers PROVE PaidOf(v)'
  BY DEF PaidOK
<1>0. PaidOf(v)
  BY DEF PaidOK
<1>1. CASE UNCHANGED vars \/ Midnight
  BY <1>0, <1>1 DEF vars, Midnight, retries, PaidOf, Pending
<1>2. ASSUME NEW w \in Workers, v # w,
             /\ pc'[v] = pc[v] /\ stage'[v] = stage[v] /\ job'[v] = job[v]
             /\ batch'[v] = batch[v] /\ attempt'[v] = attempt[v]
             /\ paid'[v] = paid[v]
      PROVE  PaidOf(v)'
  BY <1>0, <1>2 DEF PaidOf, Pending
<1>3. ASSUME NEW w \in Workers, Execute(w) PROVE PaidOf(v)'
  <2>1. CASE v = w
    <3>1. attempt'[w] = 1 /\ \A s \in Stages, j \in Jobs : paid'[w][s][j] = 0
      BY <1>3 DEF Execute, Basic, TypeOK
    <3> QED BY <2>1, <3>1 DEF PaidOf
  <2>2. CASE v # w
    BY <1>2, <1>3, <2>2 DEF Execute, Goto, progress, Basic, TypeOK
  <2> QED BY <2>1, <2>2
<1>4. ASSUME NEW w \in Workers, Crash(w) PROVE PaidOf(v)'
  <2>1. Left(w) /\ pc' = [pc EXCEPT ![w] = "idle"] /\ attempt' = attempt /\ paid' = paid
    BY <1>4, LeaveStep DEF Crash, Goto, retries, Basic
  <2>2. CASE v = w
    <3>1. \A s \in Stages, j \in Jobs : ~Pending(w, s, j)'
      BY <2>1 DEF Left, Pending, Basic, TypeOK
    <3> QED BY <1>0, <2>1, <2>2, <3>1, MovePaid
  <2>3. CASE v # w
    BY <1>2, <2>1, <2>3 DEF Left, Basic, TypeOK
  <2> QED BY <2>2, <2>3
<1>5. ASSUME NEW w \in Workers, Step(w) PROVE PaidOf(v)'
  <2>1. CASE v = w
    BY <1>0, <1>5, <2>1, StepPaid
  <2>2. CASE v # w
    BY <1>2, <1>5, <2>2, OthersUntouched
  <2> QED BY <2>1, <2>2
<1> QED
  BY <1>1, <1>3, <1>4, <1>5 DEF Next

\* Retries multiply what a batch costs by at most MaxRetries + 1, whichever
\* calls fail: the run's PaidCallsBounded for every value of the constants.
THEOREM PaidBounded == Spec => []PaidCallsBounded
<1>1. Init => PaidOK
  BY DEF Init, PaidOK, PaidOf, Pending
<1>2. PaidOK => PaidCallsBounded
  BY DEF PaidOK, PaidOf, PaidCallsBounded
<1> QED
  BY <1>1, <1>2, BasicInit, BasicNext, PaidNext, PTL DEF Spec

-----------------------------------------------------------------------------
(* The deep-evaluation limit implements the daily budget.                  *)

\* Every step of the pipeline is a step of the budget, or none.
LEMMA BudgetStep == Basic /\ [Next]_vars => [Budget!Next]_<<deepToday, Admitted>>
<1> SUFFICES ASSUME Basic, [Next]_vars
             PROVE  Budget!Next \/ UNCHANGED <<deepToday, Admitted>>
  OBVIOUS
<1> USE DEF Admitted
<1>1. CASE UNCHANGED vars
  BY <1>1 DEF vars
<1>2. CASE Midnight
  BY <1>2 DEF Midnight, Budget!Next, Budget!Midnight
<1>3. ASSUME NEW w \in Workers, Execute(w) PROVE UNCHANGED <<deepToday, Admitted>>
  BY <1>3 DEF Execute, store, progress
<1>4. ASSUME NEW w \in Workers, deepToday' = deepToday, stage'[w] = "triage",
             \A v \in Workers \ {w} : stage'[v] = stage[v]
      PROVE  Budget!Next \/ UNCHANGED <<deepToday, Admitted>>
  <2>1. Admitted' = Admitted \ {w}
    BY <1>4
  <2> QED BY <1>4, <2>1 DEF Budget!Next, Budget!Abandon
<1>5. ASSUME NEW w \in Workers, Crash(w)
      PROVE  Budget!Next \/ UNCHANGED <<deepToday, Admitted>>
  BY <1>4, <1>5, LeaveStep DEF Crash, store, Left, Basic
<1>6. ASSUME NEW w \in Workers, Step(w)
      PROVE  Budget!Next \/ UNCHANGED <<deepToday, Admitted>>
  <2>1. \A v \in Workers \ {w} : stage'[v] = stage[v]
    BY <1>6, OthersUntouched
  <2>2. CASE stage' = stage /\ deepToday' = deepToday
    BY <2>2
  <2>3. CASE deepToday' = deepToday /\ stage'[w] = "triage"
    BY <1>4, <2>1, <2>3
  <2>4. CASE CheckBudget(w) /\ stage'[w] # "triage"
    <3>1. stage[w] = "triage"
      BY <2>4 DEF CheckBudget, Basic, TypeOK, Shape, ShapeOf, Stages
    <3>2. stage' = [stage EXCEPT ![w] = "deep_evaluation"]
          /\ older[w] + deepToday < DeepEvaluationsPerDay /\ deepToday' = deepToday
      BY <2>4, LeaveStep DEF CheckBudget, Return, Fail, Leave, store, Basic, TypeOK
    <3>3. deepToday < DeepEvaluationsPerDay
      BY <3>2, ConstantsAssumption DEF Basic, TypeOK
    <3>4. Admitted' = Admitted \cup {w} /\ w \notin Admitted
      BY <2>1, <3>1, <3>2 DEF Basic, TypeOK
    <3> QED BY <3>2, <3>3, <3>4 DEF Budget!Next, Budget!Admit
  <2>5. CASE SaveEvaluation(w) /\ deepToday' # deepToday
    <3>1. stage[w] = "deep_evaluation" /\ deepToday' = deepToday + 1 /\ Proceed(w, proposal[w])
      BY <2>5 DEF SaveEvaluation, store, Basic, TypeOK, Stages
    <3>2. stage'[w] = "triage"
      BY <3>1 DEF Proceed, Return, Basic, TypeOK
    <3>3. Admitted' = Admitted \ {w} /\ w \in Admitted
      BY <2>1, <3>1, <3>2
    <3> QED BY <3>1, <3>3 DEF Budget!Next, Budget!Commit
  <2>6. CASE ~CheckBudget(w) /\ deepToday' = deepToday
    <3>1. CASE ListPendingEvaluation(w) \/ Process(w)
      <4>1. stage' = stage \/ Leave(w)
        BY <3>1 DEF ListPendingEvaluation, Process, Fail
      <4> QED BY <2>2, <2>3, <2>6, <4>1, LeaveStep DEF Left, Basic
    <3> QED BY <1>6, <2>2, <2>3, <2>6, <3>1, StepEffect DEF Left, ReturnedFrom
  <2> QED
    BY <2>3, <2>4, <2>5, <2>6, <1>6
       DEF Step, ListPendingEvaluation, Process, CheckDiscovery, Lookup, Generate, CheckBudget, store
<1> QED
  BY <1>1, <1>2, <1>3, <1>5, <1>6 DEF Next
\* The limit on deep evaluations implements the daily budget (the run's
\* BudgetSpec): no Process is admitted but below the limit, and each admission
\* is counted at most once.
THEOREM ImplementsBudget == Spec => BudgetSpec
<1>1. Init => Budget!Init
  BY DEF Init, Budget!Init, Admitted
<1> QED
  BY <1>1, BasicInit, BasicNext, BudgetStep, PTL DEF Spec, BudgetSpec, Budget!Spec

Proved == INSTANCE DailyBudgetProofs
    WITH Limit <- DeepEvaluationsPerDay, used <- deepToday, admitted <- Admitted

\* What follows from the contract: overlapping invocations exceed the daily
\* limit of deep evaluations by less than their number.
THEOREM DeepOverrun == Spec => []DeepOverrunBounded
<1>1. Proved!ConstantsOK
  BY ConstantsAssumption DEF Proved!ConstantsOK, IsFiniteSet, Proved!IsFiniteSet
<1>2. Proved!Spec => []Proved!OverrunBounded
  BY <1>1, Proved!BudgetOverrun
<1>3. BudgetSpec <=> Proved!Spec
  BY DEF BudgetSpec, Budget!Spec, Proved!Spec, Budget!Init, Proved!Init,
         Budget!Next, Proved!Next, Budget!Admit, Proved!Admit, Budget!Commit,
         Proved!Commit, Budget!Abandon, Proved!Abandon, Budget!Midnight, Proved!Midnight,
         Budget!Crash, Proved!Crash
<1>4. Proved!OverrunBounded <=> DeepOverrunBounded
  BY DEF Proved!OverrunBounded, DeepOverrunBounded, Budget!OverrunBounded,
         Budget!Cardinality, Proved!Cardinality, Budget!IsFiniteSet, Proved!IsFiniteSet
<1> QED
  BY <1>2, <1>3, <1>4, ImplementsBudget, PTL

-----------------------------------------------------------------------------
(* What is reported is on record, and so is the reason for a deep stage.    *)

Rec(j, s, r) == [job |-> j, stage |-> s, recommendation |-> r]

\* w is at, or past, the budget on the strength of a triage on record.
Strength(w) ==
    pc[w] = "budget" \/ stage[w] = "deep_evaluation" =>
        Rec(job[w], "triage", "APPLY") \in saved

Reported(w) == score[w] # None => score[w] \in saved

Justified(w) == Strength(w) /\ Reported(w)

\* What GetEvaluation may return was saved.
StoreOnRecord ==
    \A s \in Stages, j \in Jobs : evals[s][j] # None => Rec(j, s, evals[s][j]) \in saved

RecordInv == StoreOnRecord /\ DeepFollowsTriage /\ \A w \in Workers : Justified(w)

LEMMA LeaveJustified ==
    ASSUME Basic, NEW w \in Workers, Leave(w), pc'[w] # "budget"
    PROVE  Justified(w)'
BY DEF Basic, TypeOK, Leave, Justified, Strength, Reported

LEMMA FailJustified ==
    ASSUME Basic, NEW w \in Workers, Fail(w)
    PROVE  Justified(w)'
<1>1. pc'[w] # "budget"
  BY FailStep DEF Basic, Retried
<1> QED BY <1>1, LeaveJustified DEF Fail

LEMMA ReturnJustified ==
    ASSUME Basic, NEW w \in Workers, NEW s, NEW r, Return(w, s, r),
           Rec(job[w], s, r) \in saved'
    PROVE  Justified(w)'
BY DEF Basic, TypeOK, Return, Goto, Rec, Justified, Strength, Reported

LEMMA ProceedJustified ==
    ASSUME Basic, NEW w \in Workers, Justified(w), NEW r, Proceed(w, r),
           saved \subseteq saved', Rec(job[w], stage[w], r) \in saved'
    PROVE  Justified(w)'
<1>1. CASE Return(w, stage[w], r)
  BY <1>1, ReturnJustified
<1>2. CASE ~Return(w, stage[w], r)
  <2>1. /\ stage[w] = "triage" /\ r = "APPLY"
        /\ UNCHANGED <<job, stage, score>>
    BY <1>2 DEF Proceed
  <2> QED BY <2>1 DEF Justified, Strength, Reported, Rec
<1> QED BY <1>1, <1>2

\* A step that stays in Process with the same job, stage and score.
LEMMA StayJustified ==
    ASSUME NEW w \in Workers, Justified(w), pc'[w] # "budget",
           job'[w] = job[w], stage'[w] = stage[w], score'[w] = score[w],
           saved \subseteq saved'
    PROVE  Justified(w)'
BY DEF Justified, Strength, Reported, Rec

\* A step saves at most what SaveEvaluation had in hand.
LEMMA StepRecords ==
    ASSUME Basic, NEW w \in Workers, Step(w)
    PROVE  \/ UNCHANGED store
           \/ /\ SaveEvaluation(w) /\ pc[w] = "save"
              /\ evals' = [evals EXCEPT ![stage[w]][job[w]] = proposal[w]]
              /\ saved' = saved \cup {Rec(job[w], stage[w], proposal[w])}
              /\ Proceed(w, proposal[w])
BY DEF Step, ListPendingEvaluation, Process, CheckDiscovery, Lookup, Generate,
       SaveEvaluation, CheckBudget, Rec

\* No step reports for another worker.
LEMMA OthersScore ==
    ASSUME Basic, NEW w \in Workers, Step(w), NEW v \in Workers \ {w}
    PROVE  score'[v] = score[v]
<1>1. CASE Leave(w)
  BY <1>1 DEF Leave, Basic, TypeOK
<1>2. \A r : Proceed(w, r) => score'[v] = score[v]
  BY DEF Proceed, Return, Basic, TypeOK
<1>3. Return(w, "triage", "APPLY") => score'[v] = score[v]
  BY DEF Return, Basic, TypeOK
<1>4. CASE ~Leave(w)
  BY <1>2, <1>3, <1>4 DEF Step, ListPendingEvaluation, Process, CheckDiscovery, Lookup, Generate,
     SaveEvaluation, CheckBudget, Fail, progress
<1> QED BY <1>1, <1>4

LEMMA StepJustified ==
    ASSUME Basic, RecordInv, NEW w \in Workers, Step(w)
    PROVE  Justified(w)'
<1>0. Justified(w) /\ saved \subseteq saved'
  BY StepRecords DEF RecordInv, store
<1>1. CASE Fail(w)
  BY <1>1, FailJustified
<1>2. CASE ListPendingEvaluation(w) /\ ~Fail(w)
  <2>1. pc'[w] = "next" /\ UNCHANGED <<job, stage, score>>
    BY <1>2 DEF ListPendingEvaluation, Goto, Basic, TypeOK
  <2> QED BY <1>0, <2>1, StayJustified
<1>3. CASE Process(w)
  <2>1. CASE Leave(w) /\ Goto(w, "idle")
    BY <2>1, LeaveJustified DEF Goto, Basic, TypeOK
  <2>2. ASSUME NEW j \in batch[w], job' = [job EXCEPT ![w] = j], Goto(w, "discovery"),
               UNCHANGED <<stage, score>>
        PROVE  Justified(w)'
    <3>1. stage[w] = "triage"
      BY <1>3 DEF Process, Basic, TypeOK, Shape, ShapeOf, Stages
    <3> QED BY <1>0, <2>2, <3>1 DEF Goto, Basic, TypeOK, Justified, Strength, Reported
  <2> QED BY <1>3, <2>1, <2>2 DEF Process
<1>4. CASE CheckDiscovery(w) /\ ~Fail(w)
  <2>1. pc'[w] = "lookup" /\ UNCHANGED <<job, stage, score>>
    BY <1>4 DEF CheckDiscovery, Goto, progress, Basic, TypeOK
  <2> QED BY <1>0, <2>1, StayJustified
<1>5. CASE Lookup(w) /\ ~Fail(w)
  <2>1. job[w] \in Jobs /\ stage[w] \in Stages
    BY <1>5 DEF Lookup, InProcess, Basic, TypeOK, Shape, ShapeOf
  <2>2. CASE /\ evals[stage[w]][job[w]] # None
             /\ Proceed(w, evals[stage[w]][job[w]])
    <3>1. Rec(job[w], stage[w], evals[stage[w]][job[w]]) \in saved'
      BY <1>0, <2>1, <2>2 DEF RecordInv, StoreOnRecord
    <3> QED BY <1>0, <2>2, <3>1, ProceedJustified
  <2>3. CASE Goto(w, "generate") /\ UNCHANGED <<retries, progress>>
    <3>1. pc'[w] = "generate" /\ UNCHANGED <<job, stage, score>>
      BY <2>3 DEF Goto, progress, Basic, TypeOK
    <3> QED BY <1>0, <3>1, StayJustified
  <2> QED BY <1>5, <2>2, <2>3 DEF Lookup
<1>6. CASE Generate(w) /\ ~Fail(w)
  <2>1. pc'[w] = "save" /\ UNCHANGED <<job, stage, score>>
    BY <1>6 DEF Generate, Goto, Basic, TypeOK
  <2> QED BY <1>0, <2>1, StayJustified
<1>7. CASE SaveEvaluation(w) /\ ~Fail(w)
  <2>1. /\ saved' = saved \cup {Rec(job[w], stage[w], proposal[w])}
        /\ Proceed(w, proposal[w])
    BY <1>7 DEF SaveEvaluation, Rec
  <2> QED BY <1>0, <2>1, ProceedJustified
<1>8. CASE CheckBudget(w) /\ ~Fail(w)
  <2>1. Rec(job[w], "triage", "APPLY") \in saved'
    BY <1>0, <1>8 DEF CheckBudget, Justified, Strength
  <2>2. CASE Return(w, "triage", "APPLY")
    BY <2>1, <2>2, ReturnJustified
  <2>3. CASE Goto(w, "lookup") /\ UNCHANGED <<job, score>>
    BY <1>0, <2>1, <2>3 DEF Justified, Strength, Reported, Rec
  <2> QED BY <1>8, <2>2, <2>3 DEF CheckBudget
<1> QED BY <1>1, <1>2, <1>3, <1>4, <1>5, <1>6, <1>7, <1>8 DEF Step

\* What others save takes no reason away.
LEMMA OthersJustified ==
    ASSUME NEW v \in Workers, Justified(v), saved \subseteq saved',
           pc'[v] = pc[v], stage'[v] = stage[v], job'[v] = job[v], score'[v] = score[v]
    PROVE  Justified(v)'
BY DEF Justified, Strength, Reported, Rec

LEMMA RecordNext == Basic /\ RecordInv /\ [Next]_vars => RecordInv'
<1> SUFFICES ASSUME Basic, RecordInv, [Next]_vars PROVE RecordInv'
  OBVIOUS
<1>1. ASSUME evals' = evals, saved' = saved PROVE StoreOnRecord' /\ DeepFollowsTriage'
  BY <1>1 DEF RecordInv, StoreOnRecord, DeepFollowsTriage, Rec
<1>2. CASE UNCHANGED vars \/ Midnight
  <2>1. UNCHANGED <<evals, saved, pc, job, stage, score>>
    BY <1>2 DEF vars, Midnight
  <2> QED BY <1>1, <2>1, OthersJustified DEF RecordInv
<1>3. ASSUME NEW w \in Workers, Execute(w) PROVE RecordInv'
  <2>1. /\ UNCHANGED <<evals, saved, job, stage, score>>
        /\ pc' = [pc EXCEPT ![w] = "list"]
    BY <1>3 DEF Execute, store, progress, Goto
  <2>2. \A v \in Workers : Justified(v)'
    BY <2>1 DEF RecordInv, Justified, Strength, Reported, Rec, Basic, TypeOK
  <2> QED BY <1>1, <2>1, <2>2 DEF RecordInv
<1>4. ASSUME NEW w \in Workers, Crash(w) PROVE RecordInv'
  <2>1. UNCHANGED <<evals, saved>> /\ pc' = [pc EXCEPT ![w] = "idle"] /\ Leave(w)
    BY <1>4 DEF Crash, store, Goto
  <2>2. Justified(w)'
    BY <2>1, LeaveJustified DEF Basic, TypeOK
  <2>3. ASSUME NEW v \in Workers \ {w} PROVE Justified(v)'
    <3>1. pc'[v] = pc[v] /\ stage'[v] = stage[v] /\ job'[v] = job[v] /\ score'[v] = score[v]
      BY <2>1 DEF Leave, Basic, TypeOK
    <3> QED BY <2>1, <3>1, OthersJustified DEF RecordInv
  <2> QED BY <1>1, <2>1, <2>2, <2>3 DEF RecordInv
<1>5. ASSUME NEW w \in Workers, Step(w) PROVE RecordInv'
  <2>1. saved \subseteq saved'
    BY <1>5, StepRecords DEF store
  <2>2. \A v \in Workers \ {w} : Justified(v)'
    BY <1>5, <2>1, OthersUntouched, OthersScore, OthersJustified DEF RecordInv
  <2>3. Justified(w)'
    BY <1>5, StepJustified
  <2>4. StoreOnRecord' /\ DeepFollowsTriage'
    <3>1. CASE UNCHANGED store
      BY <1>1, <3>1 DEF store
    <3>2. CASE /\ SaveEvaluation(w) /\ pc[w] = "save"
               /\ evals' = [evals EXCEPT ![stage[w]][job[w]] = proposal[w]]
               /\ saved' = saved \cup {Rec(job[w], stage[w], proposal[w])}
      <4>1. StoreOnRecord'
        <5> SUFFICES ASSUME NEW s \in Stages, NEW j \in Jobs, evals'[s][j] # None
                     PROVE  Rec(j, s, evals'[s][j]) \in saved'
          BY DEF StoreOnRecord, Rec
        <5>1. CASE evals'[s][j] = evals[s][j]
          BY <2>1, <5>1 DEF RecordInv, StoreOnRecord
        <5>2. CASE s = stage[w] /\ j = job[w] /\ evals'[s][j] = proposal[w]
          BY <3>2, <5>2
        <5> QED BY <3>2, <5>1, <5>2 DEF Basic, TypeOK
      <4>2. stage[w] = "deep_evaluation" => Rec(job[w], "triage", "APPLY") \in saved
        BY DEF RecordInv, Justified, Strength
      <4> QED BY <3>2, <4>1, <4>2 DEF RecordInv, DeepFollowsTriage, Rec
    <3> QED BY <1>5, <3>1, <3>2, StepRecords
  <2> QED BY <2>2, <2>3, <2>4 DEF RecordInv
<1> QED BY <1>2, <1>3, <1>4, <1>5 DEF Next

LEMMA RecordInit == Init => RecordInv
BY DEF Init, RecordInv, StoreOnRecord, DeepFollowsTriage, Justified, Strength, Reported

\* A job only ever gets a deep evaluation if a triage that recommends it is on
\* record, whatever other runs save meanwhile.
THEOREM DeepFollows == Spec => []DeepFollowsTriage
<1>1. RecordInv => DeepFollowsTriage
  BY DEF RecordInv
<1> QED BY <1>1, BasicInit, BasicNext, RecordInit, RecordNext, PTL DEF Spec

\* No score is reported that was not put on record, whatever call fails.
THEOREM ReportedStored == Spec => []ReportedIsStored
<1>1. RecordInv => ReportedIsStored
  BY DEF RecordInv, Justified, Reported, ReportedIsStored
<1> QED BY <1>1, BasicInit, BasicNext, RecordInit, RecordNext, PTL DEF Spec
-----------------------------------------------------------------------------
(* How long a run may take.                                                *)

\* The steps of Process and of its return, by the place it has reached.
LEMMA StepsOfJobFacts ==
    /\ \A s \in Stages, l \in InProcess : StepsOfJob(l, s) \in 1..8
    /\ \A s \in Stages : StepsOfJob("discovery", s) = 8 /\ StepsOfJob("budget", s) = 4
    /\ StepsOfJob("lookup", "triage") = 7 /\ StepsOfJob("lookup", "deep_evaluation") = 3
    /\ StepsOfJob("generate", "triage") = 6 /\ StepsOfJob("generate", "deep_evaluation") = 2
    /\ StepsOfJob("save", "triage") = 5 /\ StepsOfJob("save", "deep_evaluation") = 1
BY DEF StepsOfJob, InProcess, Stages

\* The steps of an attempt, by the place it has reached.
LEMMA StepsInAttemptFacts ==
    ASSUME NEW s \in Stages, NEW n \in Nat
    PROVE  /\ StepsOfAttempt \in Nat /\ StepsOfAttempt >= 2
           /\ StepsInAttempt("list", s, n) = StepsOfAttempt
           /\ StepsInAttempt("next", s, n) = 9 * n + 1
           /\ \A l \in InProcess : StepsInAttempt(l, s, n) = 9 * n - 8 + StepsOfJob(l, s)
BY ConstantsAssumption DEF StepsOfAttempt, StepsInAttempt, InProcess

\* A retry costs another attempt.
LEMMA RetryFacts ==
    \A n, k \in Nat : n * k \in Nat /\ (n + 1) * k = n * k + k
BY SMT

\* The quantities StepsLeft is made of.
LEMMA LeftFacts ==
    ASSUME Basic, NEW w \in Workers
    PROVE  /\ IsFiniteSet(batch[w]) /\ Cardinality(batch[w]) \in Nat
           /\ stage[w] \in Stages
           /\ MaxRetries + 1 - attempt[w] \in Nat
           /\ (MaxRetries + 1 - attempt[w]) * StepsOfAttempt \in Nat
           /\ pc[w] # "idle" =>
                  StepsInAttempt(pc[w], stage[w], Cardinality(batch[w])) \in Nat \ {0}
           /\ pc[w] \in InProcess => Cardinality(batch[w]) > 0
<1>1. /\ IsFiniteSet(batch[w]) /\ Cardinality(batch[w]) \in Nat /\ stage[w] \in Stages
  BY ConstantsAssumption, FS_Subset, FS_CardinalityType DEF Basic, TypeOK
<1>2. MaxRetries + 1 - attempt[w] \in Nat
  BY ConstantsAssumption DEF Basic, TypeOK
<1>3. StepsOfAttempt \in Nat
  BY <1>1, StepsInAttemptFacts
<1>4. pc[w] \in InProcess => Cardinality(batch[w]) > 0
  <2>1. pc[w] \in InProcess => batch[w] # {}
    BY DEF Basic, Shape, ShapeOf
  <2> QED
    BY <1>1, <2>1, FS_EmptySet
<1>5. pc[w] \in {"idle", "list", "next"} \cup InProcess
  BY DEF Basic, TypeOK, Labels, InProcess
<1>6. pc[w] # "idle" =>
          StepsInAttempt(pc[w], stage[w], Cardinality(batch[w])) \in Nat \ {0}
  BY <1>1, <1>4, <1>5, StepsInAttemptFacts, StepsOfJobFacts
<1> QED
  BY <1>1, <1>2, <1>3, <1>4, <1>6, RetryFacts

\* Each effect of a step on its worker is an advance.
LEMMA StepAdvances ==
    ASSUME Basic, Basic', NEW w \in Workers, Step(w)
    PROVE  \/ pc'[w] = "idle"
           \/ pc'[w] = "list" /\ attempt'[w] = attempt[w] + 1
           \/ /\ pc'[w] # "idle" /\ attempt'[w] = attempt[w]
              /\ StepsInAttempt(pc'[w], stage'[w], Cardinality(batch'[w]))
                     < StepsInAttempt(pc[w], stage[w], Cardinality(batch[w]))
<1>0. /\ IsFiniteSet(batch[w]) /\ Cardinality(batch[w]) \in Nat /\ stage[w] \in Stages
      /\ pc[w] \in InProcess => Cardinality(batch[w]) > 0
  BY LeftFacts
<1>a. Cardinality(batch'[w]) \in Nat /\ stage'[w] \in Stages
  BY ConstantsAssumption, FS_Subset, FS_CardinalityType DEF Basic, TypeOK
<1>1. CASE Fail(w)
  BY <1>1, FailStep DEF Basic, Retried
<1>2. CASE ReturnedFrom(w) /\ pc[w] \in InProcess
  <2>1. job[w] \in batch[w]
    BY <1>2 DEF Basic, Shape, ShapeOf
  <2>2. Cardinality(batch'[w]) = Cardinality(batch[w]) - 1
    BY <1>0, <1>2, <2>1, FS_RemoveElement DEF ReturnedFrom
  <2>3. /\ StepsInAttempt("next", stage'[w], Cardinality(batch'[w])) = 9 * Cardinality(batch'[w]) + 1
        /\ StepsInAttempt(pc[w], stage[w], Cardinality(batch[w]))
               = 9 * Cardinality(batch[w]) - 8 + StepsOfJob(pc[w], stage[w])
        /\ StepsOfJob(pc[w], stage[w]) \in 1..8
    BY <1>0, <1>a, <1>2, StepsInAttemptFacts, StepsOfJobFacts
  <2>4. pc'[w] = "next" /\ attempt'[w] = attempt[w]
    BY <1>2 DEF ReturnedFrom, retries
  <2> QED
    BY <1>0, <1>a, <2>2, <2>3, <2>4
<1>3. ASSUME pc[w] \in InProcess, pc'[w] \in InProcess, batch'[w] = batch[w],
             attempt'[w] = attempt[w],
             StepsOfJob(pc'[w], stage'[w]) < StepsOfJob(pc[w], stage[w])
      PROVE  /\ pc'[w] # "idle" /\ attempt'[w] = attempt[w]
             /\ StepsInAttempt(pc'[w], stage'[w], Cardinality(batch'[w]))
                    < StepsInAttempt(pc[w], stage[w], Cardinality(batch[w]))
  <2>1. /\ StepsInAttempt(pc'[w], stage'[w], Cardinality(batch[w]))
               = 9 * Cardinality(batch[w]) - 8 + StepsOfJob(pc'[w], stage'[w])
        /\ StepsInAttempt(pc[w], stage[w], Cardinality(batch[w]))
               = 9 * Cardinality(batch[w]) - 8 + StepsOfJob(pc[w], stage[w])
        /\ StepsOfJob(pc[w], stage[w]) \in 1..8 /\ StepsOfJob(pc'[w], stage'[w]) \in 1..8
    BY <1>0, <1>a, <1>3, StepsInAttemptFacts, StepsOfJobFacts
  <2>2. pc'[w] # "idle"
    BY <1>3 DEF InProcess
  <2> QED
    BY <1>0, <1>3, <2>1, <2>2
<1>b. stage[w] = "triage" \/ stage[w] = "deep_evaluation"
  BY <1>0 DEF Stages
<1>4. ASSUME NEW r \in Recommendations, Proceed(w, r), pc[w] \in {"lookup", "save"}
      PROVE  \/ ReturnedFrom(w)
             \/ /\ pc'[w] = "budget" /\ batch'[w] = batch[w] /\ attempt'[w] = attempt[w]
                /\ StepsOfJob(pc'[w], stage'[w]) < StepsOfJob(pc[w], stage[w])
  <2>1. job[w] # None
    BY <1>4 DEF Basic, Shape, ShapeOf, InProcess
  <2>2. ReturnedFrom(w) \/ /\ Moved(w) /\ stage' = stage
                           /\ stage[w] = "triage" /\ pc'[w] = "budget"
    BY <1>4, <2>1, ProceedStep DEF Basic
  <2> QED
    BY <1>4, <2>2, StepsOfJobFacts DEF Moved, retries, Stages
<1>5. CASE ListPendingEvaluation(w) /\ ~Fail(w)
  <2>1. PICK jobs \in SUBSET Jobs :
            /\ Cardinality(jobs) <= BatchSize
            /\ batch' = [batch EXCEPT ![w] = jobs]
            /\ Goto(w, "next")
            /\ UNCHANGED <<retries, older, job, stage, proposal, score>>
    BY <1>5 DEF ListPendingEvaluation
  <2>2. batch'[w] = jobs /\ pc'[w] = "next" /\ attempt' = attempt /\ pc[w] = "list"
    BY <1>5, <2>1 DEF ListPendingEvaluation, Goto, retries, Basic, TypeOK
  <2>3. /\ StepsInAttempt("next", stage'[w], Cardinality(jobs)) = 9 * Cardinality(jobs) + 1
        /\ StepsInAttempt("list", stage[w], Cardinality(batch[w])) = StepsOfAttempt
    BY <1>0, <1>a, <2>2, StepsInAttemptFacts
  <2> QED
    BY <1>a, <2>1, <2>2, <2>3, ConstantsAssumption DEF StepsOfAttempt
<1>6. CASE Process(w)
  <2>1. CASE pc'[w] # "idle"
    <3>1. PICK j \in batch[w] :
              /\ job' = [job EXCEPT ![w] = j]
              /\ Goto(w, "discovery")
              /\ UNCHANGED <<retries, older, batch, stage, proposal, score>>
      BY <1>6, <2>1 DEF Process, Goto, Basic, TypeOK
    <3>2. pc'[w] = "discovery" /\ pc[w] = "next" /\ UNCHANGED <<attempt, batch, stage>>
      BY <1>6, <3>1 DEF Process, Goto, retries, Basic, TypeOK
    <3>3. /\ StepsInAttempt("discovery", stage[w], Cardinality(batch[w]))
                 = 9 * Cardinality(batch[w]) - 8 + 8
          /\ StepsInAttempt("next", stage[w], Cardinality(batch[w]))
                 = 9 * Cardinality(batch[w]) + 1
      BY <1>0, StepsInAttemptFacts, StepsOfJobFacts DEF InProcess
    <3> QED
      BY <1>0, <3>2, <3>3
  <2> QED
    BY <2>1
<1>7. CASE CheckDiscovery(w) /\ ~Fail(w)
  <2>1. pc[w] = "discovery" /\ pc'[w] = "lookup" /\ UNCHANGED <<attempt, batch, stage>>
    BY <1>7 DEF CheckDiscovery, Goto, retries, progress, Basic, TypeOK
  <2>2. StepsOfJob(pc'[w], stage'[w]) < StepsOfJob(pc[w], stage[w])
    BY <1>0, <1>b, <2>1, StepsOfJobFacts
  <2> QED
    BY <1>3, <2>1, <2>2 DEF InProcess
<1>8. CASE Lookup(w) /\ ~Fail(w)
  <2>1. pc[w] = "lookup" /\ pc[w] \in InProcess
    BY <1>8 DEF Lookup, InProcess
  <2>2. job[w] \in Jobs
    BY <2>1 DEF Basic, TypeOK, Shape, ShapeOf
  <2>3. CASE \E r \in Recommendations : Proceed(w, r)
    BY <1>2, <1>3, <1>4, <2>1, <2>3 DEF InProcess
  <2>4. CASE Goto(w, "generate") /\ UNCHANGED <<retries, progress>>
    <3>1. pc'[w] = "generate" /\ UNCHANGED <<attempt, batch, stage>>
      BY <2>4 DEF Goto, retries, progress, Basic, TypeOK
    <3>2. StepsOfJob(pc'[w], stage'[w]) < StepsOfJob(pc[w], stage[w])
      BY <1>b, <2>1, <3>1, StepsOfJobFacts
    <3> QED
      BY <1>3, <2>1, <3>1, <3>2 DEF InProcess
  <2>5. evals[stage[w]][job[w]] \in Recommendations \cup {None}
    BY <1>0, <2>2 DEF Basic, TypeOK
  <2> QED
    BY <1>8, <2>3, <2>4, <2>5 DEF Lookup
<1>9. CASE Generate(w) /\ ~Fail(w)
  <2>1. pc[w] = "generate" /\ pc'[w] = "save" /\ UNCHANGED <<attempt, batch, stage>>
    BY <1>9 DEF Generate, Goto, retries, Basic, TypeOK
  <2>2. StepsOfJob(pc'[w], stage'[w]) < StepsOfJob(pc[w], stage[w])
    BY <1>b, <2>1, StepsOfJobFacts
  <2> QED
    BY <1>3, <2>1, <2>2 DEF InProcess
<1>10. CASE SaveEvaluation(w) /\ ~Fail(w)
  <2>1. pc[w] = "save" /\ Proceed(w, proposal[w]) /\ proposal[w] \in Recommendations
    BY <1>10 DEF SaveEvaluation, Basic, TypeOK, Shape, ShapeOf
  <2> QED
    BY <1>2, <1>3, <1>4, <2>1 DEF InProcess
<1>11. CASE CheckBudget(w) /\ ~Fail(w)
  <2>1. pc[w] = "budget" /\ pc[w] \in InProcess /\ job[w] # None
    BY <1>11 DEF CheckBudget, InProcess, Basic, Shape, ShapeOf
  <2>2. CASE Return(w, "triage", "APPLY")
    <3>1. "triage" \in Stages /\ "APPLY" \in Recommendations
      BY DEF Stages, Recommendations
    <3> QED
      BY <1>2, <2>1, <2>2, <3>1, ReturnStep DEF Basic
  <2>3. CASE /\ stage' = [stage EXCEPT ![w] = "deep_evaluation"]
             /\ Goto(w, "lookup")
             /\ UNCHANGED <<retries, older, batch, job, proposal, score>>
    <3>1. /\ pc'[w] = "lookup" /\ stage'[w] = "deep_evaluation"
          /\ UNCHANGED <<attempt, batch>>
      BY <2>3 DEF Goto, retries, Basic, TypeOK
    <3>2. StepsOfJob(pc'[w], stage'[w]) < StepsOfJob(pc[w], stage[w])
      BY <1>0, <2>1, <3>1, StepsOfJobFacts
    <3> QED
      BY <1>3, <2>1, <3>1, <3>2 DEF InProcess
  <2> QED
    BY <1>11, <2>2, <2>3 DEF CheckBudget
<1> QED
  BY <1>1, <1>5, <1>6, <1>7, <1>8, <1>9, <1>10, <1>11 DEF Step

\* An advance lowers the number of steps left.
LEMMA StepShortens ==
    ASSUME Basic, Basic', NEW w \in Workers, Step(w)
    PROVE  StepsLeft(w)' \in 0..(StepsLeft(w) - 1)
<1> DEFINE rest == StepsInAttempt(pc[w], stage[w], Cardinality(batch[w]))
           retry == (MaxRetries + 1 - attempt[w]) * StepsOfAttempt
<1>1. pc[w] # "idle"
  BY DEF Step, ListPendingEvaluation, Process, CheckDiscovery, Lookup, Generate,
         SaveEvaluation, CheckBudget
<1>2. rest \in Nat \ {0} /\ retry \in Nat /\ StepsLeft(w) = retry + rest
  BY <1>1, LeftFacts DEF StepsLeft
<1>3. CASE pc'[w] = "idle"
  BY <1>2, <1>3 DEF StepsLeft
<1>4. CASE pc'[w] = "list" /\ attempt'[w] = attempt[w] + 1
  <2>1. MaxRetries + 1 - attempt'[w] \in Nat
    BY ConstantsAssumption DEF Basic, TypeOK
  <2>2. Cardinality(batch'[w]) \in Nat /\ stage'[w] \in Stages
    BY ConstantsAssumption, FS_Subset, FS_CardinalityType DEF Basic, TypeOK
  <2>3. /\ StepsInAttempt(pc'[w], stage'[w], Cardinality(batch'[w])) = StepsOfAttempt
        /\ StepsOfAttempt \in Nat
    BY <1>4, <2>2, StepsInAttemptFacts
  <2>4. PICK n \in Nat : n = MaxRetries + 1 - attempt'[w]
    BY <2>1
  <2>5. MaxRetries + 1 - attempt[w] = n + 1
    BY <1>4, <2>4, ConstantsAssumption DEF Basic, TypeOK
  <2>6. retry = n * StepsOfAttempt + StepsOfAttempt /\ n * StepsOfAttempt \in Nat
    BY <2>3, <2>5, RetryFacts
  <2>7. StepsLeft(w)' = n * StepsOfAttempt + StepsOfAttempt
    BY <1>4, <2>3, <2>4 DEF StepsLeft
  <2> HIDE DEF rest, retry
  <2> QED
    BY <1>2, <2>3, <2>6, <2>7
<1>5. CASE /\ pc'[w] # "idle" /\ attempt'[w] = attempt[w]
           /\ StepsInAttempt(pc'[w], stage'[w], Cardinality(batch'[w])) < rest
  <2>1. StepsLeft(w)' = retry + StepsInAttempt(pc'[w], stage'[w], Cardinality(batch'[w]))
    BY <1>5 DEF StepsLeft
  <2>2. StepsInAttempt(pc'[w], stage'[w], Cardinality(batch'[w])) \in Nat
    <3>1. Cardinality(batch'[w]) \in Nat /\ IsFiniteSet(batch'[w]) /\ stage'[w] \in Stages
      BY ConstantsAssumption, FS_Subset, FS_CardinalityType DEF Basic, TypeOK
    <3>2. pc'[w] \in InProcess => Cardinality(batch'[w]) > 0
      <4>1. pc'[w] \in InProcess => batch'[w] # {}
        BY DEF Basic, Shape, ShapeOf
      <4> QED
        BY <3>1, <4>1, FS_EmptySet
    <3>3. pc'[w] \in {"idle", "list", "next"} \cup InProcess
      BY DEF Basic, TypeOK, Labels, InProcess
    <3> QED
      BY <1>5, <3>1, <3>2, <3>3, StepsInAttemptFacts, StepsOfJobFacts
  <2>3. PICK m \in Nat : m = StepsInAttempt(pc'[w], stage'[w], Cardinality(batch'[w]))
    BY <2>2
  <2> HIDE DEF rest, retry
  <2> QED
    BY <1>2, <1>5, <2>1, <2>3
<1> QED
  BY <1>3, <1>4, <1>5, StepAdvances

\* Only the trigger makes a run longer.
LEMMA OnlyTriggersLengthen ==
    ASSUME Basic, Basic', [Next]_vars, NEW v \in Workers, StepsLeft(v)' > StepsLeft(v)
    PROVE  Execute(v)
<1>1. StepsLeft(v) \in Nat
  BY LeftFacts DEF StepsLeft
<1>2. ~(pc'[v] = pc[v] /\ stage'[v] = stage[v] /\ batch'[v] = batch[v]
        /\ attempt'[v] = attempt[v])
  BY <1>1 DEF StepsLeft
<1>3. ~Midnight /\ ~UNCHANGED vars
  BY <1>2 DEF Midnight, retries, vars
<1>4. PICK w \in Workers : Execute(w) \/ Step(w) \/ Crash(w)
  BY <1>3 DEF Next
<1>5. CASE v # w
  <2>1. ~Step(w)
    BY <1>2, <1>5, OthersUntouched
  <2>2. ~Execute(w)
    BY <1>2, <1>5 DEF Execute, Goto, progress, Basic, TypeOK
  <2>3. ~Crash(w)
    BY <1>2, <1>5, LeaveStep DEF Crash, Goto, Left, retries, Basic, TypeOK
  <2> QED
    BY <1>4, <2>1, <2>2, <2>3
<1>6. CASE v = w
  <2>1. ~Step(v)
    BY <1>1, StepShortens
  <2>2. ~Crash(v)
    <3>1. Crash(v) => StepsLeft(v)' = 0
      BY DEF Crash, Goto, StepsLeft, Basic, TypeOK
    <3> QED
      BY <1>1, <3>1
  <2> QED
    BY <1>4, <1>6, <2>1, <2>2
<1> QED
  BY <1>5, <1>6

\* A trigger begins the first of MaxRetries + 1 attempts.
LEMMA TriggerSteps ==
    ASSUME Basic, NEW w \in Workers, Execute(w)
    PROVE  StepsLeft(w)' <= (MaxRetries + 1) * StepsOfAttempt
<1>1. pc'[w] = "list" /\ attempt'[w] = 1 /\ UNCHANGED <<batch, stage>>
  BY DEF Execute, Goto, progress, Basic, TypeOK
<1>2. /\ StepsInAttempt("list", stage[w], Cardinality(batch[w])) = StepsOfAttempt
      /\ StepsOfAttempt \in Nat
  BY LeftFacts, StepsInAttemptFacts
<1>3. StepsLeft(w)' = MaxRetries * StepsOfAttempt + StepsOfAttempt
  <2>1. MaxRetries + 1 - attempt'[w] = MaxRetries
    BY <1>1, ConstantsAssumption
  <2> QED
    BY <1>1, <1>2, <2>1 DEF StepsLeft
<1>4. (MaxRetries + 1) * StepsOfAttempt = MaxRetries * StepsOfAttempt + StepsOfAttempt
      /\ MaxRetries * StepsOfAttempt \in Nat
  BY <1>2, ConstantsAssumption, RetryFacts
<1> QED
  BY <1>2, <1>3, <1>4

\* Whatever fails and however runs overlap, each step of a run brings its end
\* closer and only a new trigger puts it off, by no more than the steps of
\* MaxRetries + 1 attempts at BatchSize jobs (retry.go:36-74).
THEOREM RunsShorten == Spec => RunsGetShorter
<1>1. Basic /\ Basic' /\ [Next]_vars =>
          [\A w \in Workers :
              /\ Step(w) => StepsLeft(w)' \in 0..(StepsLeft(w) - 1)
              /\ StepsLeft(w)' > StepsLeft(w) =>
                     Execute(w) /\ StepsLeft(w)' <= (MaxRetries + 1) * StepsOfAttempt]_vars
  BY StepShortens, OnlyTriggersLengthen, TriggerSteps
<1> QED
  BY <1>1, BasicInit, BasicNext, PTL DEF Spec, RunsGetShorter
=============================================================================
