---------------------------- MODULE JobEvaluation ----------------------------
(***************************************************************************)
(* Scheduled job evaluation: job.Pipeline.Process                          *)
(* (src/internal/job/pipeline.go), which triages a job and evaluates it    *)
(* deeply, run over a batch by EvaluationTask.Run under the retries of     *)
(* Execute (src/internal/scheduler/evaluation.go, retry.go).               *)
(*                                                                         *)
(* A worker is one invocation of the scheduler's trigger at a time.  Each  *)
(* store access and each paid model call is a step of its own; the         *)
(* evaluation store is shared and any of these calls may fail.  A Score is *)
(* abstracted to its Recommendation and the stage that produced it.        *)
(***************************************************************************)
EXTENDS Integers, FiniteSets

CONSTANTS
    Workers,                \* scheduler invocations that may overlap
    Jobs,                   \* IDs of the jobs awaiting evaluation
    BatchSize,              \* EvaluationTask.BatchSize
    MaxRetries,             \* RetryPolicy.MaxRetries
    DeepEvaluationsPerDay,  \* Limits.DeepEvaluationsPerDay
    None                    \* no evaluation, no job, no score

Stages == {"triage", "deep_evaluation"}

Recommendations == {"APPLY", "REVIEW", "REJECT"}

\* An evaluation on record, and the score that Process returns.
Evaluation == [job: Jobs, stage: Stages, recommendation: Recommendations]

ASSUME ConstantsAssumption ==
    /\ IsFiniteSet(Workers) /\ Workers # {}
    /\ IsFiniteSet(Jobs)
    /\ BatchSize \in Nat
    /\ MaxRetries \in Nat
    /\ DeepEvaluationsPerDay \in Nat
    /\ None \notin Jobs \cup Recommendations
    /\ None \notin Evaluation

VARIABLES
    evals,      \* the evaluation store: what GetEvaluation returns, or None
    deepToday,  \* deep evaluations saved since midnight
    older,      \* those saved since a worker's startOfDay, up to midnight
    pc,         \* the step each worker is about to take
    attempt,    \* Execute's attempt
    status,     \* Status of the Run that Execute returned last, or None
    batch,      \* jobs of the batch that Run has not processed yet
    job,        \* the job Process is at, or None
    stage,      \* the stage Process is at
    proposal,   \* the recommendation about to be saved, or None
    score,      \* what Process returned last in this attempt, or None
    saved,      \* history: every evaluation that was ever saved
    paid        \* history: model calls since Execute began, by stage and job

vars == <<evals, deepToday, older, pc, attempt, status, batch, job, stage,
          proposal, score, saved, paid>>

Labels == {"idle", "list", "next", "discovery", "lookup", "budget",
           "generate", "save"}

-----------------------------------------------------------------------------
(* Model outputs and what the code makes of them.                          *)

\* The strings of a model's recommendation field that the code tells apart.
Proposals == {"apply", "review", "reject", "other"}

NormalizeRecommendation(p) ==
    CASE p = "apply"  -> "APPLY"
      [] p = "reject" -> "REJECT"
      [] p = "review" -> "REVIEW"
      [] p = "other"  -> None

TriageOutputs == [hardFail: BOOLEAN, recommendation: Proposals]

ApplyEvaluation(p) ==
    LET r == NormalizeRecommendation(p)
    IN  IF r \in {"APPLY", "REJECT"} THEN r ELSE "REVIEW"

ApplyTriage(out) ==
    IF out.hardFail THEN "REJECT" ELSE ApplyEvaluation(out.recommendation)

\* The recommendations a stage can derive from a well-formed response.
Derivable(s) ==
    IF s = "triage" THEN {ApplyTriage(out) : out \in TriageOutputs}
                    ELSE {ApplyEvaluation(p) : p \in Proposals}

-----------------------------------------------------------------------------
Init ==
    /\ evals = [s \in Stages |-> [j \in Jobs |-> None]]
    /\ deepToday = 0
    /\ older = [w \in Workers |-> 0]
    /\ pc = [w \in Workers |-> "idle"]
    /\ attempt = [w \in Workers |-> 0]
    /\ status = [w \in Workers |-> None]
    /\ batch = [w \in Workers |-> {}]
    /\ job = [w \in Workers |-> None]
    /\ stage = [w \in Workers |-> "triage"]
    /\ proposal = [w \in Workers |-> None]
    /\ score = [w \in Workers |-> None]
    /\ saved = {}
    /\ paid = [w \in Workers |-> [s \in Stages |-> [j \in Jobs |-> 0]]]

Goto(w, label) == pc' = [pc EXCEPT ![w] = label]

store == <<evals, deepToday, saved>>
retries == <<attempt, status>>
progress == <<older, batch, job, stage, proposal, score>>

\* Leave Run, whose local variables are lost.
Leave(w) ==
    /\ older' = [older EXCEPT ![w] = 0]
    /\ batch' = [batch EXCEPT ![w] = {}]
    /\ job' = [job EXCEPT ![w] = None]
    /\ stage' = [stage EXCEPT ![w] = "triage"]
    /\ proposal' = [proposal EXCEPT ![w] = None]
    /\ score' = [score EXCEPT ![w] = None]

\* DEFECT: one retry too many.
Decide_OffByOne(w) ==
    IF attempt[w] <= MaxRetries + 1
    THEN /\ attempt' = [attempt EXCEPT ![w] = @ + 1]
         /\ Goto(w, "list")
         /\ UNCHANGED status
    ELSE /\ status' = [status EXCEPT ![w] = "DEAD_LETTER"]
         /\ Goto(w, "idle")
         /\ UNCHANGED attempt

\* DEFECT: the attempt is not counted.
Decide_ForgetsAttempt(w) ==
    Goto(w, "list") /\ UNCHANGED <<attempt, status>>

\* Run returned an error: RetryPolicy.Decide on another attempt.
Decide(w) ==
    IF attempt[w] <= MaxRetries
    THEN /\ attempt' = [attempt EXCEPT ![w] = @ + 1]
         /\ Goto(w, "list")
         /\ UNCHANGED status
    ELSE /\ status' = [status EXCEPT ![w] = "DEAD_LETTER"]
         /\ Goto(w, "idle")
         /\ UNCHANGED attempt

Fail(w) == Leave(w) /\ Decide(w)

\* Process returns the score of stage s; Run goes on with the batch.
Return(w, s, r) ==
    /\ score' = [score EXCEPT ![w] =
                     [job |-> job[w], stage |-> s, recommendation |-> r]]
    /\ batch' = [batch EXCEPT ![w] = @ \ {job[w]}]
    /\ job' = [job EXCEPT ![w] = None]
    /\ stage' = [stage EXCEPT ![w] = "triage"]
    /\ proposal' = [proposal EXCEPT ![w] = None]
    /\ older' = [older EXCEPT ![w] = 0]
    /\ Goto(w, "next")
    /\ UNCHANGED retries

\* DEFECT: only a REJECT stops at triage.
Proceed_ReviewGoesOn(w, r) ==
    \/ /\ stage[w] = "deep_evaluation" \/ r = "REJECT"
       /\ Return(w, stage[w], r)
    \/ /\ stage[w] = "triage" /\ r # "REJECT"
       /\ Goto(w, "budget")
       /\ proposal' = [proposal EXCEPT ![w] = None]
       /\ UNCHANGED <<retries, older, batch, job, stage, score>>

\* A stage produced r: a triage that recommends APPLY goes on to the budget.
Proceed(w, r) ==
    \/ /\ stage[w] = "deep_evaluation" \/ r # "APPLY"
       /\ Return(w, stage[w], r)
    \/ /\ stage[w] = "triage" /\ r = "APPLY"
       /\ Goto(w, "budget")
       /\ proposal' = [proposal EXCEPT ![w] = None]
       /\ UNCHANGED <<retries, older, batch, job, stage, score>>

-----------------------------------------------------------------------------
\* The trigger: Execute begins its first attempt.
Execute(w) ==
    /\ pc[w] = "idle"
    /\ Goto(w, "list")
    /\ attempt' = [attempt EXCEPT ![w] = 1]
    /\ status' = [status EXCEPT ![w] = None]
    /\ paid' = [paid EXCEPT ![w] = [s \in Stages |-> [j \in Jobs |-> 0]]]
    /\ UNCHANGED <<store, progress>>

\* Lister.ListPendingEvaluation: no code moves a job on from NORMALIZED, so
\* a job that was evaluated may be listed again.
ListPendingEvaluation(w) ==
    /\ pc[w] = "list"
    /\ \/ \E jobs \in SUBSET Jobs :
              /\ Cardinality(jobs) <= BatchSize
              /\ batch' = [batch EXCEPT ![w] = jobs]
              /\ Goto(w, "next")
              /\ UNCHANGED <<retries, older, job, stage, proposal, score>>
       \/ Fail(w)
    /\ UNCHANGED <<store, paid>>

\* Run's loop: Process the next job (its startOfDay is today), or return nil.
Process(w) ==
    /\ pc[w] = "next"
    /\ \/ \E j \in batch[w] :
              /\ job' = [job EXCEPT ![w] = j]
              /\ Goto(w, "discovery")
              /\ UNCHANGED <<retries, older, batch, stage, proposal, score>>
       \/ /\ batch[w] = {}
          /\ status' = [status EXCEPT ![w] = "SUCCEEDED"]
          /\ Goto(w, "idle")
          /\ Leave(w)
          /\ UNCHANGED attempt
    /\ UNCHANGED <<store, paid>>

\* JobStore.CountDiscoveredSince may be below the limit; at the limit Process
\* returns an error, as it does when the store fails.
CheckDiscovery(w) ==
    /\ pc[w] = "discovery"
    /\ \/ Goto(w, "lookup") /\ UNCHANGED <<retries, progress>>
       \/ Fail(w)
    /\ UNCHANGED <<store, paid>>

\* EvalStore.GetEvaluation for the current stage.
Lookup(w) ==
    /\ pc[w] = "lookup"
    /\ LET existing == evals[stage[w]][job[w]]
       IN  \/ existing # None /\ Proceed(w, existing)
           \/ existing = None /\ Goto(w, "generate") /\ UNCHANGED <<retries, progress>>
           \/ Fail(w)
    /\ UNCHANGED <<store, paid>>

\* DEFECT: a malformed answer is asked for again on the spot.
Generate_AsksAgain(w) ==
    /\ pc[w] = "generate"
    /\ paid' = [paid EXCEPT ![w][stage[w]][job[w]] = @ + 1]
    /\ \/ \E r \in Derivable(stage[w]) :
              /\ proposal' = [proposal EXCEPT ![w] = r]
              /\ Goto(w, "save")
              /\ UNCHANGED <<retries, older, batch, job, stage, score>>
       \/ UNCHANGED <<pc, retries, progress>>
    /\ UNCHANGED store

\* Recorder.Generate and the parsing of its response: the model is paid
\* whether it answers well, its answer is malformed, or SaveRun fails.
Generate(w) ==
    /\ pc[w] = "generate"
    /\ paid' = [paid EXCEPT ![w][stage[w]][job[w]] = @ + 1]
    /\ \/ \E r \in Derivable(stage[w]) :
              /\ proposal' = [proposal EXCEPT ![w] = r]
              /\ Goto(w, "save")
              /\ UNCHANGED <<retries, older, batch, job, stage, score>>
       \/ Fail(w)
    /\ UNCHANGED store

\* DEFECT: an error of the store is ignored.
SaveEvaluation_IgnoresError(w) ==
    /\ pc[w] = "save"
    /\ \/ /\ evals' = [evals EXCEPT ![stage[w]][job[w]] = proposal[w]]
          /\ saved' = saved \cup {[job |-> job[w], stage |-> stage[w],
                                   recommendation |-> proposal[w]]}
          /\ deepToday' = IF stage[w] = "triage" THEN deepToday ELSE deepToday + 1
       \/ UNCHANGED store
    /\ Proceed(w, proposal[w])
    /\ UNCHANGED paid

\* EvalStore.SaveEvaluation.
SaveEvaluation(w) ==
    /\ pc[w] = "save"
    /\ \/ /\ evals' = [evals EXCEPT ![stage[w]][job[w]] = proposal[w]]
          /\ saved' = saved \cup {[job |-> job[w], stage |-> stage[w],
                                   recommendation |-> proposal[w]]}
          /\ deepToday' = IF stage[w] = "triage" THEN deepToday ELSE deepToday + 1
          /\ Proceed(w, proposal[w])
       \/ Fail(w) /\ UNCHANGED store
    /\ UNCHANGED paid

\* DEFECT: the limit itself still passes.
CheckBudget_OffByOne(w) ==
    /\ pc[w] = "budget"
    /\ \/ /\ older[w] + deepToday > DeepEvaluationsPerDay
          /\ Return(w, "triage", "APPLY")
       \/ /\ older[w] + deepToday <= DeepEvaluationsPerDay
          /\ stage' = [stage EXCEPT ![w] = "deep_evaluation"]
          /\ Goto(w, "lookup")
          /\ UNCHANGED <<retries, older, batch, job, proposal, score>>
       \/ Fail(w)
    /\ UNCHANGED <<store, paid>>

\* EvalStore.CountDeepEvaluationsSince(startOfDay) against the limit.
CheckBudget(w) ==
    /\ pc[w] = "budget"
    /\ \/ /\ older[w] + deepToday >= DeepEvaluationsPerDay
          /\ Return(w, "triage", "APPLY")
       \/ /\ older[w] + deepToday < DeepEvaluationsPerDay
          /\ stage' = [stage EXCEPT ![w] = "deep_evaluation"]
          /\ Goto(w, "lookup")
          /\ UNCHANGED <<retries, older, batch, job, proposal, score>>
       \/ Fail(w)
    /\ UNCHANGED <<store, paid>>

\* The process of the invocation ends; the store stays as it is.
Crash(w) ==
    /\ pc[w] # "idle"
    /\ Leave(w)
    /\ Goto(w, "idle")
    /\ UNCHANGED <<store, retries, paid>>

\* A new day.  A Process under way keeps the startOfDay it began with.
Midnight ==
    /\ deepToday > 0
    /\ deepToday' = 0
    /\ older' = [w \in Workers |->
                     IF job[w] = None THEN 0 ELSE older[w] + deepToday]
    /\ UNCHANGED <<evals, saved, pc, retries, batch, job, stage, proposal, score, paid>>

Step(w) == \/ ListPendingEvaluation(w) \/ Process(w) \/ CheckDiscovery(w)
           \/ Lookup(w) \/ Generate(w) \/ SaveEvaluation(w) \/ CheckBudget(w)

Next ==
    \/ Midnight
    \/ \E w \in Workers : Execute(w) \/ Step(w) \/ Crash(w)

Spec == Init /\ [][Next]_vars

\* Every store and model call returns, and Go keeps a goroutine running.
FairSpec == Spec /\ \A w \in Workers : WF_vars(Step(w))

-----------------------------------------------------------------------------
TypeOK ==
    /\ evals \in [Stages -> [Jobs -> Recommendations \cup {None}]]
    /\ deepToday \in Nat
    /\ older \in [Workers -> Nat]
    /\ pc \in [Workers -> Labels]
    /\ attempt \in [Workers -> 0..(MaxRetries + 1)]
    /\ status \in [Workers -> {"SUCCEEDED", "DEAD_LETTER", None}]
    /\ batch \in [Workers -> SUBSET Jobs]
    /\ job \in [Workers -> Jobs \cup {None}]
    /\ stage \in [Workers -> Stages]
    /\ proposal \in [Workers -> Recommendations \cup {None}]
    /\ score \in [Workers -> Evaluation \cup {None}]
    /\ saved \in SUBSET Evaluation
    /\ paid \in [Workers -> [Stages -> [Jobs -> Nat]]]

\* Workers that passed the budget check and have not saved their evaluation.
Admitted == {w \in Workers : stage[w] = "deep_evaluation"}

Budget == INSTANCE DailyBudget
    WITH Limit <- DeepEvaluationsPerDay, used <- deepToday, admitted <- Admitted

\* The deep-evaluation limit is a daily budget that admits before it counts,
\* also for a Process that runs across midnight.
BudgetSpec == Budget!Spec

\* Overlapping invocations exceed the daily limit of deep evaluations by less
\* than their number, whatever fails, crashes or is retried.
DeepOverrunBounded == Budget!OverrunBounded

\* A retry pays for no more than one call of each model for each job: retries
\* multiply the cost of a batch by at most MaxRetries + 1.
PaidCallsBounded ==
    \A w \in Workers, s \in Stages, j \in Jobs : paid[w][s][j] <= attempt[w]

\* A job is evaluated deeply only on the strength of a triage that was put on
\* record and recommended it, whatever other invocations save meanwhile.
DeepFollowsTriage ==
    \A e \in saved : e.stage = "deep_evaluation" =>
        [job |-> e.job, stage |-> "triage", recommendation |-> "APPLY"] \in saved

\* Whatever Process reports was put on record before.
ReportedIsStored == \A w \in Workers : score[w] # None => score[w] \in saved

\* The steps that Process and its return can still take: both stages look up,
\* call and save.
StepsOfJob(label, s) ==
    CASE label = "discovery" -> 8
      [] label = "lookup"    -> IF s = "triage" THEN 7 ELSE 3
      [] label = "generate"  -> IF s = "triage" THEN 6 ELSE 2
      [] label = "save"      -> IF s = "triage" THEN 5 ELSE 1
      [] label = "budget"    -> 4

StepsOfAttempt == 9 * BatchSize + 2

\* Those of an attempt with n jobs left in its batch.
StepsInAttempt(label, s, n) ==
    CASE label = "list" -> StepsOfAttempt
      [] label = "next" -> 9 * n + 1
      [] OTHER          -> 9 * n - 8 + StepsOfJob(label, s)

\* The most steps a run can still take: those of its attempt and of the retries.
StepsLeft(w) ==
    IF pc[w] = "idle" THEN 0
    ELSE (MaxRetries + 1 - attempt[w]) * StepsOfAttempt
         + StepsInAttempt(pc[w], stage[w], Cardinality(batch[w]))

\* Every step of a run brings its end closer, through retries and whatever fails,
\* and nothing but a new trigger puts it off: the batch of a run and its retries
\* are worked through in a bounded number of steps (Execute, retry.go:36-74).
RunsGetShorter ==
    [][\A w \in Workers :
          /\ Step(w) => StepsLeft(w)' \in 0..(StepsLeft(w) - 1)
          /\ StepsLeft(w)' > StepsLeft(w) =>
                 Execute(w) /\ StepsLeft(w)' <= (MaxRetries + 1) * StepsOfAttempt]_vars

\* Every triggered run ends, as success, dead letter or with the process.
RunEnds == \A w \in Workers : pc[w] # "idle" ~> pc[w] = "idle"
=============================================================================
