--------------------------- MODULE ApplicationFlow ---------------------------
(***************************************************************************)
(* An application from discovery to submission (src/internal/application)  *)
(* with the resume versions it uses (src/internal/resume).                 *)
(*                                                                         *)
(* The packages define pure operations on an Application or a Version and  *)
(* the stores around them; src has no handler that calls them.  A handler  *)
(* is therefore the one the Store interface leads to: it loads a record,   *)
(* applies one operation of the package, and saves the record it got.      *)
(* Handlers may overlap.  A Version is decided on by its one user, so      *)
(* Approve and Reject load and save in one step.                           *)
(***************************************************************************)
EXTENDS Integers, FiniteSets

CONSTANTS
    Handlers,               \* requests that may be under way at once
    Apps,                   \* IDs newID can return
    Jobs,
    Versions,               \* IDs of resume versions
    Questions,              \* the questions of an application form
    AlwaysReview,           \* those of a category in alwaysReview
    DailyApplicationLimit,  \* SafetyGateInput.DailyApplicationLimit
    None

Statuses == {"DISCOVERED", "QUALIFIED", "PREPARING", "REVIEW", "READY",
             "STARTING", "NAVIGATING", "FILLING", "VERIFYING", "SUBMITTING",
             "SUBMITTED", "HUMAN_REQUIRED", "FAILED", "EXPIRED", "CANCELLED"}

validTransitions ==
    [DISCOVERED     |-> {"QUALIFIED", "CANCELLED"},
     QUALIFIED      |-> {"PREPARING", "CANCELLED"},
     PREPARING      |-> {"REVIEW", "CANCELLED"},
     REVIEW         |-> {"READY", "PREPARING", "CANCELLED"},
     READY          |-> {"STARTING", "CANCELLED"},
     STARTING       |-> {"NAVIGATING", "FAILED", "CANCELLED"},
     NAVIGATING     |-> {"FILLING", "HUMAN_REQUIRED", "FAILED"},
     FILLING        |-> {"VERIFYING", "HUMAN_REQUIRED", "FAILED"},
     VERIFYING      |-> {"SUBMITTING", "HUMAN_REQUIRED", "FAILED"},
     SUBMITTING     |-> {"SUBMITTED", "FAILED"},
     HUMAN_REQUIRED |-> {"NAVIGATING", "FILLING", "VERIFYING", "EXPIRED", "CANCELLED"},
     SUBMITTED      |-> {}, FAILED |-> {}, EXPIRED |-> {}, CANCELLED |-> {}]

ValidTransition(from, to) == to \in validTransitions[from]

\* Resume versions; "" stands for a version that was never generated.
VersionStatuses == {"", "GENERATED", "VALIDATED", "REVIEW", "APPROVED", "REJECTED"}

\* DEFECT: an approved version can still be rejected.
versionTransitions_Revocable ==
    [GENERATED |-> {"VALIDATED", "REVIEW"},
     VALIDATED |-> {"REVIEW", "APPROVED"},
     REVIEW    |-> {"APPROVED", "REJECTED", "GENERATED"},
     APPROVED  |-> {"REJECTED"}, REJECTED |-> {}]

versionTransitions ==
    [GENERATED |-> {"VALIDATED", "REVIEW"},
     VALIDATED |-> {"REVIEW", "APPROVED"},
     REVIEW    |-> {"APPROVED", "REJECTED", "GENERATED"},
     APPROVED  |-> {}, REJECTED |-> {}]

AnswerStatuses == {"none", "AUTO", "REVIEW"}

Application == [job: Jobs, status: Statuses, version: Versions \cup {None},
                answers: [Questions -> AnswerStatuses],
                duplicateOf: Apps \cup {None}, gate: BOOLEAN]

ASSUME ConstantsAssumption ==
    /\ IsFiniteSet(Handlers)
    /\ IsFiniteSet(Apps) /\ Apps # {}
    /\ AlwaysReview \subseteq Questions
    /\ DailyApplicationLimit \in Nat
    /\ None \notin Application \cup Apps \cup Versions

VARIABLES
    apps,       \* the application store
    versions,   \* the resume store: the status of each version
    submitted,  \* applications whose SUBMITTED record was saved since midnight
    pc,         \* where each handler stands
    target,     \* the ID each handler works on, or None
    copy,       \* the record each handler holds, or None
    verified,   \* SafetyGateInput.ResumeVerified, once a handler looked it up
    resolved,   \* history: the answers a human gave, by application
    lost        \* history: applications for which Transition refused an outcome

vars == <<apps, versions, submitted, pc, target, copy, verified, resolved, lost>>

stores == <<apps, versions, submitted>>
history == <<resolved, lost>>

Labels == {"idle", "apply", "count", "save"}

Init ==
    /\ apps = [a \in Apps |-> None]
    /\ versions = [v \in Versions |-> ""]
    /\ submitted = {}
    /\ pc = [h \in Handlers |-> "idle"]
    /\ target = [h \in Handlers |-> None]
    /\ copy = [h \in Handlers |-> None]
    /\ verified = [h \in Handlers |-> FALSE]
    /\ resolved = [a \in Apps |-> {}]
    /\ lost = {}

-----------------------------------------------------------------------------
(* Resume versions.                                                        *)

\* ValidatePageCount on the page counts the code tells apart.
PassesPageCount(pages) == pages = 1

\* Pipeline.Generate: rendering and compiling succeeded.
Generate(v) ==
    /\ versions[v] = ""
    /\ \E pages \in 0..2 :
           versions' = [versions EXCEPT ![v] =
                            IF PassesPageCount(pages) THEN "VALIDATED" ELSE "REVIEW"]
    /\ UNCHANGED <<apps, submitted, pc, target, copy, verified, history>>

\* Approve and Reject.
DecideVersion(v, to) ==
    /\ versions[v] # ""
    /\ to \in versionTransitions[versions[v]]
    /\ versions' = [versions EXCEPT ![v] = to]
    /\ UNCHANGED <<apps, submitted, pc, target, copy, verified, history>>

Approve(v) == DecideVersion(v, "APPROVED")
Reject(v)  == DecideVersion(v, "REJECTED")

-----------------------------------------------------------------------------
(* Handlers.                                                               *)

Goto(h, label) == pc' = [pc EXCEPT ![h] = label]

\* The handler ends, and with it what it holds.
Drop(h) ==
    /\ Goto(h, "idle")
    /\ target' = [target EXCEPT ![h] = None]
    /\ copy' = [copy EXCEPT ![h] = None]
    /\ verified' = [verified EXCEPT ![h] = FALSE]

\* The operation returned record r, to be saved.
Return(h, r) ==
    /\ copy' = [copy EXCEPT ![h] = r]
    /\ Goto(h, "save")
    /\ verified' = [verified EXCEPT ![h] = FALSE]
    /\ UNCHANGED target

\* DEFECT: the zero Application that comes with an error is saved.
Transition_IgnoresError(h, r, to) ==
    \/ ValidTransition(r.status, to) /\ Return(h, [r EXCEPT !.status = to])
    \/ ~ValidTransition(r.status, to) /\ Return(h, [r EXCEPT !.status = ""])

\* Transition(r, to): the moved record, or an InvalidTransitionError.
Transition(h, r, to) ==
    \/ ValidTransition(r.status, to) /\ Return(h, [r EXCEPT !.status = to])
    \/ ~ValidTransition(r.status, to) /\ Drop(h)

\* CheckDuplicate, then FromJob for a new ID.
CheckDuplicate(h) ==
    /\ pc[h] = "idle"
    /\ \E a \in Apps, j \in Jobs :
           /\ apps[a] = None /\ \A g \in Handlers : target[g] # a
           /\ \E found \in {b \in Apps : apps[b] # None /\ apps[b].job = j} \cup {None} :
                  /\ found = None => \A b \in Apps : apps[b] # None => apps[b].job # j
                  /\ copy' = [copy EXCEPT ![h] =
                         [job |-> j, status |-> "DISCOVERED", version |-> None,
                          answers |-> [q \in Questions |-> "none"],
                          duplicateOf |-> found, gate |-> FALSE]]
           /\ target' = [target EXCEPT ![h] = a]
    /\ Goto(h, "save")
    /\ UNCHANGED <<stores, verified, history>>

\* Store.GetApplication.
GetApplication(h) ==
    /\ pc[h] = "idle"
    /\ \E a \in Apps :
           /\ apps[a] # None
           /\ target' = [target EXCEPT ![h] = a]
           /\ copy' = [copy EXCEPT ![h] = apps[a]]
    /\ Goto(h, "apply")
    /\ UNCHANGED <<stores, verified, history>>

\* Store.SaveApplication, which may fail.
SaveApplication(h) ==
    /\ pc[h] = "save"
    /\ \/ /\ apps' = [apps EXCEPT ![target[h]] = copy[h]]
          /\ submitted' = IF copy[h].status = "SUBMITTED"
                          THEN submitted \cup {target[h]} ELSE submitted \ {target[h]}
       \/ UNCHANGED <<apps, submitted>>
    /\ Drop(h)
    /\ UNCHANGED <<versions, history>>

\* Qualify for the recommendation of the job's score.
Qualify(h) ==
    /\ pc[h] = "apply"
    /\ \E recommendation \in {"APPLY", "REVIEW", "REJECT"} :
           \/ recommendation = "APPLY" /\ Transition(h, copy[h], "QUALIFIED")
           \/ recommendation # "APPLY" /\ Drop(h)
    /\ UNCHANGED <<stores, history>>

StartPreparing(h) ==
    /\ pc[h] = "apply"
    /\ Transition(h, copy[h], "PREPARING")
    /\ UNCHANGED <<stores, history>>

Cancel(h) ==
    /\ pc[h] = "apply"
    /\ Transition(h, copy[h], "CANCELLED")
    /\ UNCHANGED <<stores, history>>

\* AttachResume with a version that is in the resume store.
AttachResume(h) ==
    /\ pc[h] = "apply"
    /\ \E v \in Versions :
           /\ versions[v] # ""
           /\ \/ /\ versions[v] \in {"VALIDATED", "APPROVED"}
                 /\ Transition(h, [copy[h] EXCEPT !.version = v], "REVIEW")
              \/ versions[v] \notin {"VALIDATED", "APPROVED"} /\ Drop(h)
    /\ UNCHANGED <<stores, history>>

\* The status Classify gives the answer to q.
Classify(q, confidence, claims) ==
    IF q \notin AlwaysReview /\ confidence = "high" /\ claims = "allowed"
    THEN "AUTO" ELSE "REVIEW"

\* The form is answered while the application is prepared or reviewed.
Answerable(h) == pc[h] = "apply" /\ copy[h].status \in {"PREPARING", "REVIEW"}

\* A generated answer is classified.
Answer(h) ==
    /\ Answerable(h)
    /\ \E q \in Questions, confidence \in {"high", "medium", "low"},
          claims \in {"none", "allowed", "not allowed"} :
           Return(h, [copy[h] EXCEPT !.answers[q] = Classify(q, confidence, claims)])
    /\ UNCHANGED <<stores, history>>

\* A human settles an item of BuildReviewQueue.
ResolveReview(h) ==
    /\ Answerable(h)
    /\ \E q \in {p \in Questions : copy[h].answers[p] = "REVIEW"} :
           /\ Return(h, [copy[h] EXCEPT !.answers[q] = "AUTO"])
           /\ resolved' = [resolved EXCEPT ![target[h]] = @ \cup {q}]
    /\ UNCHANGED <<stores, lost>>

\* ResumeVerified: whether the attached version is APPROVED.
VerifyResume(h) ==
    /\ pc[h] = "apply"
    /\ copy[h].version # None
    /\ verified' = [verified EXCEPT ![h] = versions[copy[h].version] = "APPROVED"]
    /\ Goto(h, "count")
    /\ UNCHANGED <<stores, target, copy, history>>

HasUnresolvedReview(answers) == \E q \in Questions : answers[q] = "REVIEW"

\* DEFECT: the limit itself still passes.
GateReasons_LimitOffByOne(r, jobVerified, resumeVerified, platform, today) ==
    {reason \in {"job", "resume", "answers", "duplicate", "platform", "limit"} :
        \/ reason = "job" /\ ~jobVerified
        \/ reason = "resume" /\ ~resumeVerified
        \/ reason = "answers" /\ HasUnresolvedReview(r.answers)
        \/ reason = "duplicate" /\ r.duplicateOf # None
        \/ reason = "platform" /\ platform \in {"unknown", "denied"}
        \/ reason = "limit" /\ DailyApplicationLimit > 0 /\ today > DailyApplicationLimit}

\* DEFECT: duplicates pass.
GateReasons_NoDuplicate(r, jobVerified, resumeVerified, platform, today) ==
    {reason \in {"job", "resume", "answers", "platform", "limit"} :
        \/ reason = "job" /\ ~jobVerified
        \/ reason = "resume" /\ ~resumeVerified
        \/ reason = "answers" /\ HasUnresolvedReview(r.answers)
        \/ reason = "platform" /\ platform \in {"unknown", "denied"}
        \/ reason = "limit" /\ DailyApplicationLimit > 0 /\ today >= DailyApplicationLimit}

\* EvaluateSafetyGate: the reasons against submitting r.
GateReasons(r, jobVerified, resumeVerified, platform, today) ==
    {reason \in {"job", "resume", "answers", "duplicate", "platform", "limit"} :
        \/ reason = "job" /\ ~jobVerified
        \/ reason = "resume" /\ ~resumeVerified
        \/ reason = "answers" /\ HasUnresolvedReview(r.answers)
        \/ reason = "duplicate" /\ r.duplicateOf # None
        \/ reason = "platform" /\ platform \in {"unknown", "denied"}
        \/ reason = "limit" /\ DailyApplicationLimit > 0 /\ today >= DailyApplicationLimit}

\* CountSubmittedSince, then EvaluateSafetyGate and Ready.
Ready(h) ==
    /\ pc[h] = "count"
    /\ \E jobVerified \in BOOLEAN, platform \in {"unknown", "allowed", "denied"} :
           LET reasons == GateReasons(copy[h], jobVerified, verified[h], platform,
                                      Cardinality(submitted))
           IN  \/ reasons = {} /\ Transition(h, [copy[h] EXCEPT !.gate = TRUE], "READY")
               \/ reasons # {} /\ Drop(h)
    /\ UNCHANGED <<stores, history>>

\* The status that the next progress or outcome of Start, Resume and Submit
\* stands for. An expired session ends a Start before it navigates (:134), a
\* Resume (:258) or a Submit before it clicks (:304); a Resume that finds the
\* page still blocked hands over again (:267); an uncertain click is no failure.
Reports ==
    [READY          |-> {"STARTING"},
     STARTING       |-> {"NAVIGATING", "FAILED"},
     NAVIGATING     |-> {"FILLING", "HUMAN_REQUIRED", "FAILED", "EXPIRED"},
     FILLING        |-> {"VERIFYING", "HUMAN_REQUIRED", "FAILED"},
     VERIFYING      |-> {"SUBMITTING", "EXPIRED"},
     SUBMITTING     |-> {"SUBMITTED", "HUMAN_REQUIRED"},
     HUMAN_REQUIRED |-> {"FILLING", "HUMAN_REQUIRED", "EXPIRED", "FAILED"}]

\* The outcome of a step of the browser is recorded by Transition.
RecordOutcome(h) ==
    /\ pc[h] = "apply"
    /\ copy[h].status \in DOMAIN Reports
    /\ \E outcome \in Reports[copy[h].status] :
           /\ Transition(h, copy[h], outcome)
           /\ lost' = IF ValidTransition(copy[h].status, outcome)
                      THEN lost ELSE lost \cup {target[h]}
    /\ UNCHANGED <<stores, resolved>>

\* A handler ends before its time, or its load fails.
Abort(h) ==
    /\ pc[h] # "idle"
    /\ Drop(h)
    /\ UNCHANGED <<stores, history>>

Midnight ==
    /\ submitted # {}
    /\ submitted' = {}
    /\ UNCHANGED <<apps, versions, pc, target, copy, verified, history>>

Handle(h) ==
    \/ CheckDuplicate(h) \/ GetApplication(h) \/ SaveApplication(h)
    \/ Qualify(h) \/ StartPreparing(h) \/ Cancel(h) \/ AttachResume(h)
    \/ Answer(h) \/ ResolveReview(h) \/ VerifyResume(h) \/ Ready(h)
    \/ RecordOutcome(h) \/ Abort(h)

Next ==
    \/ Midnight
    \/ \E v \in Versions : Generate(v) \/ Approve(v) \/ Reject(v)
    \/ \E h \in Handlers : Handle(h)

Spec == Init /\ [][Next]_vars

-----------------------------------------------------------------------------
TypeOK ==
    /\ apps \in [Apps -> Application \cup {None}]
    /\ versions \in [Versions -> VersionStatuses]
    /\ submitted \in SUBSET Apps
    /\ pc \in [Handlers -> Labels]
    /\ target \in [Handlers -> Apps \cup {None}]
    /\ copy \in [Handlers -> Application \cup {None}]
    /\ verified \in [Handlers -> BOOLEAN]
    /\ resolved \in [Apps -> SUBSET Questions]
    /\ lost \in SUBSET Apps

\* The statuses behind the safety gate.
Cleared == {"READY", "STARTING", "NAVIGATING", "FILLING", "VERIFYING",
            "SUBMITTING", "SUBMITTED", "HUMAN_REQUIRED", "FAILED", "EXPIRED"}

Safe(a, r) ==
    /\ r.gate /\ r.duplicateOf = None
    /\ r.version # None /\ versions[r.version] = "APPROVED"
    /\ ~HasUnresolvedReview(r.answers)
    /\ \A q \in AlwaysReview : r.answers[q] = "AUTO" => q \in resolved[a]

\* Behind the gate an application uses an approved resume, has no open
\* review, and a human gave every answer that must be a human's, whatever
\* other handlers do to it and to the resumes meanwhile (safety_gate.go).
ClearedIsSafe ==
    \A a \in Apps : apps[a] # None /\ apps[a].status \in Cleared => Safe(a, apps[a])

\* One application per job gets behind the gate, as long as handlers do not
\* overlap (duplicate.go: "one application per job").
OneClearedPerJob ==
    \A a, b \in Apps :
        /\ apps[a] # None /\ apps[a].status \in Cleared
        /\ apps[b] # None /\ apps[b].status \in Cleared
        /\ apps[a].job = apps[b].job
        => a = b

\* Applications that passed the gate and may still be submitted.
Underway == Cleared \ {"SUBMITTED", "FAILED", "EXPIRED"}

Admitted == {a \in Apps :
    \/ apps[a] # None /\ apps[a].status \in Underway
    \/ \E h \in Handlers : target[h] = a /\ copy[h].status = "READY" /\ pc[h] = "save"}

\* The daily application limit is a daily budget that admits at the gate and
\* counts at submission, as long as handlers do not overlap. A worker of the
\* budget is an application, so this says that none passes the gate at or
\* above the limit and none counts twice; every READY one may still go over.
Budget == INSTANCE DailyBudget
    WITH Workers <- Apps, Limit <- DailyApplicationLimit,
         used <- Cardinality(submitted), admitted <- Admitted

BudgetSpec == Budget!Spec

\* "FAILED/EXPIRED/HUMAN_REQUIRED are exceptional states reachable from the
\* in-flight browser stages" (state.go:7-8): what the browser reports of an
\* in-flight application is a status it can move to.
OutcomeRecorded == lost = {}
=============================================================================
