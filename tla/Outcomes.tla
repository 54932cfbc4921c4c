------------------------------- MODULE Outcomes -------------------------------
(***************************************************************************)
(* Outcome records (src/internal/outcome/outcome.go): their append-only    *)
(* history of funnel stages, as handlers load a Record, append stages to   *)
(* it and save it, and what the analytics say of the records on file.      *)
(*                                                                         *)
(* src has no caller of AppendStage; the handler is the one that the Store *)
(* interface leads to.  Handlers overlap, a store call may fail, and a     *)
(* handler may end at any point.                                           *)
(*                                                                         *)
(* Stages is a Go slice, so a Record is passed by value but its history is *)
(* not: copies of a Record hold the same array, and append writes into it  *)
(* as long as it has room.  "array" is the identity of that array, "cap"   *)
(* its size.  A store either hands out and keeps the Record values it is   *)
(* given, as a map in memory does, or writes them out and reads them back. *)
(***************************************************************************)
EXTENDS OutcomeAnalytics, Sequences

CONSTANTS
    Handlers,       \* requests that record an outcome
    Applications,   \* applications, each with at most one record
    Archive,        \* what the records of closed applications may tell: for
                    \* each of these applications, a set of histories
    Arrays,         \* arrays in memory, reused when nothing refers to them
    Observed,       \* the stages that callers report, some of FunnelStages
    Context,        \* version, source, role and score of each application
    SharesMemory,   \* does the store keep the very slices it is given?
    MaxStages,      \* bound of the length of a history
    None            \* no record, no array, no final outcome yet

FinalStages == {"offer", "rejected", "withdrawn"}

\* events is history: the stages that were appended, as AppendStage got them.
Record == [stages: Seq(FunnelStages), final: FinalStages \cup {None},
           array: Arrays \cup {None}, cap: Nat, events: Seq(FunnelStages)]

Draft == [app: Applications, rec: Record]

ASSUME ConstantsAssumption ==
    /\ Observed \subseteq FunnelStages
    /\ SharesMemory \in BOOLEAN
    /\ MaxStages \in Nat
    /\ IsFiniteSet(Applications)
    /\ DOMAIN Archive \subseteq Applications
    /\ \A a \in DOMAIN Archive : Archive[a] \subseteq Seq(FunnelStages)
    /\ None \notin Record \cup Draft \cup FinalStages \cup Arrays

ASSUME ContextAssumption ==
    \A a \in Applications :
        /\ DOMAIN Context[a] = {"version", "source", "role", "score"}
        /\ Context[a].score \in Int

VARIABLES
    stored,     \* the record on file for each application, or None
    draft       \* the record each handler works on, or None

vars == <<stored, draft>>

\* The outcome that a history tells: its last final stage, None without one.
Tells(stages, final) ==
    \/ /\ final = None
       /\ \A i \in DOMAIN stages : stages[i] \notin FinalStages
    \/ \E i \in DOMAIN stages :
          /\ stages[i] = final
          /\ final \in FinalStages
          /\ \A j \in DOMAIN stages : j > i => stages[j] \notin FinalStages

OnFile(stages, final) == [stages |-> stages, final |-> final, array |-> None,
                          cap |-> Len(stages), events |-> stages]

\* The records that a closed application may have.
Closed(a) ==
    {OnFile(s[1], s[2]) :
        s \in {p \in Archive[a] \X (FinalStages \cup {None}) : Tells(p[1], p[2])}}

\* Applications that outcomes still arrive for.
Open == Applications \ DOMAIN Archive

Init ==
    /\ stored \in [Applications -> {None} \cup UNION {Closed(a) : a \in DOMAIN Archive}]
    /\ \A a \in Applications :
           IF a \in Open THEN stored[a] = None ELSE stored[a] \in Closed(a)
    /\ draft = [h \in Handlers |-> None]

\* Arrays that nothing but h's own draft refers to.
Fresh(h) ==
    {x \in Arrays :
        /\ \A a \in Applications : stored[a] = None \/ stored[a].array # x
        /\ \A g \in Handlers \ {h} : draft[g] = None \/ draft[g].rec.array # x}

Hold(h, a, r) == draft' = [draft EXCEPT ![h] = [app |-> a, rec |-> r]]

\* The first record of an application: no stage yet, so no array either.
NewRecord(h, a) ==
    /\ draft[h] = None
    /\ stored[a] = None
    /\ Hold(h, a, [stages |-> <<>>, final |-> None, array |-> None, cap |-> 0,
                   events |-> <<>>])
    /\ UNCHANGED stored

\* The same values in another piece of memory.
InArray(r, x, cap) == [stages |-> r.stages, final |-> r.final, array |-> x,
                       cap |-> cap, events |-> r.events]

\* A store that reads a record back decodes its history into a new slice, with
\* some room behind it.
GetRecord(h, a) ==
    /\ draft[h] = None
    /\ stored[a] # None
    /\ IF SharesMemory
       THEN Hold(h, a, stored[a])
       ELSE \E x \in Fresh(h) :
                Hold(h, a, InArray(stored[a], x, Len(stored[a].stages) + 1))
    /\ UNCHANGED stored

-----------------------------------------------------------------------------
(* AppendStage *)

\* DEFECT: every stage becomes the final outcome.
FinalAfter_AnyStage(final, stage) == stage

\* DEFECT: a stage that is not final clears the outcome.
FinalAfter_Clears(final, stage) == IF stage \in FinalStages THEN stage ELSE None

FinalAfter(final, stage) == IF stage \in FinalStages THEN stage ELSE final

\* The size of the array that append moves a full history of n stages to.
Grown(n) == IF n = 0 THEN 1 ELSE 2 * n

\* r, once stage has been written into array x behind the first n stages.
Written(r, x, n, stage) ==
    IF r.array = x /\ Len(r.stages) > n
    THEN [r EXCEPT !.stages = [@ EXCEPT ![n + 1] = stage]]
    ELSE r

\* r with stage appended, its history in array x of the given size.
Appended(r, stage, x, cap) ==
    [stages |-> Append(r.stages, stage), final |-> FinalAfter(r.final, stage),
     array |-> x, cap |-> cap, events |-> Append(r.events, stage)]

\* A full array is copied to a larger one.
AppendToCopy(h, stage) ==
    LET r == draft[h].rec IN
    /\ Len(r.stages) = r.cap
    /\ \E x \in Fresh(h) :
          Hold(h, draft[h].app, Appended(r, stage, x, Grown(r.cap)))
    /\ UNCHANGED stored

\* The array has room: every record that shares it and goes on behind the
\* stages of h's draft sees the write.
AppendInPlace(h, stage) ==
    LET r == draft[h].rec
        n == Len(r.stages)
    IN /\ n < r.cap
       /\ stored' = [a \in Applications |->
             IF stored[a] = None THEN None
             ELSE Written(stored[a], r.array, n, stage)]
       /\ draft' = [g \in Handlers |->
             IF g = h
             THEN [app |-> draft[h].app, rec |-> Appended(r, stage, r.array, r.cap)]
             ELSE IF draft[g] = None THEN None
             ELSE [app |-> draft[g].app,
                   rec |-> Written(draft[g].rec, r.array, n, stage)]]

AppendStage(h, stage) ==
    /\ draft[h] # None
    /\ Len(draft[h].rec.stages) < MaxStages
    /\ AppendToCopy(h, stage) \/ AppendInPlace(h, stage)

-----------------------------------------------------------------------------
\* What a store that writes records out keeps of one: its values, no memory.
Kept(r) ==
    IF SharesMemory THEN r ELSE InArray(r, None, Len(r.stages))

\* A save that reports an error may have been made.
SaveRecord(h) ==
    /\ draft[h] # None
    /\ stored' \in
          {stored, [stored EXCEPT ![draft[h].app] = Kept(draft[h].rec)]}
    /\ draft' = [draft EXCEPT ![h] = None]

\* The handler ends without a save.
Drop(h) ==
    /\ draft[h] # None
    /\ draft' = [draft EXCEPT ![h] = None]
    /\ UNCHANGED stored

Step(h) ==
    \/ \E a \in Open : NewRecord(h, a) \/ GetRecord(h, a)
    \/ \E stage \in Observed : AppendStage(h, stage)
    \/ SaveRecord(h) \/ Drop(h)

Next == \E h \in Handlers : Step(h)

Spec == Init /\ [][Next]_vars
-----------------------------------------------------------------------------
(* Properties *)

TypeOK ==
    /\ stored \in [Applications -> Record \cup {None}]
    /\ draft \in [Handlers -> Draft \cup {None}]

\* FinalOutcome is derived from the history (docs/DECISIONS.md:351): however
\* handlers overlap, overwrite each other and fail, the record on file names
\* the last final stage of its own history (AppendStage, outcome.go:89-98).
\* For a store that writes records out, where no handler can reach into what
\* another has saved; it fails with one that shares memory, since an append to
\* a copy then rewrites the history under a FinalOutcome (outcome.go:90).
FinalOutcomeDerived ==
    \A a \in Applications :
        stored[a] # None => Tells(stored[a].stages, stored[a].final)

\* "It never removes or rewrites prior stage history" (outcome.go:86-87): the
\* history on file consists of the stages that were appended to it, whatever
\* becomes of the copies of the record that handlers hold.
HistoryNotRewritten ==
    \A a \in Applications :
        stored[a] # None => stored[a].stages = stored[a].events

\* ListRecords: the records on file, with the context they were made in.
ListRecords ==
    [a \in {b \in Applications : stored[b] # None} |->
        [stages  |-> stored[a].stages,      version |-> Context[a].version,
         source  |-> Context[a].source,     role    |-> Context[a].role,
         score   |-> Context[a].score]]

Counts(p) ==
    <<p.submitted, p.responseRate.numerator, p.interviewRate.numerator, p.offerCount>>

Plus(x, y) == <<x[1] + y[1], x[2] + y[2], x[3] + y[3], x[4] + y[4]>>

\* The counts of all groups together.
Total(groups) ==
    MapThenFoldSet(Plus, <<0, 0, 0, 0>>, LAMBDA k : Counts(groups[k]),
                   LAMBDA S : CHOOSE k \in S : TRUE, DOMAIN groups)

\* The records in all buckets together.
Bucketed(buckets) == MapThenSumSet(LAMBDA b : buckets[b].count, DOMAIN buckets)

\* However the records are grouped, each is in one group: submissions,
\* responses, interviews and offers of the groups add up to those of the
\* whole, and so do the score buckets' for any score, also one that is not in
\* 0-100 (ByResumeVersion, BySource, ByRole, ScoreCalibration,
\* analytics.go:99-250).
GroupsAddUp ==
    LET records == ListRecords
        buckets == ScoreCalibration(records)
        all     == Counts(Performance(records, DOMAIN records))
    IN /\ Total(ByResumeVersion(records)) = all
       /\ Total(BySource(records)) = all
       /\ Total(ByRole(records)) = all
       /\ Total([b \in Buckets |-> buckets[b].performance]) = all
       /\ Bucketed(buckets) = Cardinality(DOMAIN records)

\* Every response on record belongs to a submission on record.
ResponsesFollowSubmissions ==
    \A a \in DOMAIN ListRecords :
        HasStage(ListRecords[a], "responded")
            => HasStage(ListRecords[a], "submitted")

\* A resume version is flagged only for being worse than the others: if all
\* responses on record have their submissions on record, the applications made
\* with the other versions, taken together, have a better response rate than
\* its own.  So the recommendation never discredits all versions, or the only
\* one (RecommendLowPerformingResumeVersions, recommendation.go:24-43).
FlaggedIsOutperformed ==
    ResponsesFollowSubmissions =>
        \A minSubmissions \in 0..2 :
            \A v \in RecommendLowPerformingResumeVersions(ListRecords, minSubmissions) :
                Below(ByResumeVersion(ListRecords)[v].responseRate,
                      ResponseRate(ListRecords,
                          {a \in DOMAIN ListRecords : ListRecords[a].version # v}))
=============================================================================
