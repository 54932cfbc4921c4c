--------------------------- MODULE OutcomeAnalytics ---------------------------
(***************************************************************************)
(* The read-only analytics over outcome records                            *)
(* (src/internal/outcome/analytics.go, recommendation.go), as operators on *)
(* "records", a function from the listed records' keys to the records.     *)
(*                                                                         *)
(* A record has its history "stages" and what it is grouped by: version    *)
(* (resume variant and version number), source, role and score.  A result  *)
(* that the code returns as a sorted slice is a function of the group's    *)
(* key.  A Rate is its two counts; the quotient is only ever compared.     *)
(***************************************************************************)
EXTENDS Integers, FiniteSetsExt

FunnelStages == {"discovered", "qualified", "prepared", "submitted",
                 "responded", "interview", "offer", "rejected", "withdrawn"}

HasStage(r, stage) == \E i \in DOMAIN r.stages : r.stages[i] = stage

\* The records among the keys S that ever reached the stage.
Reached(records, S, stage) == {a \in S : HasStage(records[a], stage)}

\* How many of the records in S reached each stage.
Funnel(records, S) ==
    [stage \in FunnelStages |-> Cardinality(Reached(records, S, stage))]

computeRate(numerator, denominator) ==
    [numerator |-> numerator, denominator |-> denominator]

\* p.Value < q.Value, where a Value without denominator is 0.
Below(p, q) ==
    /\ q.denominator > 0
    /\ IF p.denominator = 0
       THEN q.numerator > 0
       ELSE p.numerator * q.denominator < q.numerator * p.denominator

ResponseRate(records, S) ==
    LET f == Funnel(records, S) IN computeRate(f["responded"], f["submitted"])

InterviewRate(records, S) ==
    LET f == Funnel(records, S) IN computeRate(f["interview"], f["submitted"])

\* What is reported for each group: one shape for versions, sources, roles.
Performance(records, S) ==
    [submitted     |-> Funnel(records, S)["submitted"],
     responseRate  |-> ResponseRate(records, S),
     interviewRate |-> InterviewRate(records, S),
     offerCount    |-> Funnel(records, S)["offer"]]

\* One Performance for each key that occurs.
GroupBy(key(_), records) ==
    LET S == DOMAIN records IN
    [k \in {key(records[a]) : a \in S} |->
        Performance(records, {a \in S : key(records[a]) = k})]

ByResumeVersion(records) == GroupBy(LAMBDA r : r.version, records)
BySource(records)        == GroupBy(LAMBDA r : r.source, records)
ByRole(records)          == GroupBy(LAMBDA r : r.role, records)

-----------------------------------------------------------------------------
(* Job-score calibration *)

Buckets == 0..9

\* The scores that defaultScoreBuckets announces for a bucket.
ScoreRange(bucket) ==
    10 * bucket .. (IF bucket = 9 THEN 100 ELSE 10 * bucket + 9)

\* DEFECT: the index is not clamped at the top.
BucketOf_NoClamp(score) == IF score \div 10 < 0 THEN 0 ELSE score \div 10

\* Go divides towards zero, \div downwards: the same once clamped.
BucketOf(score) ==
    CASE score \div 10 > 9 -> 9
      [] score \div 10 < 0 -> 0
      [] OTHER -> score \div 10

ScoreCalibration(records) ==
    [bucket \in Buckets |->
        LET S == {a \in DOMAIN records : BucketOf(records[a].score) = bucket} IN
        [count |-> Cardinality(S), performance |-> Performance(records, S)]]

-----------------------------------------------------------------------------
(* Recommendations *)

\* DEFECT: a version is flagged for being average, too.
Flagged_AtAverage(performance, overall, minSubmissions) ==
    /\ performance.submitted >= minSubmissions
    /\ ~Below(overall, performance.responseRate)

\* The conditions under which the loop over the versions flags one.
Flagged(performance, overall, minSubmissions) ==
    /\ performance.submitted >= minSubmissions
    /\ Below(performance.responseRate, overall)

\* The resume versions that a human is asked to review.
RecommendLowPerformingResumeVersions(records, minSubmissions) ==
    LET perVersion == ByResumeVersion(records)
        overall    == ResponseRate(records, DOMAIN records)
    IN {v \in DOMAIN perVersion :
            Flagged(perVersion[v], overall, minSubmissions)}
=============================================================================
