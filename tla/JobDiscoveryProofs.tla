------------------------- MODULE JobDiscoveryProofs -------------------------
(* What holds of job discovery for every number of overlapping invocations, *)
(* sources and postings, and for a store of any size.                       *)
EXTENDS JobDiscovery, FiniteSetTheorems, TLAPS

Busy == {"byID", "byHash", "save"}

-----------------------------------------------------------------------------
(* Types.                                                                   *)

\* What Ingest makes of a posting is a Job.
LEMMA Drafts ==
    /\ \A raw \in RawJob : Normalize(raw) \in Job
    /\ \A j \in Job, i \in Nat : DuplicateOf(j, i) \in Job
BY DEF RawJob, Job, Normalize, DuplicateOf

\* The postings of a fetch are RawJobs, and finitely many.
LEMMA Fetches ==
    ASSUME NEW s, NEW new \in SUBSET Offers(s)
    PROVE  /\ new \in SUBSET RawJob
           /\ IsFiniteSet(new)
           /\ Cardinality(new) \in Nat
<1>1. new \in SUBSET Postings
  BY DEF Offers
<1> QED BY <1>1, ConstantsAssumption, FS_Subset, FS_CardinalityType

DiscoveryResult == [fetched: Nat, ingested: Nat, duplicates: Nat]

\* Counting keeps a DiscoveryResult one.
LEMMA Counts ==
    ASSUME NEW r \in [Workers -> DiscoveryResult], NEW w \in Workers, NEW k \in Nat
    PROVE  /\ [r EXCEPT ![w].fetched = @ + k] \in [Workers -> DiscoveryResult]
           /\ [r EXCEPT ![w].ingested = @ + 1] \in [Workers -> DiscoveryResult]
           /\ [r EXCEPT ![w].duplicates = @ + 1] \in [Workers -> DiscoveryResult]
<1>1. [r[w] EXCEPT !.fetched = @ + k] \in DiscoveryResult
  BY DEF DiscoveryResult
<1>2. [r[w] EXCEPT !.ingested = @ + 1] \in DiscoveryResult
  BY DEF DiscoveryResult
<1>3. [r[w] EXCEPT !.duplicates = @ + 1] \in DiscoveryResult
  BY DEF DiscoveryResult
<1> QED BY <1>1, <1>2, <1>3

\* Saving a Job keeps the store a sequence of Jobs and the earlier ones as
\* they are.
LEMMA Saves ==
    ASSUME TypeOK, NEW j \in Job, jobs' = Append(jobs, j)
    PROVE  /\ jobs' \in Seq(Job)
           /\ DOMAIN jobs = 1..Len(jobs)
           /\ DOMAIN jobs' = 1..(Len(jobs) + 1)
           /\ jobs'[Len(jobs) + 1] = j
           /\ \A i \in DOMAIN jobs : jobs'[i] = jobs[i]
           /\ Len(jobs) \in Nat
BY DEF TypeOK

LEMMA SkipTypes ==
    ASSUME TypeOK, NEW w \in Workers, Skip(w),
           UNCHANGED <<jobs, turn, raws, fetched>>
    PROVE  TypeOK'
BY DEF TypeOK, Skip, Goto, Labels

LEMMA FoundTypes ==
    ASSUME TypeOK, NEW w \in Workers, draft[w] \in Job, NEW i \in DOMAIN jobs,
           Found(w, i), UNCHANGED <<jobs, turn, raws, fetched>>
    PROVE  TypeOK'
<1>1. i \in Nat
  BY DEF TypeOK
<1>2. DuplicateOf(draft[w], i) \in Job
  BY <1>1, Drafts
<1>3. draft' \in [Workers -> Job \cup {ZeroJob}] /\ draft'[w] \in Job
  BY <1>2 DEF TypeOK, Found
<1>4. result' \in [Workers -> [fetched: Nat, ingested: Nat, duplicates: Nat]]
  BY Counts DEF TypeOK, Found, DiscoveryResult
<1>5. pc' \in [Workers -> Labels]
  BY DEF TypeOK, Found, Goto, Labels
<1>6. \A v \in Workers : pc'[v] \in {"byID", "byHash", "save"} => draft'[v] \in Job
  BY <1>3 DEF TypeOK, Found, Goto
<1> QED BY Zenon, <1>3, <1>4, <1>5, <1>6 DEF TypeOK, Found

\* A step of a worker keeps the types.
LEMMA TypeStep == TypeOK /\ [Next]_vars => TypeOK'
<1> SUFFICES ASSUME TypeOK, [Next]_vars PROVE TypeOK'
  OBVIOUS
<1>1. CASE UNCHANGED vars
  BY <1>1 DEF TypeOK, vars
<1>2. ASSUME NEW w \in Workers, Run(w) PROVE TypeOK'
  BY <1>2 DEF TypeOK, Run, Goto, Labels
<1>3. ASSUME NEW w \in Workers, FetchJobs(w) PROVE TypeOK'
  <2>0. Len(Sources) \in Nat /\ turn[w] \in 1..(Len(Sources) + 1)
    BY ConstantsAssumption DEF TypeOK
  <2>1. turn' \in [Workers -> 1..(Len(Sources) + 1)]
    BY <1>3, <2>0 DEF TypeOK, FetchJobs
  <2>2. CASE failed' = [failed EXCEPT ![w] = TRUE]
             /\ UNCHANGED <<pc, raws, result, fetched>>
    BY <1>3, <2>1, <2>2 DEF TypeOK, FetchJobs
  <2>3. ASSUME NEW new \in SUBSET Offers(Sources[turn[w]]),
               raws' = [raws EXCEPT ![w] = new],
               result' = [result EXCEPT ![w].fetched = @ + Cardinality(new)],
               fetched' = [fetched EXCEPT ![w] = @ \cup new],
               Goto(w, "ingest"), UNCHANGED failed
        PROVE  TypeOK'
    <3>1. new \in SUBSET RawJob /\ Cardinality(new) \in Nat
      BY Fetches
    <3>2. result' \in [Workers -> [fetched: Nat, ingested: Nat, duplicates: Nat]]
      BY <2>3, <3>1, Counts DEF TypeOK, DiscoveryResult
    <3>3. pc' \in [Workers -> Labels]
      BY <2>3 DEF TypeOK, Goto, Labels
    <3>4. raws' \in [Workers -> SUBSET RawJob] /\ fetched' \in [Workers -> SUBSET RawJob]
      BY <2>3, <3>1 DEF TypeOK
    <3>5. \A v \in Workers : pc'[v] \in {"byID", "byHash", "save"} => draft'[v] \in Job
      BY <1>3, <2>3 DEF TypeOK, FetchJobs, Goto
    <3> QED BY Zenon, <1>3, <2>1, <2>3, <3>2, <3>3, <3>4, <3>5 DEF TypeOK, FetchJobs
  <2> QED BY <1>3, <2>2, <2>3 DEF FetchJobs
<1>4. ASSUME NEW w \in Workers, Ingest(w) PROVE TypeOK'
  <2>1. ASSUME NEW raw \in raws[w],
               raws' = [raws EXCEPT ![w] = @ \ {raw}],
               draft' = [draft EXCEPT ![w] = Normalize(raw)],
               Goto(w, IF raw.sourceJobID = None THEN "byHash" ELSE "byID")
        PROVE  TypeOK'
    <3>1. Normalize(raw) \in Job
      BY <2>1, Drafts DEF TypeOK
    <3> QED BY <1>4, <2>1, <3>1 DEF TypeOK, Ingest, Goto, Labels
  <2>2. CASE Goto(w, "fetch") /\ UNCHANGED <<raws, draft>>
    BY <1>4, <2>2 DEF TypeOK, Ingest, Goto, Labels
  <2> QED BY <1>4, <2>1, <2>2 DEF Ingest
<1>5. ASSUME NEW w \in Workers, FindBySourceJobID(w) PROVE TypeOK'
  <2>1. draft[w] \in Job
    BY <1>5 DEF TypeOK, FindBySourceJobID
  <2>2. CASE Goto(w, "byHash") /\ UNCHANGED <<draft, failed, result>>
    BY <1>5, <2>1, <2>2 DEF TypeOK, FindBySourceJobID, Goto, Labels
  <2> QED
    BY <1>5, <2>1, <2>2, SkipTypes, FoundTypes
    DEF FindBySourceJobID, LookupFails, WithStableId
<1>6. ASSUME NEW w \in Workers, FindByNormalizedHash(w) PROVE TypeOK'
  <2>1. draft[w] \in Job
    BY <1>6 DEF TypeOK, FindByNormalizedHash
  <2>2. CASE Goto(w, "save") /\ UNCHANGED <<draft, failed, result>>
    BY <1>6, <2>1, <2>2 DEF TypeOK, FindByNormalizedHash, Goto, Labels
  <2> QED
    BY <1>6, <2>1, <2>2, SkipTypes, FoundTypes
    DEF FindByNormalizedHash, LookupFails, WithFingerprint
<1>7. ASSUME NEW w \in Workers, SaveJob(w) PROVE TypeOK'
  <2>1. draft[w] \in Job
    BY <1>7 DEF TypeOK, SaveJob
  <2>2. CASE Skip(w) /\ UNCHANGED jobs
    BY <1>7, <2>2, SkipTypes DEF SaveJob
  <2>3. CASE ~(Skip(w) /\ UNCHANGED jobs)
    <3>1. jobs' \in Seq(Job)
      BY <1>7, <2>1, <2>3, Saves DEF SaveJob
    <3>0. result' = [result EXCEPT ![w].ingested = @ + 1]
      BY <1>7, <2>3 DEF SaveJob
    <3>2. result' \in [Workers -> [fetched: Nat, ingested: Nat, duplicates: Nat]]
      BY <3>0, Counts DEF TypeOK, DiscoveryResult
    <3>3. pc' \in [Workers -> Labels]
      BY <1>7, <2>3 DEF TypeOK, SaveJob, Goto, Labels
    <3>4. draft' \in [Workers -> Job \cup {ZeroJob}]
      BY <1>7, <2>3 DEF TypeOK, SaveJob
    <3>5. \A v \in Workers : pc'[v] \in {"byID", "byHash", "save"} => draft'[v] \in Job
      BY <1>7, <2>3 DEF TypeOK, SaveJob, Goto
    <3> QED BY Zenon, <1>7, <2>3, <3>1, <3>2, <3>3, <3>4, <3>5 DEF TypeOK, SaveJob
  <2> QED BY <2>2, <2>3
<1>8. ASSUME NEW w \in Workers, Leave(w) PROVE TypeOK'
  <2>1. Len(Sources) \in Nat
    BY ConstantsAssumption
  <2>2. result' \in [Workers -> [fetched: Nat, ingested: Nat, duplicates: Nat]]
    BY <1>8 DEF TypeOK, Leave, ZeroResult
  <2>3. turn' \in [Workers -> 1..(Len(Sources) + 1)]
    BY <1>8, <2>1 DEF TypeOK, Leave
  <2> QED BY <1>8, <2>2, <2>3 DEF TypeOK, Leave, Goto, Labels
<1> QED
  BY <1>1, <1>2, <1>3, <1>4, <1>5, <1>6, <1>7, <1>8
  DEF Next, Step, Return, Crash

LEMMA TypeInit == Init => TypeOK
<1> SUFFICES ASSUME Init PROVE TypeOK
  OBVIOUS
<1>1. Len(Sources) \in Nat
  BY ConstantsAssumption
<1>2. jobs \in Seq(Job)
  BY DEF Init
<1>3. result \in [Workers -> [fetched: Nat, ingested: Nat, duplicates: Nat]]
  BY DEF Init, ZeroResult
<1> QED BY <1>1, <1>2, <1>3 DEF Init, TypeOK, Labels

\* Whatever fails or crashes, all state keeps its type; in particular the zero
\* Job that Ingest returns with an error is never saved.
THEOREM TypeCorrect == Spec => []TypeOK
BY TypeInit, TypeStep, PTL DEF Spec

-----------------------------------------------------------------------------
(* What a step does to the store and to the drafts.                         *)

\* w takes up no draft.
Apart(w) == jobs' = jobs /\ pc'[w] \notin Busy

\* w normalised a posting.
Drafted(w) ==
    /\ jobs' = jobs
    /\ \E raw \in RawJob :
          /\ draft'[w] = Normalize(raw)
          /\ pc'[w] = IF raw.sourceJobID = None THEN "byHash" ELSE "byID"

\* w's lookup found nothing.
MissedId(w) ==
    /\ jobs' = jobs /\ draft'[w] = draft[w]
    /\ pc[w] = "byID" /\ pc'[w] = "byHash"
    /\ WithStableId(draft[w]) = {}

MissedHash(w) ==
    /\ jobs' = jobs /\ draft'[w] = draft[w]
    /\ pc[w] = "byHash" /\ pc'[w] = "save"
    /\ WithFingerprint(draft[w]) = {}

\* w's lookup found a job.
Matched(w) ==
    /\ jobs' = jobs /\ pc'[w] = "save"
    /\ \E i \in DOMAIN jobs :
          /\ draft'[w] = DuplicateOf(draft[w], i)
          /\ \/ pc[w] = "byID" /\ i \in WithStableId(draft[w])
             \/ pc[w] = "byHash" /\ i \in WithFingerprint(draft[w])

\* w's draft was saved.
Stored(w) ==
    /\ jobs' = Append(jobs, draft[w])
    /\ pc[w] = "save" /\ pc'[w] \notin Busy

Effect(w) ==
    /\ \A v \in Workers \ {w} : pc'[v] = pc[v] /\ draft'[v] = draft[v]
    /\ \/ Apart(w) \/ Drafted(w) \/ MissedId(w) \/ MissedHash(w)
       \/ Matched(w) \/ Stored(w)

LEMMA Effects ==
    ASSUME TypeOK, Next
    PROVE  \E w \in Workers : Effect(w)
<1> USE DEF TypeOK, Goto, Busy
<1>1. ASSUME NEW w \in Workers, Run(w) PROVE Effect(w)
  BY <1>1 DEF Run, Effect, Apart
<1>2. ASSUME NEW w \in Workers, FetchJobs(w) PROVE Effect(w)
  BY <1>2 DEF FetchJobs, Effect, Apart
<1>3. ASSUME NEW w \in Workers, Ingest(w) PROVE Effect(w)
  <2>1. ASSUME NEW raw \in raws[w],
               draft' = [draft EXCEPT ![w] = Normalize(raw)],
               Goto(w, IF raw.sourceJobID = None THEN "byHash" ELSE "byID")
        PROVE  Effect(w)
    BY <1>3, <2>1 DEF Ingest, Effect, Drafted
  <2>2. CASE Goto(w, "fetch") /\ UNCHANGED <<raws, draft>>
    BY <1>3, <2>2 DEF Ingest, Effect, Apart
  <2> QED BY <1>3, <2>1, <2>2 DEF Ingest
<1>4. ASSUME NEW w \in Workers, Skip(w), UNCHANGED jobs PROVE Effect(w)
  BY <1>4 DEF Skip, Effect, Apart
<1>5. ASSUME NEW w \in Workers, FindBySourceJobID(w) PROVE Effect(w)
  <2>1. ASSUME NEW i \in WithStableId(draft[w]), Found(w, i) PROVE Effect(w)
    BY <1>5, <2>1 DEF FindBySourceJobID, Found, Effect, Matched, WithStableId
  <2>2. CASE WithStableId(draft[w]) = {} /\ Goto(w, "byHash") /\ UNCHANGED <<draft, failed, result>>
    BY <1>5, <2>2 DEF FindBySourceJobID, Effect, MissedId
  <2> QED BY <1>4, <1>5, <2>1, <2>2 DEF FindBySourceJobID, LookupFails
<1>6. ASSUME NEW w \in Workers, FindByNormalizedHash(w) PROVE Effect(w)
  <2>1. ASSUME NEW i \in WithFingerprint(draft[w]), Found(w, i) PROVE Effect(w)
    BY <1>6, <2>1 DEF FindByNormalizedHash, Found, Effect, Matched, WithFingerprint
  <2>2. CASE WithFingerprint(draft[w]) = {} /\ Goto(w, "save") /\ UNCHANGED <<draft, failed, result>>
    BY <1>6, <2>2 DEF FindByNormalizedHash, Effect, MissedHash
  <2> QED BY <1>4, <1>6, <2>1, <2>2 DEF FindByNormalizedHash, LookupFails
<1>7. ASSUME NEW w \in Workers, SaveJob(w) PROVE Effect(w)
  <2>1. CASE Skip(w) /\ UNCHANGED jobs
    BY <1>4, <2>1
  <2>2. CASE ~(Skip(w) /\ UNCHANGED jobs)
    BY <1>7, <2>2 DEF SaveJob, Effect, Stored
  <2> QED BY <2>1, <2>2
<1>8. ASSUME NEW w \in Workers, Leave(w) PROVE Effect(w)
  BY <1>8 DEF Leave, Effect, Apart
<1> QED
  BY <1>1, <1>2, <1>3, <1>5, <1>6, <1>7, <1>8 DEF Next, Step, Return, Crash

-----------------------------------------------------------------------------
(* Duplicates have a reason.                                                *)

\* The two jobs share a stable identity or a fingerprint.
SameJob(d, j) ==
    /\ d.source = j.source
    /\ \/ d.name = j.name
       \/ d.sourceJobID = j.sourceJobID /\ d.sourceJobID # None

\* A draft is new until a lookup found a job for it.
DraftOf(w) ==
    /\ pc[w] = "byID" => draft[w].sourceJobID # None
    /\ pc[w] \in {"byID", "byHash"} => draft[w].status = "NORMALIZED"
    /\ pc[w] = "save" /\ draft[w].status = "DUPLICATE" =>
          /\ draft[w].duplicateOf \in DOMAIN jobs
          /\ SameJob(jobs[draft[w].duplicateOf], draft[w])

DraftsOK == \A w \in Workers : DraftOf(w)

GroundedInv == TypeOK /\ DraftsOK /\ DuplicatesGrounded

\* Jobs on record stay there, so a worker keeps its reason while others save.
LEMMA KeepsReason ==
    ASSUME TypeOK, NEW v \in Workers, DraftOf(v), pc'[v] = pc[v], draft'[v] = draft[v],
           \/ jobs' = jobs
           \/ \E j \in Job : jobs' = Append(jobs, j)
    PROVE  DraftOf(v)'
BY Saves DEF DraftOf, SameJob

LEMMA GroundedStep == GroundedInv /\ [Next]_vars => GroundedInv'
<1> SUFFICES ASSUME GroundedInv, [Next]_vars PROVE GroundedInv'
  OBVIOUS
<1>0. TypeOK /\ TypeOK'
  BY TypeStep DEF GroundedInv
<1>1. CASE UNCHANGED vars
  BY <1>0, <1>1 DEF GroundedInv, vars, DraftsOK, DraftOf, SameJob, DuplicatesGrounded
<1>2. CASE Next
  <2>1. PICK w \in Workers : Effect(w)
    BY <1>0, <1>2, Effects
  <2>2. Stored(w) => draft[w] \in Job
    BY <1>0 DEF TypeOK, Stored
  <2>3. \/ jobs' = jobs
        \/ \E j \in Job : jobs' = Append(jobs, j)
    BY <2>1, <2>2 DEF Effect, Apart, Drafted, MissedId, MissedHash, Matched, Stored
  <2>4. \A v \in Workers \ {w} : DraftOf(v)'
    BY <1>0, <2>1, <2>3, KeepsReason DEF Effect, GroundedInv, DraftsOK
  <2>5. DraftOf(w)'
    <3>1. CASE Apart(w)
      BY <3>1 DEF Apart, DraftOf, Busy
    <3>2. CASE Drafted(w)
      BY <3>2 DEF Drafted, DraftOf, Normalize
    <3>3. CASE MissedId(w)
      BY <3>3 DEF MissedId, GroundedInv, DraftsOK, DraftOf
    <3>4. CASE MissedHash(w)
      BY <3>4 DEF MissedHash, GroundedInv, DraftsOK, DraftOf
    <3>5. CASE Matched(w)
      <4>1. draft[w] \in Job
        BY <1>0, <3>5 DEF TypeOK, Matched
      <4>2. PICK i \in DOMAIN jobs :
              /\ draft'[w] = DuplicateOf(draft[w], i)
              /\ \/ pc[w] = "byID" /\ i \in WithStableId(draft[w])
                 \/ pc[w] = "byHash" /\ i \in WithFingerprint(draft[w])
        BY <3>5 DEF Matched
      <4>3. pc[w] = "byID" => draft[w].sourceJobID # None
        BY DEF GroundedInv, DraftsOK, DraftOf
      <4>4. SameJob(jobs[i], draft[w])
        BY <4>2, <4>3 DEF SameJob, WithStableId, WithFingerprint, StableId, Fingerprint
      <4>5. /\ draft'[w].duplicateOf = i
            /\ draft'[w].source = draft[w].source
            /\ draft'[w].name = draft[w].name
            /\ draft'[w].sourceJobID = draft[w].sourceJobID
        BY <4>1, <4>2 DEF DuplicateOf, Job
      <4> QED BY <3>5, <4>2, <4>4, <4>5 DEF Matched, DraftOf, SameJob
    <3>6. CASE Stored(w)
      BY <3>6 DEF Stored, DraftOf, Busy
    <3> QED BY <2>1, <3>1, <3>2, <3>3, <3>4, <3>5, <3>6 DEF Effect
  <2>6. DuplicatesGrounded'
    <3>1. CASE jobs' = jobs
      BY <3>1 DEF GroundedInv, DuplicatesGrounded
    <3>2. CASE Stored(w)
      <4>1. /\ DOMAIN jobs = 1..Len(jobs) /\ Len(jobs) \in Nat
            /\ DOMAIN jobs' = 1..(Len(jobs) + 1)
            /\ jobs'[Len(jobs) + 1] = draft[w]
            /\ \A i \in DOMAIN jobs : jobs'[i] = jobs[i]
        BY <1>0, <2>2, <3>2, Saves DEF Stored
      <4>2. draft[w].status = "DUPLICATE" =>
              /\ draft[w].duplicateOf \in 1..Len(jobs)
              /\ SameJob(jobs[draft[w].duplicateOf], draft[w])
        BY <3>2, <4>1 DEF Stored, GroundedInv, DraftsOK, DraftOf
      <4> SUFFICES ASSUME NEW i \in DOMAIN jobs', jobs'[i].status = "DUPLICATE"
                   PROVE  /\ jobs'[i].duplicateOf \in 1..(i - 1)
                          /\ SameJob(jobs'[jobs'[i].duplicateOf], jobs'[i])
        BY DEF DuplicatesGrounded, SameJob
      <4>3. CASE i \in DOMAIN jobs
        <5>1. /\ jobs[i].duplicateOf \in 1..(i - 1)
              /\ SameJob(jobs[jobs[i].duplicateOf], jobs[i])
          BY <4>1, <4>3 DEF GroundedInv, DuplicatesGrounded, SameJob
        <5>2. jobs[i].duplicateOf \in DOMAIN jobs
          BY <4>1, <4>3, <5>1
        <5> QED BY <4>1, <4>3, <5>1, <5>2
      <4>4. CASE i = Len(jobs) + 1
        BY <4>1, <4>2, <4>4
      <4> QED BY <4>1, <4>3, <4>4
    <3> QED
      BY <2>1, <3>1, <3>2 DEF Effect, Apart, Drafted, MissedId, MissedHash, Matched
  <2> QED BY <1>0, <2>4, <2>5, <2>6 DEF GroundedInv, DraftsOK
<1> QED BY <1>1, <1>2

\* No posting is set aside as a duplicate without an earlier job on record with
\* its stable identity or its fingerprint, however runs overlap.
THEOREM DuplicatesHaveGround == Spec => []DuplicatesGrounded
<1>1. Init => GroundedInv
  BY TypeInit DEF Init, GroundedInv, DraftsOK, DraftOf, DuplicatesGrounded
<1>2. GroundedInv => DuplicatesGrounded
  BY DEF GroundedInv
<1> QED BY <1>1, <1>2, GroundedStep, PTL DEF Spec

-----------------------------------------------------------------------------
(* One job enters the store as new at most once per worker.  A worker that  *)
(* found nothing and has not saved its draft counts as if it had.           *)

OriginalsOfName(s, n) == {i \in Originals : jobs[i].source = s /\ jobs[i].name = n}
OriginalsOfId(s, id) == {i \in Originals : jobs[i].source = s /\ jobs[i].sourceJobID = id}

MissedName(s, n) ==
    {w \in Workers : /\ pc[w] = "save" /\ draft[w].status = "NORMALIZED"
                     /\ draft[w].source = s /\ draft[w].name = n}

MissedIdOf(s, id) ==
    {w \in Workers : /\ pc[w] \in {"byHash", "save"} /\ draft[w].status = "NORMALIZED"
                     /\ draft[w].source = s /\ draft[w].sourceJobID = id}

BoundedName(s, n) ==
    Cardinality(OriginalsOfName(s, n)) + Cardinality(MissedName(s, n)) <= Cardinality(Workers)

BoundedId(s, id) ==
    Cardinality(OriginalsOfId(s, id)) + Cardinality(MissedIdOf(s, id)) <= Cardinality(Workers)

OriginalsInv ==
    /\ TypeOK
    /\ \A s \in Range(Sources), n \in Names : BoundedName(s, n)
    /\ \A s \in Range(Sources), id \in Ids : BoundedId(s, id)

\* The originals O and the workers M about to add one become O2 and M2.
Moved(O, M, O2, M2) ==
    \/ O2 = O /\ M2 \subseteq M
    \/ O2 = O /\ O = {}
    \/ \E i : \E w \in M : i \notin O /\ O2 = O \cup {i} /\ M2 \subseteq M \ {w}

LEMMA MovedBound ==
    ASSUME NEW O, NEW M \in SUBSET Workers, NEW O2, NEW M2 \in SUBSET Workers,
           IsFiniteSet(O), Moved(O, M, O2, M2),
           Cardinality(O) + Cardinality(M) <= Cardinality(Workers)
    PROVE  Cardinality(O2) + Cardinality(M2) <= Cardinality(Workers)
<1>1. /\ IsFiniteSet(M) /\ Cardinality(M) \in Nat
      /\ Cardinality(M2) \in Nat /\ Cardinality(M2) <= Cardinality(Workers)
      /\ Cardinality(O) \in Nat /\ Cardinality(Workers) \in Nat
  BY ConstantsAssumption, FS_Subset, FS_CardinalityType
<1>2. CASE O2 = O /\ M2 \subseteq M
  <2>1. Cardinality(M2) <= Cardinality(M)
    BY <1>1, <1>2, FS_Subset
  <2> QED BY <1>1, <1>2, <2>1
<1>3. CASE O2 = O /\ O = {}
  BY <1>1, <1>3, FS_EmptySet
<1>4. CASE \E i : \E w \in M : i \notin O /\ O2 = O \cup {i} /\ M2 \subseteq M \ {w}
  <2>1. PICK i : \E w \in M : i \notin O /\ O2 = O \cup {i} /\ M2 \subseteq M \ {w}
    BY <1>4
  <2> PICK w \in M : i \notin O /\ O2 = O \cup {i} /\ M2 \subseteq M \ {w}
    BY <2>1
  <2>2. Cardinality(O2) = Cardinality(O) + 1
    BY FS_AddElement
  <2>3. IsFiniteSet(M \ {w}) /\ Cardinality(M \ {w}) = Cardinality(M) - 1
    BY <1>1, FS_RemoveElement
  <2>4. Cardinality(M2) <= Cardinality(M \ {w})
    BY <2>3, FS_Subset
  <2> QED BY <1>1, <2>2, <2>3, <2>4
<1> QED BY <1>2, <1>3, <1>4 DEF Moved

LEMMA OriginalsFinite ==
    ASSUME TypeOK, NEW O \in SUBSET Originals
    PROVE  IsFiniteSet(O)
<1>1. DOMAIN jobs = 1..Len(jobs) /\ Len(jobs) \in Nat
  BY DEF TypeOK
<1>2. O \subseteq 1..Len(jobs)
  BY <1>1 DEF Originals
<1>3. IsFiniteSet(1..Len(jobs))
  BY <1>1, FS_Interval
<1> QED BY <1>2, <1>3, FS_Subset

LEMMA OriginalsStep == GroundedInv /\ OriginalsInv /\ [Next]_vars => OriginalsInv'
<1> SUFFICES ASSUME GroundedInv, OriginalsInv, [Next]_vars PROVE OriginalsInv'
  OBVIOUS
<1>0. TypeOK /\ TypeOK'
  BY TypeStep DEF OriginalsInv
<1>1. CASE UNCHANGED vars
  BY <1>0, <1>1 DEF OriginalsInv, vars, BoundedName, BoundedId, OriginalsOfName,
     OriginalsOfId, MissedName, MissedIdOf, Originals
<1>2. CASE Next
  <2>1. PICK w \in Workers : Effect(w)
    BY <1>0, <1>2, Effects
  <2>2. Stored(w) =>
          /\ DOMAIN jobs = 1..Len(jobs) /\ Len(jobs) \in Nat
          /\ DOMAIN jobs' = 1..(Len(jobs) + 1)
          /\ jobs'[Len(jobs) + 1] = draft[w]
          /\ \A i \in DOMAIN jobs : jobs'[i] = jobs[i]
    BY <1>0, Saves DEF TypeOK, Stored
  <2>3. \A v \in Workers \ {w} : pc'[v] = pc[v] /\ draft'[v] = draft[v]
    BY <2>1 DEF Effect
  <2>4. ASSUME NEW s \in Range(Sources), NEW n \in Names PROVE BoundedName(s, n)'
    <3>1. Moved(OriginalsOfName(s, n), MissedName(s, n),
                OriginalsOfName(s, n)', MissedName(s, n)')
      <4> DEFINE O == OriginalsOfName(s, n)
                 M == MissedName(s, n)
      <4>1. CASE w \notin M' /\ jobs' = jobs
        <5>1. O' = O /\ M' \subseteq M
          BY <2>3, <4>1 DEF OriginalsOfName, Originals, MissedName
        <5> QED BY <5>1 DEF Moved
      <4>2. CASE MissedHash(w) /\ w \in M'
        <5>1. O' = O
          BY <4>2 DEF MissedHash, OriginalsOfName, Originals
        <5>2. draft[w].source = s /\ draft[w].name = n
          BY <4>2 DEF MissedHash, MissedName
        <5>3. O = {}
          BY <4>2, <5>2 DEF MissedHash, WithFingerprint, Fingerprint, OriginalsOfName, Originals
        <5> QED BY <5>1, <5>3 DEF Moved
      <4>3. CASE Stored(w)
        <5>1. w \notin M'
          BY <4>3 DEF Stored, Busy, MissedName
        <5>2. M' \subseteq M \ {w}
          BY <2>3, <5>1 DEF MissedName
        <5>3. CASE w \in M
          <6>1. O' = O \cup {Len(jobs) + 1} /\ Len(jobs) + 1 \notin O
            BY <2>2, <4>3, <5>3 DEF OriginalsOfName, Originals, MissedName
          <6> QED BY <5>2, <5>3, <6>1 DEF Moved
        <5>4. CASE w \notin M
          <6>1. O' = O
            BY <2>2, <4>3, <5>4 DEF OriginalsOfName, Originals, MissedName, Stored
          <6> QED BY <5>2, <6>1 DEF Moved
        <5> QED BY <5>3, <5>4
      <4>4. (Apart(w) \/ Drafted(w) \/ MissedId(w) \/ Matched(w)) => w \notin M' /\ jobs' = jobs
        <5>1. Matched(w) => draft'[w].status = "DUPLICATE"
          BY <1>0 DEF Matched, DuplicateOf, TypeOK, Job
        <5> QED BY <5>1 DEF Apart, Busy, Drafted, MissedId, Matched, MissedName
      <4> QED
        BY <2>1, <4>1, <4>2, <4>3, <4>4 DEF Effect, MissedHash
    <3>2. /\ MissedName(s, n) \in SUBSET Workers
          /\ MissedName(s, n)' \in SUBSET Workers
          /\ OriginalsOfName(s, n) \in SUBSET Originals
      BY DEF MissedName, OriginalsOfName
    <3> QED
      BY <1>0, <3>1, <3>2, MovedBound, OriginalsFinite DEF OriginalsInv, BoundedName
  <2>5. ASSUME NEW s \in Range(Sources), NEW id \in Ids PROVE BoundedId(s, id)'
    <3>1. Moved(OriginalsOfId(s, id), MissedIdOf(s, id),
                OriginalsOfId(s, id)', MissedIdOf(s, id)')
      <4> DEFINE O == OriginalsOfId(s, id)
                 M == MissedIdOf(s, id)
      <4>1. CASE (w \in M' => w \in M) /\ jobs' = jobs
        <5>1. O' = O /\ M' \subseteq M
          BY <2>3, <4>1 DEF OriginalsOfId, Originals, MissedIdOf
        <5> QED BY <5>1 DEF Moved
      <4>2. CASE MissedId(w) /\ w \in M'
        <5>1. O' = O
          BY <4>2 DEF MissedId, OriginalsOfId, Originals
        <5>2. draft[w].source = s /\ draft[w].sourceJobID = id
          BY <4>2 DEF MissedId, MissedIdOf
        <5>3. O = {}
          BY <4>2, <5>2 DEF MissedId, WithStableId, StableId, OriginalsOfId, Originals
        <5> QED BY <5>1, <5>3 DEF Moved
      <4>3. CASE Stored(w)
        <5>1. w \notin M'
          BY <4>3 DEF Stored, Busy, MissedIdOf
        <5>2. M' \subseteq M \ {w}
          BY <2>3, <5>1 DEF MissedIdOf
        <5>3. CASE w \in M
          <6>1. O' = O \cup {Len(jobs) + 1} /\ Len(jobs) + 1 \notin O
            BY <2>2, <4>3, <5>3 DEF OriginalsOfId, Originals, MissedIdOf
          <6> QED BY <5>2, <5>3, <6>1 DEF Moved
        <5>4. CASE w \notin M
          <6>1. O' = O
            BY <2>2, <4>3, <5>4 DEF OriginalsOfId, Originals, MissedIdOf, Stored
          <6> QED BY <5>2, <6>1 DEF Moved
        <5> QED BY <5>3, <5>4
      <4>4. (Apart(w) \/ Drafted(w) \/ MissedHash(w) \/ Matched(w)) =>
                (w \in M' => w \in M) /\ jobs' = jobs
        <5>1. Matched(w) => draft'[w].status = "DUPLICATE"
          BY <1>0 DEF Matched, DuplicateOf, TypeOK, Job
        <5>2. Drafted(w) => w \notin M'
          BY ConstantsAssumption DEF Drafted, Normalize, MissedIdOf
        <5> QED BY <5>1, <5>2 DEF Apart, Busy, Drafted, MissedHash, Matched, MissedIdOf
      <4> QED
        BY <2>1, <4>1, <4>2, <4>3, <4>4 DEF Effect, MissedId
    <3>2. /\ MissedIdOf(s, id) \in SUBSET Workers
          /\ MissedIdOf(s, id)' \in SUBSET Workers
          /\ OriginalsOfId(s, id) \in SUBSET Originals
      BY DEF MissedIdOf, OriginalsOfId
    <3> QED
      BY <1>0, <3>1, <3>2, MovedBound, OriginalsFinite DEF OriginalsInv, BoundedId
  <2> QED BY <1>0, <2>4, <2>5 DEF OriginalsInv
<1> QED BY <1>1, <1>2

LEMMA OriginalsInit == Init => OriginalsInv
<1> SUFFICES ASSUME Init PROVE OriginalsInv
  OBVIOUS
<1>1. \A s, n : OriginalsOfName(s, n) = {} /\ MissedName(s, n) = {}
  BY DEF Init, OriginalsOfName, Originals, MissedName
<1>2. \A s, id : OriginalsOfId(s, id) = {} /\ MissedIdOf(s, id) = {}
  BY DEF Init, OriginalsOfId, Originals, MissedIdOf
<1>3. Cardinality({}) = 0 /\ Cardinality(Workers) \in Nat
  BY ConstantsAssumption, FS_EmptySet, FS_CardinalityType
<1>4. \A s, n : Cardinality(OriginalsOfName(s, n)) = 0 /\ Cardinality(MissedName(s, n)) = 0
  BY Zenon, <1>1, <1>3
<1>5. \A s, id : Cardinality(OriginalsOfId(s, id)) = 0 /\ Cardinality(MissedIdOf(s, id)) = 0
  BY Zenon, <1>2, <1>3
<1>6. \A s, n : BoundedName(s, n) /\ BoundedId(s, n)
  BY <1>3, <1>4, <1>5 DEF BoundedName, BoundedId
<1> QED BY <1>6, TypeInit DEF OriginalsInv

LEMMA OriginalsSafe == OriginalsInv => OriginalsBounded
<1> SUFFICES ASSUME OriginalsInv PROVE OriginalsBounded
  OBVIOUS
<1>0. TypeOK /\ Cardinality(Workers) \in Nat
  BY ConstantsAssumption, FS_CardinalityType DEF OriginalsInv
<1>1. ASSUME NEW s \in Range(Sources), NEW n \in Names
      PROVE  Cardinality(OriginalsOfName(s, n)) <= Cardinality(Workers)
  <2>1. OriginalsOfName(s, n) \in SUBSET Originals /\ MissedName(s, n) \in SUBSET Workers
    BY DEF OriginalsOfName, MissedName
  <2>2. /\ Cardinality(OriginalsOfName(s, n)) \in Nat
        /\ Cardinality(MissedName(s, n)) \in Nat
    BY <1>0, <2>1, OriginalsFinite, ConstantsAssumption, FS_Subset, FS_CardinalityType
  <2> QED BY <1>0, <2>2 DEF OriginalsInv, BoundedName
<1>2. ASSUME NEW s \in Range(Sources), NEW id \in Ids
      PROVE  Cardinality(OriginalsOfId(s, id)) <= Cardinality(Workers)
  <2>1. OriginalsOfId(s, id) \in SUBSET Originals /\ MissedIdOf(s, id) \in SUBSET Workers
    BY DEF OriginalsOfId, MissedIdOf
  <2>2. /\ Cardinality(OriginalsOfId(s, id)) \in Nat
        /\ Cardinality(MissedIdOf(s, id)) \in Nat
    BY <1>0, <2>1, OriginalsFinite, ConstantsAssumption, FS_Subset, FS_CardinalityType
  <2> QED BY <1>0, <2>2 DEF OriginalsInv, BoundedId
<1> QED BY <1>1, <1>2 DEF OriginalsBounded, OriginalsOfName, OriginalsOfId

\* One job of a source enters the store as new at most once for each of the
\* overlapping runs, by its stable identity as by its fingerprint: the gap
\* between lookup and save can cost no more than that.
THEOREM OriginalsPerWorker == Spec => []OriginalsBounded
<1>1. Init => GroundedInv /\ OriginalsInv
  BY TypeInit, OriginalsInit
  DEF Init, GroundedInv, DraftsOK, DraftOf, DuplicatesGrounded
<1> QED BY <1>1, GroundedStep, OriginalsStep, OriginalsSafe, PTL DEF Spec

-----------------------------------------------------------------------------
(* Nothing is lost without an error.  Every posting a run fetched is waiting,*)
(* in hand or on record, and the counters say how many are which.           *)

Same(j, raw) == StableId(j) = StableId(raw) /\ Fingerprint(j) = Fingerprint(raw)

Recorded(raw) == \E i \in DOMAIN jobs : Same(jobs[i], raw)

InHand(w) == IF pc[w] \in Busy THEN 1 ELSE 0

AccountOf(w) ==
    /\ IsFiniteSet(raws[w])
    /\ pc[w] \in {"idle", "fetch"} => raws[w] = {}
    /\ ~failed[w] =>
          /\ result[w].ingested + Cardinality(raws[w]) + InHand(w) = result[w].fetched
          /\ \A raw \in fetched[w] :
                \/ raw \in raws[w]
                \/ pc[w] \in Busy /\ Same(draft[w], raw)
                \/ Recorded(raw)

Account == \A w \in Workers : AccountOf(w)

\* What is on record stays on record.
LEMMA RecordedStays ==
    ASSUME TypeOK, NEW raw, Recorded(raw),
           \/ jobs' = jobs
           \/ \E j \in Job : jobs' = Append(jobs, j)
    PROVE  Recorded(raw)'
BY Saves DEF Recorded, Same, StableId, Fingerprint

\* A worker's account does not depend on the others.
LEMMA OthersKeepAccount ==
    ASSUME TypeOK, NEW v \in Workers, AccountOf(v),
           pc'[v] = pc[v], draft'[v] = draft[v], raws'[v] = raws[v],
           failed'[v] = failed[v], result'[v] = result[v], fetched'[v] = fetched[v],
           \/ jobs' = jobs
           \/ \E j \in Job : jobs' = Append(jobs, j)
    PROVE  AccountOf(v)'
BY RecordedStays DEF AccountOf, InHand, Same, StableId, Fingerprint

\* A run that has an error to report may leave its posting behind.
LEMMA SkipAccount ==
    ASSUME TypeOK, NEW w \in Workers, AccountOf(w), Skip(w), UNCHANGED raws
    PROVE  AccountOf(w)'
BY DEF TypeOK, AccountOf, Skip, Goto

LEMMA FoundAccount ==
    ASSUME TypeOK, NEW w \in Workers, AccountOf(w), pc[w] \in Busy, NEW i,
           Found(w, i), UNCHANGED <<jobs, raws, fetched>>
    PROVE  AccountOf(w)'
<1>1. draft[w] \in Job
  BY DEF TypeOK, Busy
<1>2. \A raw : Same(draft[w], raw) => Same(draft'[w], raw)
  BY <1>1 DEF TypeOK, Found, DuplicateOf, Same, StableId, Fingerprint, Job
<1>3. /\ pc'[w] \in Busy /\ pc'[w] \notin {"idle", "fetch"}
      /\ failed'[w] = failed[w]
  BY DEF TypeOK, Found, Goto, Busy
<1>4. result'[w].ingested = result[w].ingested /\ result'[w].fetched = result[w].fetched
  BY DEF TypeOK, Found
<1>5. \A raw : Recorded(raw) => Recorded(raw)'
  BY DEF Recorded, Same, StableId, Fingerprint
<1>6. /\ raws'[w] = raws[w] /\ fetched'[w] = fetched[w]
      /\ InHand(w) = 1 /\ InHand(w)' = 1
  BY <1>3 DEF InHand
<1>7. \A raw : Same(draft[w], raw) => Same(draft[w], raw)'
  BY <1>2 DEF Same, StableId, Fingerprint
<1> QED BY <1>3, <1>4, <1>5, <1>6, <1>7 DEF AccountOf

\* A lookup that finds nothing leaves the posting in hand.
LEMMA MissAccount ==
    ASSUME TypeOK, NEW w \in Workers, AccountOf(w), pc[w] \in Busy, pc'[w] \in Busy,
           UNCHANGED <<jobs, raws, draft, failed, result, fetched>>
    PROVE  AccountOf(w)'
BY DEF AccountOf, InHand, Busy, Recorded, Same, StableId, Fingerprint

\* Saving a posting moves it from hand to record.
LEMMA SaveAccount ==
    ASSUME TypeOK, NEW w \in Workers, AccountOf(w), SaveJob(w)
    PROVE  AccountOf(w)'
<1>1. CASE Skip(w) /\ UNCHANGED jobs
  BY <1>1, SkipAccount DEF SaveJob
<1>2. CASE ~(Skip(w) /\ UNCHANGED jobs)
  <2>1. draft[w] \in Job /\ pc[w] \in Busy
    BY DEF TypeOK, SaveJob, Busy
  <2>2. /\ jobs' = Append(jobs, draft[w])
        /\ result' = [result EXCEPT ![w].ingested = @ + 1]
        /\ pc'[w] = "ingest"
        /\ UNCHANGED <<raws, failed, fetched>>
    BY <1>2 DEF TypeOK, SaveJob, Goto
  <2>3. \A raw : Recorded(raw) => Recorded(raw)'
    BY <2>1, <2>2, RecordedStays
  <2>4. \A raw : Same(draft[w], raw) => Recorded(raw)'
    <3>1. /\ Len(jobs) + 1 \in DOMAIN jobs'
          /\ jobs'[Len(jobs) + 1] = draft[w]
      BY <2>1, <2>2, Saves
    <3> QED BY <3>1 DEF Recorded, Same, StableId, Fingerprint
  <2>5. /\ result'[w].ingested = result[w].ingested + 1
        /\ result'[w].fetched = result[w].fetched
        /\ result[w].ingested \in Nat /\ result[w].fetched \in Nat
    BY <2>2 DEF TypeOK
  <2>6. InHand(w) = 1 /\ InHand(w)' = 0 /\ pc'[w] \notin {"idle", "fetch"} \cup Busy
    BY <2>1, <2>2 DEF InHand, Busy
  <2>7. IsFiniteSet(raws[w]) => Cardinality(raws[w]) \in Nat
    BY FS_CardinalityType
  <2> QED BY <2>1, <2>2, <2>3, <2>4, <2>5, <2>6, <2>7 DEF AccountOf
<1> QED BY <1>1, <1>2

\* Fetching puts the new postings where they wait.
LEMMA FetchAccount ==
    ASSUME TypeOK, NEW w \in Workers, AccountOf(w), FetchJobs(w)
    PROVE  AccountOf(w)'
<1>1. CASE failed' = [failed EXCEPT ![w] = TRUE] /\ UNCHANGED <<pc, raws, result, fetched>>
  BY <1>1 DEF TypeOK, AccountOf
<1>2. ASSUME NEW new \in SUBSET Offers(Sources[turn[w]]),
             raws' = [raws EXCEPT ![w] = new],
             result' = [result EXCEPT ![w].fetched = @ + Cardinality(new)],
             fetched' = [fetched EXCEPT ![w] = @ \cup new],
             Goto(w, "ingest"), UNCHANGED failed
      PROVE  AccountOf(w)'
  <2>1. IsFiniteSet(new) /\ Cardinality(new) \in Nat
    BY Fetches
  <2>2. /\ raws'[w] = new /\ pc'[w] = "ingest"
        /\ fetched'[w] = fetched[w] \cup new
        /\ result'[w].ingested = result[w].ingested
        /\ result'[w].fetched = result[w].fetched + Cardinality(new)
        /\ result[w].ingested \in Nat /\ result[w].fetched \in Nat
    BY <1>2 DEF TypeOK, Goto
  <2>3. /\ pc[w] = "fetch" /\ raws[w] = {} /\ failed'[w] = failed[w]
        /\ InHand(w) = 0 /\ InHand(w)' = 0 /\ pc[w] \notin Busy
    BY <1>2, <2>2 DEF FetchJobs, AccountOf, InHand, Busy
  <2>4. \A raw : Recorded(raw) => Recorded(raw)'
    BY DEF FetchJobs, Recorded, Same, StableId, Fingerprint
  <2>5. Cardinality(raws[w]) = 0
    BY <2>3, FS_EmptySet
  <2> QED BY <2>1, <2>2, <2>3, <2>4, <2>5 DEF AccountOf
<1> QED BY <1>1, <1>2 DEF FetchJobs

\* Ingest takes a posting in hand.
LEMMA IngestAccount ==
    ASSUME TypeOK, NEW w \in Workers, AccountOf(w), Ingest(w)
    PROVE  AccountOf(w)'
<1>0. \A raw : Recorded(raw) => Recorded(raw)'
  BY DEF Ingest, Recorded, Same, StableId, Fingerprint
<1>1. ASSUME NEW raw \in raws[w],
             raws' = [raws EXCEPT ![w] = @ \ {raw}],
             draft' = [draft EXCEPT ![w] = Normalize(raw)],
             Goto(w, IF raw.sourceJobID = None THEN "byHash" ELSE "byID")
      PROVE  AccountOf(w)'
  <2>1. /\ raws'[w] = raws[w] \ {raw}
        /\ draft'[w] = Normalize(raw)
        /\ pc'[w] \in {"byHash", "byID"}
        /\ UNCHANGED <<failed, result, fetched>>
    BY <1>1 DEF TypeOK, Ingest, Goto
  <2>2. Same(draft[w], raw)'
    BY <2>1 DEF Normalize, Same, StableId, Fingerprint
  <2>3. IsFiniteSet(raws[w])
    BY DEF AccountOf
  <2>4. /\ IsFiniteSet(raws[w] \ {raw})
        /\ Cardinality(raws[w] \ {raw}) = Cardinality(raws[w]) - 1
        /\ Cardinality(raws[w]) \in Nat
    BY <1>1, <2>3, FS_RemoveElement, FS_CardinalityType
  <2>5. InHand(w) = 0 /\ InHand(w)' = 1 /\ pc[w] \notin Busy /\ pc'[w] \in Busy
    BY <2>1 DEF Ingest, InHand, Busy
  <2>6. result[w].ingested \in Nat /\ result[w].fetched \in Nat
    BY DEF TypeOK
  <2>7. pc'[w] \notin {"idle", "fetch"}
    BY <2>1
  <2> QED BY <1>0, <2>1, <2>2, <2>4, <2>5, <2>6, <2>7 DEF AccountOf
<1>2. CASE raws[w] = {} /\ Goto(w, "fetch") /\ UNCHANGED <<raws, draft>>
  <2>1. InHand(w) = 0 /\ InHand(w)' = 0 /\ pc[w] \notin Busy
    BY <1>2 DEF Ingest, TypeOK, Goto, InHand, Busy
  <2> QED BY <1>0, <1>2, <2>1 DEF Ingest, AccountOf
<1> QED BY <1>1, <1>2 DEF Ingest

\* A run that is left has nothing to account for.
LEMMA LeaveAccount ==
    ASSUME TypeOK, NEW w \in Workers, Leave(w)
    PROVE  AccountOf(w)'
<1>1. /\ raws'[w] = {} /\ fetched'[w] = {} /\ InHand(w)' = 0
      /\ result'[w].ingested = 0 /\ result'[w].fetched = 0
  BY DEF TypeOK, Leave, ZeroResult, Goto, InHand, Busy
<1> QED BY <1>1, FS_EmptySet DEF AccountOf

LEMMA AccountStep == TypeOK /\ Account /\ [Next]_vars => Account'
<1> SUFFICES ASSUME TypeOK, Account, [Next]_vars PROVE Account'
  OBVIOUS
<1> USE DEF Account
<1>0. ASSUME NEW w \in Workers, AccountOf(w)',
             \A v \in Workers \ {w} :
                 /\ pc'[v] = pc[v] /\ draft'[v] = draft[v] /\ raws'[v] = raws[v]
                 /\ failed'[v] = failed[v] /\ result'[v] = result[v]
                 /\ fetched'[v] = fetched[v],
             jobs' = jobs \/ \E j \in Job : jobs' = Append(jobs, j)
      PROVE  Account'
  BY <1>0, OthersKeepAccount
<1>1. CASE UNCHANGED vars
  BY <1>1 DEF vars, AccountOf, InHand, Recorded, Same, StableId, Fingerprint
<1>2. ASSUME NEW w \in Workers, Run(w) PROVE Account'
  <2>1. AccountOf(w)'
    BY <1>2 DEF Run, TypeOK, Goto, AccountOf, InHand, Busy, Recorded, Same, StableId, Fingerprint
  <2> QED BY <1>0, <1>2, <2>1 DEF Run, TypeOK, Goto
<1>3. ASSUME NEW w \in Workers, FetchJobs(w) PROVE Account'
  <2>1. AccountOf(w)'
    BY <1>3, FetchAccount
  <2> QED BY <1>0, <1>3, <2>1 DEF FetchJobs, TypeOK, Goto
<1>4. ASSUME NEW w \in Workers, Ingest(w) PROVE Account'
  <2>1. AccountOf(w)'
    BY <1>4, IngestAccount
  <2> QED BY <1>0, <1>4, <2>1 DEF Ingest, TypeOK, Goto
<1>5. ASSUME NEW w \in Workers, FindBySourceJobID(w) PROVE Account'
  <2>0. pc[w] \in Busy
    BY <1>5 DEF FindBySourceJobID, Busy
  <2>1. ASSUME Goto(w, "byHash"), UNCHANGED <<draft, failed, result>>
        PROVE  AccountOf(w)'
    <3>1. pc'[w] \in Busy
      BY <2>1 DEF Goto, TypeOK, Busy
    <3> QED BY <1>5, <2>0, <2>1, <3>1, MissAccount DEF FindBySourceJobID
  <2>2. AccountOf(w)'
    BY <1>5, <2>0, <2>1, SkipAccount, FoundAccount
    DEF FindBySourceJobID, LookupFails
  <2> QED BY <1>0, <1>5, <2>2 DEF FindBySourceJobID, LookupFails, Skip, Found, TypeOK, Goto
<1>6. ASSUME NEW w \in Workers, FindByNormalizedHash(w) PROVE Account'
  <2>0. pc[w] \in Busy
    BY <1>6 DEF FindByNormalizedHash, Busy
  <2>1. ASSUME Goto(w, "save"), UNCHANGED <<draft, failed, result>>
        PROVE  AccountOf(w)'
    <3>1. pc'[w] \in Busy
      BY <2>1 DEF Goto, TypeOK, Busy
    <3> QED BY <1>6, <2>0, <2>1, <3>1, MissAccount DEF FindByNormalizedHash
  <2>2. AccountOf(w)'
    BY <1>6, <2>0, <2>1, SkipAccount, FoundAccount
    DEF FindByNormalizedHash, LookupFails
  <2> QED BY <1>0, <1>6, <2>2 DEF FindByNormalizedHash, LookupFails, Skip, Found, TypeOK, Goto
<1>7. ASSUME NEW w \in Workers, SaveJob(w) PROVE Account'
  <2>1. AccountOf(w)'
    BY <1>7, SaveAccount
  <2>2. draft[w] \in Job
    BY <1>7 DEF SaveJob, TypeOK
  <2> QED BY <1>0, <1>7, <2>1, <2>2 DEF SaveJob, Skip, TypeOK, Goto
<1>8. ASSUME NEW w \in Workers, Leave(w) PROVE Account'
  <2>1. AccountOf(w)'
    BY <1>8, LeaveAccount
  <2> QED BY <1>0, <1>8, <2>1 DEF Leave, TypeOK, Goto
<1> QED
  BY <1>1, <1>2, <1>3, <1>4, <1>5, <1>6, <1>7, <1>8 DEF Next, Step, Return, Crash

LEMMA AccountInit == Init => Account
BY FS_EmptySet DEF Init, Account, AccountOf, ZeroResult, InHand, Busy

LEMMA AccountSafe == TypeOK /\ Account => NothingLostSilently
<1> SUFFICES ASSUME TypeOK, Account, NEW w \in Workers, pc[w] = "fetch", ~failed[w]
             PROVE  /\ result[w].ingested = result[w].fetched
                    /\ \A raw \in fetched[w] : Recorded(raw)
  BY DEF NothingLostSilently, Recorded, Same
<1>1. raws[w] = {} /\ Cardinality(raws[w]) = 0 /\ InHand(w) = 0 /\ pc[w] \notin Busy
  BY FS_EmptySet DEF Account, AccountOf, InHand, Busy
<1>2. result[w].ingested \in Nat /\ result[w].fetched \in Nat
  BY DEF TypeOK
<1> QED BY <1>1, <1>2 DEF Account, AccountOf

\* A run that reports no error has every posting it fetched on record, however
\* many sources there are and whatever other runs do meanwhile.
THEOREM NothingLost == Spec => []NothingLostSilently
<1>1. TypeOK /\ Account /\ [Next]_vars => (TypeOK /\ Account)'
  BY TypeStep, AccountStep
<1> QED BY <1>1, TypeInit, AccountInit, AccountSafe, PTL DEF Spec
-----------------------------------------------------------------------------
(* How long a run may take.                                                 *)

\* One source less to ask.
LEMMA SourceFacts ==
    \A n, k \in Nat : n * k \in Nat /\ (n + 1) * k = n * k + k
BY SMT

\* The quantities StepsLeft is made of.
LEMMA LeftFacts ==
    ASSUME TypeOK, Account, NEW w \in Workers
    PROVE  /\ IsFiniteSet(raws[w]) /\ Cardinality(raws[w]) \in Nat
           /\ StepsOfSource \in Nat
           /\ Len(Sources) + 1 - turn[w] \in Nat
           /\ (Len(Sources) + 1 - turn[w]) * StepsOfSource \in Nat
           /\ pc[w] # "idle" => StepsAtSource(pc[w], Cardinality(raws[w])) \in Nat
<1>1. IsFiniteSet(raws[w]) /\ Cardinality(raws[w]) \in Nat
  BY FS_CardinalityType DEF Account, AccountOf
<1>2. Len(Sources) \in Nat /\ turn[w] \in 1..(Len(Sources) + 1)
  BY ConstantsAssumption DEF TypeOK
<1>3. Len(Sources) + 1 - turn[w] \in Nat
  BY <1>2
<1>4. StepsOfSource \in Nat
  BY ConstantsAssumption DEF StepsOfSource
<1>5. pc[w] # "idle" => StepsAtSource(pc[w], Cardinality(raws[w])) \in Nat
  BY <1>1 DEF StepsAtSource, TypeOK, Labels
<1> QED
  BY <1>1, <1>3, <1>4, <1>5, SourceFacts

\* A step within a source brings its end closer, and a fetch uses up a source.
LEMMA StepAdvances ==
    ASSUME TypeOK, Account, NEW w \in Workers, Step(w)
    PROVE  \/ pc'[w] = "idle"
           \/ /\ turn'[w] = turn[w] + 1 /\ pc[w] = "fetch" /\ pc'[w] # "idle"
              /\ StepsAtSource(pc'[w], Cardinality(raws'[w])) <= 4 * MaxFetch + 1
           \/ /\ turn'[w] = turn[w] /\ pc'[w] # "idle"
              /\ StepsAtSource(pc'[w], Cardinality(raws'[w]))
                     < StepsAtSource(pc[w], Cardinality(raws[w]))
<1> DEFINE n == Cardinality(raws[w])
<1>0. IsFiniteSet(raws[w]) /\ n \in Nat /\ MaxFetch \in Nat
  BY LeftFacts, ConstantsAssumption
<1>a. \A k \in Nat : /\ StepsAtSource("fetch", k) = 0
                     /\ StepsAtSource("ingest", k) = 4 * k + 1
                     /\ StepsAtSource("byID", k) = 4 * k + 4
                     /\ StepsAtSource("byHash", k) = 4 * k + 3
                     /\ StepsAtSource("save", k) = 4 * k + 2
  BY DEF StepsAtSource
<1>b. ASSUME UNCHANGED <<turn, raws>>, pc'[w] # "idle",
             StepsAtSource(pc'[w], n) < StepsAtSource(pc[w], n)
      PROVE  /\ turn'[w] = turn[w] /\ pc'[w] # "idle"
             /\ StepsAtSource(pc'[w], Cardinality(raws'[w]))
                    < StepsAtSource(pc[w], Cardinality(raws[w]))
  BY <1>b
<1>1. CASE FetchJobs(w)
  <2>1. turn'[w] = turn[w] + 1 /\ pc[w] = "fetch"
    BY <1>1 DEF FetchJobs, TypeOK
  <2>2. CASE UNCHANGED <<pc, raws, result, fetched>>
    <3>1. pc'[w] = "fetch" /\ Cardinality(raws'[w]) = n
      BY <2>1, <2>2
    <3>2. StepsAtSource("fetch", n) = 0
      BY <1>0, <1>a
    <3>3. StepsAtSource(pc'[w], Cardinality(raws'[w])) = 0
      BY <3>1, <3>2
    <3> QED
      BY <1>0, <2>1, <3>1, <3>3
  <2>3. ASSUME NEW new \in SUBSET Offers(Sources[turn[w]]), Cardinality(new) <= MaxFetch,
               raws' = [raws EXCEPT ![w] = new], Goto(w, "ingest")
        PROVE  StepsAtSource(pc'[w], Cardinality(raws'[w])) <= 4 * MaxFetch + 1 /\ pc'[w] # "idle"
    <3>1. Cardinality(new) \in Nat
      BY Fetches
    <3>2. raws'[w] = new /\ pc'[w] = "ingest"
      BY <2>3 DEF Goto, TypeOK
    <3>3. StepsAtSource("ingest", Cardinality(new)) = 4 * Cardinality(new) + 1
      BY <1>a, <3>1
    <3> QED
      BY <1>0, <2>3, <3>1, <3>2, <3>3
  <2> QED
    BY <1>1, <2>1, <2>2, <2>3 DEF FetchJobs
<1>2. CASE Ingest(w)
  <2>1. pc[w] = "ingest" /\ turn' = turn
    BY <1>2 DEF Ingest
  <2>2. ASSUME NEW raw \in raws[w], raws' = [raws EXCEPT ![w] = @ \ {raw}],
               Goto(w, IF raw.sourceJobID = None THEN "byHash" ELSE "byID")
        PROVE  /\ pc'[w] # "idle"
               /\ StepsAtSource(pc'[w], Cardinality(raws'[w])) < StepsAtSource(pc[w], n)
    <3>1. raws'[w] = raws[w] \ {raw}
      BY <2>2 DEF TypeOK
    <3>2. Cardinality(raws'[w]) = n - 1
      BY <1>0, <2>2, <3>1, FS_RemoveElement
    <3>3. Cardinality(raws'[w]) \in Nat
      BY <1>0, <3>1, FS_RemoveElement, FS_CardinalityType
    <3>4. pc'[w] \in {"byHash", "byID"}
      BY <2>2 DEF Goto, TypeOK
    <3>5. PICK k \in Nat : k = Cardinality(raws'[w]) /\ n = k + 1
      BY <1>0, <3>2, <3>3
    <3>6. /\ StepsAtSource(pc'[w], k) \in {4 * k + 3, 4 * k + 4}
          /\ 4 * k + 3 \in Nat /\ 4 * k + 4 \in Nat
      <4>1. StepsAtSource("byHash", k) = 4 * k + 3 /\ StepsAtSource("byID", k) = 4 * k + 4
        BY <1>a
      <4> QED
        BY <3>4, <4>1
    <3>7. StepsAtSource(pc[w], n) = 4 * (k + 1) + 1
      BY <1>0, <1>a, <2>1, <3>5
    <3>8. StepsAtSource(pc'[w], k) < StepsAtSource(pc[w], n)
      BY <3>6, <3>7
    <3> QED
      BY <3>4, <3>5, <3>8
  <2>3. CASE Goto(w, "fetch") /\ UNCHANGED <<raws, draft>>
    <3>1. pc'[w] = "fetch"
      BY <2>3 DEF Goto, TypeOK
    <3> QED
      BY <1>0, <1>a, <1>b, <2>1, <2>3, <3>1
  <2> QED
    BY <1>2, <2>1, <2>2, <2>3 DEF Ingest
<1>3. CASE FindBySourceJobID(w) \/ FindByNormalizedHash(w) \/ SaveJob(w)
  <2>1. UNCHANGED <<turn, raws>>
    BY <1>3 DEF FindBySourceJobID, FindByNormalizedHash, SaveJob
  <2>2. \/ pc[w] = "byID" /\ pc'[w] \in {"ingest", "save", "byHash"}
        \/ pc[w] = "byHash" /\ pc'[w] \in {"ingest", "save"}
        \/ pc[w] = "save" /\ pc'[w] = "ingest"
    BY <1>3 DEF FindBySourceJobID, FindByNormalizedHash, SaveJob, LookupFails, Skip,
       Found, Goto, TypeOK
  <2>3. StepsAtSource(pc'[w], n) < StepsAtSource(pc[w], n)
    BY <1>0, <1>a, <2>2
  <2> QED
    BY <1>b, <2>1, <2>2, <2>3
<1>4. CASE Return(w)
  BY <1>4 DEF Return, Leave, Goto, TypeOK
<1> QED
  BY <1>1, <1>2, <1>3, <1>4 DEF Step

\* An advance lowers the number of steps left.
LEMMA StepShortens ==
    ASSUME TypeOK, Account, TypeOK', Account', NEW w \in Workers, Step(w)
    PROVE  StepsLeft(w)' \in 0..(StepsLeft(w) - 1)
<1>1. pc[w] # "idle"
  BY DEF Step, FetchJobs, Ingest, FindBySourceJobID, FindByNormalizedHash, SaveJob, Return
<1>2. PICK rest, sources \in Nat :
          /\ rest = StepsAtSource(pc[w], Cardinality(raws[w]))
          /\ sources = (Len(Sources) + 1 - turn[w]) * StepsOfSource
  BY <1>1, LeftFacts
<1>3. StepsLeft(w) = sources + rest + 1
  BY <1>1, <1>2 DEF StepsLeft
<1>4. CASE pc'[w] = "idle"
  BY <1>3, <1>4 DEF StepsLeft
<1>5. CASE pc'[w] # "idle"
  <2>1. Cardinality(raws'[w]) \in Nat
    BY FS_CardinalityType DEF Account, AccountOf
  <2>2. StepsAtSource(pc'[w], Cardinality(raws'[w])) \in Nat
    <3>1. pc'[w] \in Labels \ {"idle"}
      BY <1>5 DEF TypeOK
    <3>2. PICK k \in Nat : k = Cardinality(raws'[w])
      BY <2>1
    <3>3. \A label \in Labels \ {"idle"} : StepsAtSource(label, k) \in Nat
      BY DEF StepsAtSource, Labels
    <3> QED
      BY <3>1, <3>2, <3>3
  <2>3. PICK rest2 \in Nat : rest2 = StepsAtSource(pc'[w], Cardinality(raws'[w]))
    BY <2>2
  <2>4. CASE turn'[w] = turn[w] /\ rest2 < rest
    <3>1. StepsLeft(w)' = sources + rest2 + 1
      BY <1>2, <1>5, <2>3, <2>4 DEF StepsLeft
    <3> QED
      BY <1>3, <2>4, <3>1
  <2>5. CASE turn'[w] = turn[w] + 1 /\ pc[w] = "fetch" /\ rest2 <= 4 * MaxFetch + 1
    <3>1. rest = 0
      BY <1>2, <2>5 DEF StepsAtSource
    <3>0. Len(Sources) \in Nat /\ turn'[w] \in 1..(Len(Sources) + 1)
          /\ turn[w] \in 1..(Len(Sources) + 1)
      BY ConstantsAssumption DEF TypeOK
    <3>2. Len(Sources) + 1 - turn'[w] \in Nat
      BY <3>0
    <3>3. PICK m \in Nat : m = Len(Sources) + 1 - turn'[w]
      BY <3>2
    <3>4. Len(Sources) + 1 - turn[w] = m + 1
      BY <2>5, <3>0, <3>3
    <3>5. StepsOfSource \in Nat /\ StepsOfSource = 4 * MaxFetch + 2 /\ MaxFetch \in Nat
      BY ConstantsAssumption DEF StepsOfSource
    <3>6. sources = m * StepsOfSource + StepsOfSource /\ m * StepsOfSource \in Nat
      BY <1>2, <3>4, <3>5, SourceFacts
    <3>7. StepsLeft(w)' = m * StepsOfSource + rest2 + 1
      BY <1>5, <2>3, <3>3 DEF StepsLeft
    <3>8. PICK left \in Nat : left = m * StepsOfSource
      BY <3>6
    <3> QED
      BY <1>3, <2>5, <3>1, <3>5, <3>6, <3>7, <3>8
  <2> QED
    BY <1>2, <1>5, <2>3, <2>4, <2>5, StepAdvances
<1> QED
  BY <1>4, <1>5

\* A run is over only when its turn is back at the first source.
TurnsBack == \A w \in Workers : pc[w] = "idle" => turn[w] = 1

LEMMA TurnsBackStep == TypeOK /\ TurnsBack /\ [Next]_vars => TurnsBack'
<1> SUFFICES ASSUME TypeOK, TurnsBack, [Next]_vars, NEW v \in Workers, pc'[v] = "idle"
             PROVE  turn'[v] = 1
  BY DEF TurnsBack
<1>1. CASE UNCHANGED vars
  BY <1>1 DEF TurnsBack, vars
<1>2. ASSUME NEW w \in Workers, Run(w)
      PROVE  turn'[v] = 1
  BY <1>2 DEF Run, Goto, TurnsBack, TypeOK
<1>3. ASSUME NEW w \in Workers, FetchJobs(w)
      PROVE  turn'[v] = 1
  BY <1>3 DEF FetchJobs, Goto, TurnsBack, TypeOK
<1>4. ASSUME NEW w \in Workers,
             Ingest(w) \/ FindBySourceJobID(w) \/ FindByNormalizedHash(w) \/ SaveJob(w)
      PROVE  turn'[v] = 1
  <2>1. turn' = turn
    BY <1>4 DEF Ingest, FindBySourceJobID, FindByNormalizedHash, SaveJob
  <2>2. \E label \in Labels \ {"idle"} : Goto(w, label)
    BY <1>4 DEF Ingest, FindBySourceJobID, FindByNormalizedHash, SaveJob, LookupFails,
       Skip, Found, Labels
  <2> QED
    BY <2>1, <2>2 DEF Goto, TurnsBack, TypeOK
<1>5. ASSUME NEW w \in Workers, Leave(w)
      PROVE  turn'[v] = 1
  BY <1>5 DEF Leave, Goto, TurnsBack, TypeOK
<1> QED
  BY <1>1, <1>2, <1>3, <1>4, <1>5 DEF Next, Step, Return, Crash

LEMMA TurnsBackInit == Init => TurnsBack
BY DEF Init, TurnsBack

\* A trigger sets out to ask every source once.
LEMMA TriggerSteps ==
    ASSUME TypeOK, Account, TurnsBack, NEW w \in Workers, Run(w)
    PROVE  StepsLeft(w)' <= Len(Sources) * StepsOfSource + 1
<1>1. pc'[w] = "fetch" /\ turn'[w] = 1 /\ raws' = raws
  BY DEF TypeOK, Run, Goto, TurnsBack
<1>2. Len(Sources) \in Nat /\ Len(Sources) + 1 - turn'[w] = Len(Sources)
  BY <1>1, ConstantsAssumption
<1>3. StepsAtSource("fetch", Cardinality(raws[w])) = 0
  BY DEF StepsAtSource
<1>4. Len(Sources) * StepsOfSource \in Nat
  BY <1>2, LeftFacts, SourceFacts
<1> QED
  BY <1>1, <1>2, <1>3, <1>4 DEF StepsLeft

\* A worker's steps leave the other workers where they are.
LEMMA OthersStay ==
    ASSUME TypeOK, NEW w \in Workers, Run(w) \/ Step(w) \/ Crash(w),
           NEW v \in Workers, v # w
    PROVE  pc'[v] = pc[v] /\ turn'[v] = turn[v] /\ raws'[v] = raws[v]
<1>1. CASE Run(w)
  BY <1>1 DEF Run, Goto, TypeOK
<1>2. CASE FetchJobs(w)
  BY <1>2 DEF FetchJobs, Goto, TypeOK
<1>3. CASE Ingest(w)
  BY <1>3 DEF Ingest, Goto, TypeOK
<1>4. CASE FindBySourceJobID(w) \/ FindByNormalizedHash(w) \/ SaveJob(w)
  <2>1. UNCHANGED <<turn, raws>>
    BY <1>4 DEF FindBySourceJobID, FindByNormalizedHash, SaveJob
  <2>2. pc' = pc \/ \E label \in Labels : Goto(w, label)
    BY <1>4 DEF FindBySourceJobID, FindByNormalizedHash, SaveJob, LookupFails, Skip,
       Found, Labels
  <2> QED
    BY <2>1, <2>2 DEF Goto, TypeOK
<1>5. CASE Leave(w)
  BY <1>5 DEF Leave, Goto, TypeOK
<1> QED
  BY <1>1, <1>2, <1>3, <1>4, <1>5 DEF Step, Return, Crash

\* Only the trigger makes a run longer.
LEMMA OnlyTriggersLengthen ==
    ASSUME TypeOK, Account, TypeOK', Account', [Next]_vars, NEW v \in Workers,
           StepsLeft(v)' > StepsLeft(v)
    PROVE  Run(v)
<1>1. StepsLeft(v) \in Nat
  <2>1. CASE pc[v] = "idle"
    BY <2>1 DEF StepsLeft
  <2>2. CASE pc[v] # "idle"
    BY <2>2, LeftFacts DEF StepsLeft
  <2> QED
    BY <2>1, <2>2
<1>2. ~(pc'[v] = pc[v] /\ turn'[v] = turn[v] /\ raws'[v] = raws[v])
  BY <1>1 DEF StepsLeft
<1>3. ~UNCHANGED vars
  BY <1>2 DEF vars
<1>4. PICK w \in Workers : Run(w) \/ Step(w) \/ Crash(w)
  BY <1>3 DEF Next
<1>5. v = w
  BY <1>2, <1>4, OthersStay
<1>6. ~Step(v)
  BY <1>1, StepShortens
<1>7. ~Crash(v)
  <2>1. Crash(v) => StepsLeft(v)' = 0
    BY DEF Crash, Leave, Goto, StepsLeft, TypeOK
  <2> QED
    BY <1>1, <2>1
<1> QED
  BY <1>4, <1>5, <1>6, <1>7

\* Whatever fails and however runs overlap, each step of a run brings its end
\* closer and only a new trigger puts it off, by no more than the steps that
\* asking every source once can take (discovery.go:36-64).
THEOREM RunsShorten == Spec => RunsGetShorter
<1>1. TypeOK /\ Account /\ TurnsBack /\ TypeOK' /\ Account' /\ [Next]_vars =>
          [\A w \in Workers :
              /\ Step(w) => StepsLeft(w)' \in 0..(StepsLeft(w) - 1)
              /\ StepsLeft(w)' > StepsLeft(w) =>
                     Run(w) /\ StepsLeft(w)' <= Len(Sources) * StepsOfSource + 1]_vars
  BY StepShortens, OnlyTriggersLengthen, TriggerSteps
<1> QED
  BY <1>1, TypeInit, TypeStep, AccountInit, AccountStep, TurnsBackInit, TurnsBackStep,
     PTL DEF Spec, RunsGetShorter
=============================================================================
