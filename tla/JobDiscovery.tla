---------------------------- MODULE JobDiscovery ----------------------------
(***************************************************************************)
(* Scheduled job discovery: DiscoveryTask.Run                              *)
(* (src/internal/scheduler/discovery.go) fetches the postings of every     *)
(* source and ingests each one: job.Ingest (src/internal/job/dedup.go)     *)
(* normalises it and looks for an earlier posting of the same job, and Run *)
(* saves what Ingest returns.                                              *)
(*                                                                         *)
(* A worker is one invocation of the scheduler's trigger at a time.  Each  *)
(* fetch, lookup and save is a step of its own that may fail; the job      *)
(* store is shared.  A Name stands for the company, title and location of  *)
(* a posting up to letter case and runs of white space, which is what its  *)
(* fingerprint keeps of them.                                              *)
(***************************************************************************)
EXTENDS Integers, Sequences, FiniteSets, Functions

CONSTANTS
    Workers,    \* scheduler invocations that may overlap
    Sources,    \* DiscoveryTask.Sources: a sequence of the sources' names
    Ids,        \* stable identities a source gives its postings
    Names,      \* companies, titles and locations
    Postings,   \* what the sources have to offer
    MaxFetch,   \* bound: postings that one fetch returns
    Capacity,   \* bound: jobs the store takes before every save fails
    None        \* no stable identity, no job

\* What a source says of a posting, as Run hands it to Ingest.
RawJob == [source: Range(Sources), sourceJobID: Ids \cup {None}, name: Names]

ASSUME ConstantsAssumption ==
    /\ IsFiniteSet(Workers) /\ Workers # {}
    /\ Sources \in Seq(Range(Sources))
    /\ Postings \subseteq RawJob
    /\ IsFiniteSet(Postings)
    /\ MaxFetch \in Nat
    /\ Capacity \in Nat
    /\ None \notin Ids

\* A job's ID is its place in the store, so 0 is the empty DuplicateOfID.
Job == [source: Range(Sources), sourceJobID: Ids \cup {None}, name: Names,
        status: {"NORMALIZED", "DUPLICATE"}, duplicateOf: Nat]

\* The DiscoveryResult Run starts from.
ZeroResult == [fetched |-> 0, ingested |-> 0, duplicates |-> 0]

\* The zero Job that comes with an error.
ZeroJob == [source |-> None, sourceJobID |-> None, name |-> None,
            status |-> None, duplicateOf |-> 0]

VARIABLES
    jobs,       \* the job store, in the order in which jobs were saved
    pc,         \* the step each worker is about to take
    turn,       \* the place in Sources that Run is at
    raws,       \* postings of the last fetch that are not ingested yet
    draft,      \* the job Ingest and SaveJob are at, or ZeroJob
    failed,     \* whether Run has a firstErr
    result,     \* the DiscoveryResult of Run
    fetched     \* history: every posting that Run fetched

vars == <<jobs, pc, turn, raws, draft, failed, result, fetched>>

Labels == {"idle", "fetch", "ingest", "byID", "byHash", "save"}

-----------------------------------------------------------------------------
Normalize(raw) ==
    [source |-> raw.source, sourceJobID |-> raw.sourceJobID,
     name |-> raw.name, status |-> "NORMALIZED", duplicateOf |-> 0]

\* DEFECT: the source is no part of the key.
Fingerprint_IgnoresSource(j) == <<j.name>>

Fingerprint(j) == <<j.source, j.name>>

StableId(j) == <<j.source, j.sourceJobID>>

\* IDs of the jobs on record that the store's two lookups may return for j.
WithStableId(j) == {i \in DOMAIN jobs : StableId(jobs[i]) = StableId(j)}
WithFingerprint(j) == {i \in DOMAIN jobs : Fingerprint(jobs[i]) = Fingerprint(j)}

DuplicateOf(j, i) == [j EXCEPT !.status = "DUPLICATE", !.duplicateOf = i]

-----------------------------------------------------------------------------
Init ==
    /\ jobs = <<>>
    /\ pc = [w \in Workers |-> "idle"]
    /\ turn = [w \in Workers |-> 1]
    /\ raws = [w \in Workers |-> {}]
    /\ draft = [w \in Workers |-> ZeroJob]
    /\ failed = [w \in Workers |-> FALSE]
    /\ result = [w \in Workers |-> ZeroResult]
    /\ fetched = [w \in Workers |-> {}]

Goto(w, label) == pc' = [pc EXCEPT ![w] = label]

\* Run notes the error and goes on with the next posting.
Skip(w) ==
    /\ failed' = [failed EXCEPT ![w] = TRUE]
    /\ draft' = [draft EXCEPT ![w] = ZeroJob]
    /\ Goto(w, "ingest")
    /\ UNCHANGED result

\* DEFECT: Run does not look at the error and saves the zero Job.
LookupFails_Ignored(w) ==
    /\ draft' = [draft EXCEPT ![w] = ZeroJob]
    /\ Goto(w, "save")
    /\ UNCHANGED <<failed, result>>

\* Ingest returns the error of a lookup.
LookupFails(w) == Skip(w)

\* Ingest returns draft as a duplicate of the job with ID i.
Found(w, i) ==
    /\ draft' = [draft EXCEPT ![w] = DuplicateOf(draft[w], i)]
    /\ result' = [result EXCEPT ![w].duplicates = @ + 1]
    /\ Goto(w, "save")
    /\ UNCHANGED failed

-----------------------------------------------------------------------------
\* The trigger.
Run(w) ==
    /\ pc[w] = "idle"
    /\ Goto(w, "fetch")
    /\ UNCHANGED <<jobs, turn, raws, draft, failed, result, fetched>>

\* The postings of a source.  Any of them may be new since its last fetch.
Offers(s) == {p \in Postings : p.source = s}

\* DEFECT: a source that fails is asked again.
FetchJobs_AsksAgain(w) ==
    /\ pc[w] = "fetch"
    /\ turn[w] <= Len(Sources)
    /\ \/ /\ failed' = [failed EXCEPT ![w] = TRUE]
          /\ UNCHANGED <<pc, turn, raws, result, fetched>>
       \/ \E new \in SUBSET Offers(Sources[turn[w]]) :
              /\ Cardinality(new) <= MaxFetch
              /\ turn' = [turn EXCEPT ![w] = @ + 1]
              /\ raws' = [raws EXCEPT ![w] = new]
              /\ result' = [result EXCEPT ![w].fetched = @ + Cardinality(new)]
              /\ fetched' = [fetched EXCEPT ![w] = @ \cup new]
              /\ Goto(w, "ingest")
              /\ UNCHANGED failed
    /\ UNCHANGED <<jobs, draft>>

\* Fetch the next source; one that fails is noted and left out of this run.
FetchJobs(w) ==
    /\ pc[w] = "fetch"
    /\ turn[w] <= Len(Sources)
    /\ turn' = [turn EXCEPT ![w] = @ + 1]
    /\ \/ /\ failed' = [failed EXCEPT ![w] = TRUE]
          /\ UNCHANGED <<pc, raws, result, fetched>>
       \/ \E new \in SUBSET Offers(Sources[turn[w]]) :
              /\ Cardinality(new) <= MaxFetch
              /\ raws' = [raws EXCEPT ![w] = new]
              /\ result' = [result EXCEPT ![w].fetched = @ + Cardinality(new)]
              /\ fetched' = [fetched EXCEPT ![w] = @ \cup new]
              /\ Goto(w, "ingest")
              /\ UNCHANGED failed
    /\ UNCHANGED <<jobs, draft>>

\* Run's inner loop: Ingest normalises the next posting, and looks for its
\* stable identity if it has one; after the last posting, the next source.
Ingest(w) ==
    /\ pc[w] = "ingest"
    /\ \/ \E raw \in raws[w] :
              /\ raws' = [raws EXCEPT ![w] = @ \ {raw}]
              /\ draft' = [draft EXCEPT ![w] = Normalize(raw)]
              /\ Goto(w, IF raw.sourceJobID = None THEN "byHash" ELSE "byID")
       \/ raws[w] = {} /\ Goto(w, "fetch") /\ UNCHANGED <<raws, draft>>
    /\ UNCHANGED <<jobs, turn, failed, result, fetched>>

FindBySourceJobID(w) ==
    /\ pc[w] = "byID"
    /\ \/ \E i \in WithStableId(draft[w]) : Found(w, i)
       \/ /\ WithStableId(draft[w]) = {}
          /\ Goto(w, "byHash")
          /\ UNCHANGED <<draft, failed, result>>
       \/ LookupFails(w)
    /\ UNCHANGED <<jobs, turn, raws, fetched>>

\* DEFECT: a failed lookup is taken for "not found".
FindByNormalizedHash_IgnoresError(w) ==
    /\ pc[w] = "byHash"
    /\ \/ \E i \in WithFingerprint(draft[w]) : Found(w, i)
       \/ Goto(w, "save") /\ UNCHANGED <<draft, failed, result>>
    /\ UNCHANGED <<jobs, turn, raws, fetched>>

FindByNormalizedHash(w) ==
    /\ pc[w] = "byHash"
    /\ \/ \E i \in WithFingerprint(draft[w]) : Found(w, i)
       \/ /\ WithFingerprint(draft[w]) = {}
          /\ Goto(w, "save")
          /\ UNCHANGED <<draft, failed, result>>
       \/ LookupFails(w)
    /\ UNCHANGED <<jobs, turn, raws, fetched>>

\* DEFECT: the error of the store is dropped.
SaveJob_IgnoresError(w) ==
    /\ pc[w] = "save"
    /\ \/ Len(jobs) < Capacity /\ jobs' = Append(jobs, draft[w])
       \/ UNCHANGED jobs
    /\ result' = [result EXCEPT ![w].ingested = @ + 1]
    /\ draft' = [draft EXCEPT ![w] = ZeroJob]
    /\ Goto(w, "ingest")
    /\ UNCHANGED <<turn, raws, failed, fetched>>

SaveJob(w) ==
    /\ pc[w] = "save"
    /\ \/ /\ Len(jobs) < Capacity
          /\ jobs' = Append(jobs, draft[w])
          /\ result' = [result EXCEPT ![w].ingested = @ + 1]
          /\ draft' = [draft EXCEPT ![w] = ZeroJob]
          /\ Goto(w, "ingest")
          /\ UNCHANGED failed
       \/ Skip(w) /\ UNCHANGED jobs
    /\ UNCHANGED <<turn, raws, fetched>>

\* Run's local variables are lost.
Leave(w) ==
    /\ Goto(w, "idle")
    /\ turn' = [turn EXCEPT ![w] = 1]
    /\ raws' = [raws EXCEPT ![w] = {}]
    /\ draft' = [draft EXCEPT ![w] = ZeroJob]
    /\ failed' = [failed EXCEPT ![w] = FALSE]
    /\ result' = [result EXCEPT ![w] = ZeroResult]
    /\ fetched' = [fetched EXCEPT ![w] = {}]
    /\ UNCHANGED jobs

\* Every source was asked: Run returns its result, and an error if it failed.
Return(w) == pc[w] = "fetch" /\ turn[w] > Len(Sources) /\ Leave(w)

\* The process of the invocation ends; the store stays as it is.
Crash(w) == pc[w] # "idle" /\ Leave(w)

Step(w) == \/ FetchJobs(w) \/ Ingest(w) \/ FindBySourceJobID(w)
           \/ FindByNormalizedHash(w) \/ SaveJob(w) \/ Return(w)

Next == \E w \in Workers : Run(w) \/ Step(w) \/ Crash(w)

Spec == Init /\ [][Next]_vars

-----------------------------------------------------------------------------
\* The state has its types; Run only ever saves a Job, never the zero Job
\* that Ingest returns with an error.
TypeOK ==
    /\ jobs \in Seq(Job)
    /\ pc \in [Workers -> Labels]
    /\ turn \in [Workers -> 1..(Len(Sources) + 1)]
    /\ raws \in [Workers -> SUBSET RawJob]
    /\ draft \in [Workers -> Job \cup {ZeroJob}]
    /\ \A w \in Workers : pc[w] \in {"byID", "byHash", "save"} => draft[w] \in Job
    /\ failed \in [Workers -> BOOLEAN]
    /\ result \in [Workers -> [fetched: Nat, ingested: Nat, duplicates: Nat]]
    /\ fetched \in [Workers -> SUBSET RawJob]

\* A job is set aside only for an earlier job of the same source with its
\* stable identity or its company, title and location: dropping a posting
\* (Ingest, dedup.go) always leaves another of the same job, and chains of
\* DuplicateOfID end at a job that is no duplicate.
DuplicatesGrounded ==
    \A i \in DOMAIN jobs : jobs[i].status = "DUPLICATE" =>
        LET d == jobs[i].duplicateOf
        IN  /\ d \in 1..(i - 1)
            /\ jobs[d].source = jobs[i].source
            /\ \/ jobs[d].name = jobs[i].name
               \/ jobs[d].sourceJobID = jobs[i].sourceJobID /\ jobs[d].sourceJobID # None

Originals == {i \in DOMAIN jobs : jobs[i].status = "NORMALIZED"}

\* Overlapping runs may each miss the other's posting between lookup and save,
\* but one job never enters the store as new more often than there are
\* invocations, whatever fails or crashes: exactly once when they take turns.
OriginalsBounded ==
    \A s \in Range(Sources) :
        /\ \A n \in Names :
              Cardinality({i \in Originals : jobs[i].source = s /\ jobs[i].name = n})
                  <= Cardinality(Workers)
        /\ \A id \in Ids :
              Cardinality({i \in Originals : jobs[i].source = s /\ jobs[i].sourceJobID = id})
                  <= Cardinality(Workers)

\* A Run that has no error to report has put every posting of the sources it
\* is done with on record, and says so: a source offers a posting only once
\* (source.go), so one that is dropped without an error would be lost for good.
NothingLostSilently ==
    \A w \in Workers : pc[w] = "fetch" /\ ~failed[w] =>
        /\ result[w].ingested = result[w].fetched
        /\ \A raw \in fetched[w] : \E i \in DOMAIN jobs :
              /\ StableId(jobs[i]) = StableId(raw)
              /\ Fingerprint(jobs[i]) = Fingerprint(raw)

\* The steps that are left of a source, n postings of which still wait: four
\* for a posting, and one to leave the source.
StepsAtSource(label, n) ==
    CASE label = "fetch"  -> 0
      [] label = "ingest" -> 4 * n + 1
      [] label = "byID"   -> 4 * n + 4
      [] label = "byHash" -> 4 * n + 3
      [] label = "save"   -> 4 * n + 2

StepsOfSource == 4 * MaxFetch + 2

\* The most steps a run can still take, with the one to return.
StepsLeft(w) ==
    IF pc[w] = "idle" THEN 0
    ELSE (Len(Sources) + 1 - turn[w]) * StepsOfSource
         + StepsAtSource(pc[w], Cardinality(raws[w])) + 1

\* Every step of a run brings its end closer: a source or a posting that fails
\* is left behind and not asked for again (discovery.go:36-64), and nothing but
\* a new trigger makes a run longer.
RunsGetShorter ==
    [][\A w \in Workers :
          /\ Step(w) => StepsLeft(w)' \in 0..(StepsLeft(w) - 1)
          /\ StepsLeft(w)' > StepsLeft(w) =>
                 Run(w) /\ StepsLeft(w)' <= Len(Sources) * StepsOfSource + 1]_vars
=============================================================================
