# CareerPilot: verification project

TLA+ models of CareerPilot's core logic, the TLC configurations that check them
on small instances, and proofs, checked by TLAPS, of what holds for every value
of the constants. Paths below are relative to `src/`; the modules, runs, mutants,
source map, hazards, findings and theorems are indexed in `PROJECT.json`.

CareerPilot discovers jobs, has language models score them, prepares resumes and
answers, and drives a browser through an application form, handing over to a human
whenever it is unsure. The Go packages are components with interfaces to stores,
models and a browser. Almost nothing wires them together yet: `cmd/api/main.go`
starts an HTTP server with a health endpoint. The models therefore stop where the
code does: they take the components' operations as the code has them, and what is
behind an interface (a store, a model, a driver, a caller) is modelled from how the
code uses it, with every outcome it can have.

## 1. Inventory

### Browser runner and recovery tokens (`internal/browser`)

* State: session records and checkpoints (`Store`), hashed recovery tokens
  (`RecoveryTokenStore`), the driver's one page, and the `Session` value that the
  caller holds between calls.
* Operations: `Start` (limit check, launch, navigate, fill, checkpoint), `Resume`
  (redeem a token, look at the page, fill), `Submit` (gate, expiry, click), and
  from each of them `pauseForHuman`, `fail` and `expire`. `Redeem` looks a token
  up and revokes it.
* Interactions: about ten store, driver and notifier calls per operation, each of
  which can fail; the recovery URL travels to a human and comes back as `Resume`.
* Hard: several goroutines on one `Runner` and one page, limit checks that count
  what is only saved later, failures between "session saved" and "token saved",
  submissions with an unknown outcome, links that outlive their session.
* Correct when: the daily limit is overrun by a bounded amount only, nothing is
  submitted twice without a human, COMPLETED means confirmed, a live link leads to
  a paused session, no link reopens a finished one.

### Job evaluation (`internal/job`, `internal/scheduler/evaluation.go`, `retry.go`, `internal/modelprovider/recorder.go`)

* State: stored evaluations by job and stage; the locals of `Execute`, `Run` and
  `Process`.
* Operations: `Process` (discovery limit, triage, deep-evaluation limit, deep
  evaluation, each stage with an idempotency lookup and a save), `Run` over a
  batch, `Execute` with retries, `Recorder.Generate` around each paid model call.
* Hard: overlapping runs of the scheduler, retries that pay again, a crash or a
  failed save after a paid call, midnight during a run, limits reported as errors.
* Correct when: the deep-evaluation limit and the cost of retries are bounded, a
  deep evaluation rests on a recorded triage, a reported score is on record, every
  run ends.

### Job discovery (`internal/scheduler/discovery.go`, `internal/job/dedup.go`, `normalize.go`, `source.go`, `job.go`)

* State: the job store; the locals of `Run`.
* Operations: `DiscoveryTask.Run` fetches every source, normalises each posting,
  looks for an earlier one by stable identity and by fingerprint (`Ingest`,
  `Deduplicate`), and saves it, as a DUPLICATE if one was found.
* Interactions: feeds the job store that job evaluation lists from.
* Hard: overlapping runs between lookup and save; fetches, lookups and saves that
  fail in the middle of a batch although a source offers a posting only once; two
  notions of identity that can disagree.
* Correct when: a duplicate has an earlier job to be a duplicate of, a job is stored
  as new once, a posting that could not be ingested is reported.

### Applications and resume versions (`internal/application`, `internal/resume`)

* State: application records (`Store`), resume versions and their statuses.
* Operations: `CheckDuplicate`, `FromJob`, `Qualify`, `StartPreparing`,
  `AttachResume`, `Classify`, review queue, `EvaluateSafetyGate`, `Ready`,
  `Transition`; `Generate`, `Approve`, `Reject` of a resume version.
* Interactions: the score of a job qualifies an application; the gate looks at the
  resume version, the answers, the duplicate check and the day's submissions; the
  browser's outcomes become statuses.
* Hard: these are pure functions on copies, so two requests that load and save the
  same application overtake each other; what the gate looked at can change before
  the result is saved; the application and browser state machines must agree.
* Correct when: behind the gate every application has an approved resume, no open
  review and human answers where they are required; one application per job; the
  daily limit holds; every outcome has a place in the state machine.

### Notifications (`internal/notification`)

* State: the notification store; nothing else survives a call.
* Operations: `NotifyHumanRequired` and `NotifyReviewRequired`, both `notify`: save
  the notification, then send it.
* Interactions: `Service` is the `Notifier` of the browser runner; its error goes
  back to the caller of the runner beside the outcome `human_required`.
* Hard: a save that fails after it was made, a send that fails after it arrived, the
  end of the process between the two; nothing tries again.
* Correct when: nobody has a link that is not on record, and a handoff without an
  error did reach the user.

### Outcomes and analytics (`internal/outcome`)

* State: one `Record` for each application, with the history of its funnel stages,
  and the copies of it that requests hold. `Stages` is a slice: the copies share
  memory.
* Operations: `AppendStage` on a copy, between a load and a save; aggregates over
  all records (funnel, rates, by version, source and role, score calibration) and
  the recommendation which resume versions to review.
* Hard: overlapping appends to one record; copies that alias; groups, buckets and
  rates at their edges (no submissions, scores outside 0-100).
* Correct when: no history is rewritten, the final outcome is what the history
  tells, groups and buckets lose and double no record, a version is flagged only
  when the others do better.

### Other components

| Component | Files | State / operations | Status |
|---|---|---|---|
| Resume proposals | `internal/scheduler/resume_proposal.go` | none; one pass over detected changes, one save | not modelled |
| Scheduler reports and health | `internal/scheduler/scheduler.go`, `audit_report.go`, `health.go` | read only | not modelled |
| LaTeX | `internal/resume/latex` | none; renders text, calls an external compiler | its result is an input of `Generate` |
| Drivers, model providers | `internal/browser/fake_driver.go`, `playwright_driver.go`, `internal/modelprovider/claude.go`, `gemini.go` | adapters of external services | their outcomes are inputs |
| Candidate profile | `internal/candidate` | data with field validation | "claim allowed" is an input of `Classify` |
| Process, HTTP, config, logging, Postgres, application audit | `cmd/api`, `internal/app`, `internal/httpserver`, ... | start-up and shutdown; no core logic wired in | not modelled |

## 2. Modules

| Module | What it is |
|---|---|
| `BrowserRunner` | `Start`, `Resume`, `Submit`, `Redeem`, one step per store, driver or notifier call |
| `MCBrowserRunner` | its instances: two calendars (every tick a midnight; one day) and symmetry |
| `BrowserRunnerProofs` | its safety theorems, the refinement of `DailyBudget` and the length of its calls, for any number of goroutines |
| `SingleCallerProofs` | four more, for callers that take turns |
| `HumanHandoff` | the runner composed with the notification service as its notifier; `RunnerSpec`, the refinement of `BrowserRunner` |
| `MCHumanHandoff`, `HumanHandoffProofs` | its instance; the refinement, what follows from it, and what the service adds |
| `DailyBudget` | abstract specification: a limit checked against a count that grows only later |
| `DailyBudgetProofs` | the bound on its overrun |
| `JobEvaluation` | `Execute` / `Run` / `Process`, one step per store access and model call |
| `MCJobEvaluation`, `JobEvaluationProofs` | its instances; its proofs, with the refinement of `DailyBudget` |
| `JobDiscovery` | `DiscoveryTask.Run`, `Ingest`, `Deduplicate`, one step per fetch, lookup and save |
| `MCJobDiscovery`, `JobDiscoveryProofs` | its instances; its proofs |
| `ApplicationFlow` | applications and resume versions, as handlers that load, apply one operation and save |
| `MCApplicationFlow`, `ApplicationFlowProofs` | its instances; its proofs, with the bound of applications per job and the refinement of `DailyBudget` for one handler |
| `OutcomeAnalytics` | the aggregates and the recommendation, as operators without state |
| `Outcomes` | records, their histories and the memory these share, as handlers that load, append and save |
| `MCOutcomes`, `OutcomesProofs` | its instances; its proofs |

### How the models correspond to the code

*BrowserRunner.* `pc[w]` is the call that goroutine `w` is about to make, or, once
the call has returned, its outcome; `sess[w]` is the `Session` value it holds. Code between two calls belongs
to the step before. `sessions`, `checkpoints` and `tokens` are the stores, `page`
the session the driver's only page was opened for. `Crash` ends the process: the
stores and delivered links stay. `clicked` and `redeemed` are history variables.
Hashing and randomness of tokens are distinct model values. A caller submits a
`ready_for_review` result at most once (`SubmitGate`); what an earlier call left with
it is dropped by an error and by its next call. `Submit` itself takes any `Session`
and would save it again (`runner.go:303-309`): a caller that does that is not modelled.

*JobEvaluation.* A worker is one trigger of the scheduler. `evals` is the
evaluation store, `deepToday` what `CountDeepEvaluationsSince(midnight)` returns,
and `older[w]` what it returns in addition to a `Process` that began before
midnight and kept its `startOfDay`. A `Score` is its recommendation and stage;
recommendation strings are the four classes `normalizeRecommendation` tells apart.
The discovery count may be anything, because the code that would maintain it
(`DiscoveredAt`) is missing. The same job may be listed again, because no code
moves a job on after it was evaluated. `paid` and `saved`, everything that was ever
put on record, are history; a later save may replace what the store returns.

*JobDiscovery.* `jobs` is the job store in the order of its saves, and a job's ID is
its place there; a lookup may return any job that matches. `draft[w]` is the `Job`
that `Ingest` returns, or the zero `Job` that comes with an error, `failed[w]` says
whether there is a `firstErr`. A name stands for a company, title and location up to
letter case and white space, the part of them that the fingerprint depends on.
`Postings` is what the sources can offer; a fetch returns any few of its source's
postings, so both a source that keeps its promise to return new ones only and
`MockSource`, which repeats itself, are covered. A store of `Capacity` jobs fails
every further save, as a save may fail anyway. `fetched` is history.

*ApplicationFlow.* `src` has no caller of these packages. A handler is the one the
`Store` interface leads to: `GetApplication`, one operation of the package,
`SaveApplication`; it may overlap with others, fail, or end at any point. IDs are
fresh. `VerifyResume` and the count of submissions are the lookups that fill
`SafetyGateInput`; job verification and platform policy are arbitrary inputs. The
duplicate check is made when the application is created, and kept, as
`DuplicateOfID` is. A version is decided on by its one user, so `Approve` and
`Reject` load and save in one step. Answers are written while the application is
PREPARING or in REVIEW, either as `Classify` decides or by a human who settles an
item of the review queue; `resolved` remembers the latter. `Reports` lists, for
each status, the statuses that the next progress or outcome of `Start`, `Resume` and
`Submit` stands for: a session may be `expired` before it navigates, when it is resumed
and before the click, a resumed one may need a human again, and a click never ends as
`failed`. `lost` is the history of the ones `Transition` refused.

*HumanHandoff.* The runner's single step `Notify` becomes two, `SaveNotification`
and `Send`, with `notices` the notification store (by the token in the notification's
`ActionURL`) and `notifyErr` the calls that returned `human_required` with an error.
`runnerPc` hides the place between the two steps; under it every step of the
composition is a step of `BrowserRunner` or none. A runner built without a
`Notifier` skips the call, which the composition does not model. The message may
arrive although `Send` reports an error, and a save may be made although it does.

*Outcomes.* `stored` is the record store and `draft[h]` the copy that a handler
works on. A history has the identity of the array behind its slice and the size of
that array: `AppendToCopy` is what Go's `append` does when the array is full (a new
one, twice as large), `AppendInPlace` when it has room, and then every copy that
shares the array and is longer sees the write. `SharesMemory` chooses between a store
that keeps the values it is given (a map in memory) and one that writes them
out. `events` is history: the stages as they were appended. `Archive` gives closed
applications a record from the start.

*OutcomeAnalytics.* A result that the code returns as a slice sorted by its key is a
function of the key. A rate is its two counts, and rates are compared by cross
multiplication, where the code compares quotients with 0 for no submissions.

*DailyBudget.* `BrowserRunner` maps `used` to the number of stored sessions started
since midnight and `admitted` to the workers whose `Start` passed the check and
has not saved its session yet. `JobEvaluation` maps `used` to `deepToday` and `admitted` to the
workers between the check and the save. `ApplicationFlow` maps `used` to the
applications submitted today and `admitted` to those past the gate and not yet
submitted. `Crash` is there for the runner, whose process ends for all its goroutines
at once; a run of the scheduler ends alone, which is `Abandon`.

## 3. What the runs show

| Run | Instance | Shows |
|---|---|---|
| `runner_concurrent` | 2 goroutines, 3 sessions, 1 token, limit 1, midnight at every tick | `TypeOK`; `DailyOverrunBounded`: a day exceeds its limit by less than the number of goroutines; `BudgetSpec`: the limit implements `DailyBudget`; `RedemptionsBounded`: a link is redeemed at most once per goroutine; `CompletedIsConfirmed`; `CheckpointRecorded`; `CallsGetShorter`: each step brings its call closer to its return |
| `handoff_sequential` | 1 caller, 2 sessions, 2 tokens, limit 2, one day, fair | `NoAutomaticRetry`, `LiveLinkIsPaused`, `TerminalIsFinal`, `CallReturns`; `DeliveredIsRecorded` and `CleanHandoffIsSent` about the service; `RunnerSpec`: the composition implements `BrowserRunner` |
| `token_single_use` | 2 goroutines | violated: two overlapping redemptions of one token both succeed |
| `human_required_resumable` | 1 goroutine | violated: the save of a paused session is written and reports an error (`runner.go:219-222`); the call ends before there is a token, and the session stays HUMAN_REQUIRED with no link to it |
| `own_page` | 1 goroutine, 2 sessions | violated: a resumed session is filled on another session's page |
| `evaluation_runs` | 2 overlapping runs, 1 job, 1 retry, limit 1, fair | `TypeOK`; `BudgetSpec`: the limit implements `DailyBudget`; `PaidCallsBounded`: retries multiply the cost by at most `MaxRetries + 1`; `DeepFollowsTriage`; `ReportedIsStored`; `RunEnds`; `RunsGetShorter` |
| `discovery_runs` | 2 overlapping runs, 2 sources, 3 postings, 3 places in the store | `TypeOK`; `DuplicatesGrounded`; `OriginalsBounded`: a job is new at most once per overlapping run; `NothingLostSilently`; `RunsGetShorter`: what fails is left behind, and only a trigger makes a run longer |
| `application_concurrent` | 2 handlers, 1 application, 2 versions | `TypeOK`; `ClearedIsSafe`: whatever stale copies are saved, nothing unsafe is behind the gate |
| `application_sequential` | 1 handler, 2 applications, 2 jobs, limit 1 | `OneClearedPerJob`; `BudgetSpec`: nobody passes the gate at or above the limit, no submission counts twice |
| `outcome_recorded` | 1 handler | violated: a session that expires before it navigates (`runner.go:134-136`) is reported `expired`, and `Transition` refuses to move its application from NAVIGATING to EXPIRED (`state.go:16`) |
| `outcome_records` | 2 handlers, 2 open applications and 1 closed, 2 arrays, histories of at most 2 stages, a store that writes out | `TypeOK`; `FinalOutcomeDerived`; `GroupsAddUp`: groups and buckets add up to the whole; `FlaggedIsOutperformed` |
| `history_rewritten` | 2 handlers, 1 application, 3 arrays, histories of at most 4 stages, a store that shares memory | violated: a stage appended to one copy overwrites a stage that another copy saved |

The violated properties are sentences of the code's own comments and documents;
`findings` in `PROJECT.json` quotes them with their lines.

**Bounds.** The interesting cases need two actors of a kind: two goroutines that
pass the limit check together, redeem one token together, or hold copies of one
application. The bounds leave room for one session beyond the two that a limit of
one and two goroutines allow; two resume versions, so that an application can be attached again. In
`runner_concurrent` sessions and links expire at the next tick, in
`handoff_sequential` one tick later, so both a live and an expired link occur. With
one retry there is a first, a repeated and a dead-lettered attempt. In
`evaluation_runs` the two runs share the one job, which gives them every way to
disagree about it; a second deep evaluation of the day is the other run's, or its own
after a retry or a new day. In `discovery_runs` one source renames a job that has a
stable identity and another offers the same name without one, so the two lookups
disagree within a source and must not meet across sources; three places leave room
for one original more than two runs may save. In `outcome_records` the two open
applications share a version and differ in source and score, the closed one has a
version, role and score of its own, and the scores lie at the edge of a bucket, above
100 and below 0; `MaxStages`, the bound of a history, is 2, which suffices for a stage
after the final one, and the closed application, answered or not, gives the rates
something to differ by. `history_rewritten` needs 4: only an array of four leaves
room behind a saved history of three. `paid`, `deepToday` and `older` need no bound: attempts and saves bound the
first, and the day's budget and midnight the others. No state constraint is used.
Deadlock is checked in every run: a caller can always make another call.

**Sequential and concurrent.** `LiveLinkIsPaused`, `TerminalIsFinal`,
`NoAutomaticRetry`, `OneClearedPerJob` and the application's `BudgetSpec` are checked, and
proved, for one actor at a time. With two they
do not hold, because the stores have no conditional update: a stale save can
restore a session, two requests can each create
the application of a job. No sentence of the repository promises more, so these are
recorded as hazards and as the condition of the runs, not as findings. What holds
under concurrency is checked, and mostly proved, under concurrency.

**What the properties do not exclude.** `NoAutomaticRetry`, `LiveLinkIsPaused` and
`TerminalIsFinal` are about links and about calls that fail or are cut short, not about
a caller that hands the same `Session` to `Submit` twice, which would click again and
write over a finished session. `PaidCallsBounded` bounds what overlapping evaluations
pay together; that both pay for one job, and that the later verdict replaces the
earlier, is what the code does. `BudgetSpec` of the application flow has the
applications as its workers: every READY one may still be submitted over the limit.
`FinalOutcomeDerived` is checked and proved for a store that writes records out, where
one handler cannot reach into another's record; with a store that shares memory it
fails like `HistoryNotRewritten`, because an append to a copy rewrites the stored
history and not its `FinalOutcome` (`outcome/outcome.go:90`). Lost updates of
overlapping appends are explored and excluded by nothing.

**Divergences that need no run**, because one line against another shows them; the
models do what the code does.

* `scheduler/evaluation.go:34-37` says that `Run` stops without an error when the
  daily limit is reached. It returns the error of `Process` like any other, so
  `Execute` retries it and records a DEAD_LETTER (`CheckDiscovery`, `Fail`).
* `job/pipeline.go:29-31` says that a job already evaluated at a stage has its
  existing score returned. When the day's deep-evaluation budget is used up,
  `pipeline.go:100` returns the triage score before it looks for the deep one, so a
  deep REJECT on record is reported as a triage APPLY (`CheckBudget`).
* `job/job.go:38` and `job/dedup.go:7-8` reserve the fingerprint for jobs without a
  stable identity. `dedup.go:23` uses it for every job whose stable identity was not
  found, so two openings of one title with different identities are merged; therefore
  `DuplicatesGrounded` accepts either ground.
* `outcome/analytics.go:5-7` calls the funnel cumulative by stage. `Funnel` counts the
  stages that were recorded, so a record with a response and no submission counts for
  one and not for the other; `FlaggedIsOutperformed` has the condition
  `ResponsesFollowSubmissions` for that reason, and it does not hold without.
* `outcome/recommendation.go:20-23` speaks of a response rate "meaningfully below" the
  average. `recommendation.go:33` compares with `<`, so a version that is below it by
  however little is flagged once it has `minSubmissions`; and that average includes the
  version itself. `FlaggedIsOutperformed` says what the strict comparison gives.
* `browser/playwright_driver.go:82-107` never reports `submitted`: with that driver
  every click ends as `human_required`. The model allows every state of the `Driver`
  interface.

**Fairness.** `FairHandoffSpec` and the `FairSpec` of `JobEvaluation` are weak fairness
of the steps of a call that is under way: the Go scheduler runs a runnable
goroutine, and every store, driver and model call returns, with a result or an
error (each gets a context or is a local call). New calls, crashes, time and
midnight are not fair. `CallReturns` and `RunEnds` then say that no path of handoff,
failure or retry repeats itself forever. `CallsGetShorter` and the `RunsGetShorter` of
`JobEvaluation` and `JobDiscovery` need no fairness: they say it of each step, by a
measure of the steps that are left.

**Mutants.** For each checked property `PROJECT.json` names a plausible bug
(operators marked `DEFECT` in the modules) under which TLC finds it violated.

## 4. What is proved

Each proof is by an inductive invariant `IInv` that TLC's invariants follow from.

* `BrowserRunnerProofs`: `TypeCorrect`, `DailyOverrun`, `CompletedConfirmed`,
  `CheckpointsRecorded`. `TypeOK` alone is not inductive. `Basic` adds which locals
  are set at which `pc` and that records are stored under their own IDs. The truth
  of COMPLETED has to be carried by the copies the goroutines hold. The overrun
  counts, for each day, the stored sessions together with the Starts that passed
  the check and have not saved.

  `ImplementsBudget`: every step of the runner is a step or a stutter of
  `DailyBudget`. A session counts on the day of its `StartedAt`, which is when its
  Start passed the check: saved the same day it is a `Commit`, saved after midnight an
  `Abandon`. This is where `StartOfDayAssumption` is needed, by which all
  times between a midnight and `t` lie on the day of `t`. `DailyOverrun` stays a
  theorem of its own, because it bounds every day and not only today.

  `RedemptionBound` is not inductive by itself. `RedeemOK` adds the calls between the
  lookup and the revocation: the redemptions of a link and the calls that are about to
  redeem it are together at most as many as there are goroutines, and a link that was
  not revoked was not redeemed, so that nobody joins once one has.
* `SingleCallerProofs`, under `OneCaller`, that there is one goroutine:
  `NothingRetried`, `LiveLinksArePaused`, `TerminalStays`, `SingleUse`, for any number
  of sessions, tokens, calls, failures and crashes. The invariant is `Turns`: `StoresCalm` says
  that a live token belongs to a session that is paused and was not clicked without a
  redemption since, `Calm(w)` what the one caller has cleared the way of at each `pc`,
  above all that no token works while a session is in its hands. Both are false
  for two callers. `SingleUse` is `RedemptionBound` for one goroutine: the violation
  that `token_single_use` shows needs two.
* `HumanHandoffProofs`: `HandoffImplementsRunner`, `HandoffSpec => RunnerSpec` for any
  number of callers; hence `NothingRetried`, `LiveLinksArePaused` and `TerminalStays` hold of the composition
  (`HandoffNothingRetried`, `HandoffLinksArePaused`, `HandoffTerminalStays`).
  `DeliveredRecorded` and `CleanHandoffSent` are proved of the service's two steps, for
  any number of callers: `Handed` says that what is about to be sent is on record and
  leads to the session of its call.
* `DailyBudgetProofs`: `BudgetOverrun`. `used + Cardinality(admitted)` stays within
  `Limit + Cardinality(Workers) - 1`, and nobody is admitted under a limit of 0,
  which makes midnight harmless.
* `JobEvaluationProofs`: `TypeCorrect`; `PaidBounded`, where a worker that has not
  yet made its call for the current job in this attempt must be strictly below the
  bound; `ImplementsBudget`, every step of the detailed model is a step or a
  stutter of `DailyBudget`; and `DeepOverrun`, which follows from the refinement
  and `BudgetOverrun`, so that the run need check the refinement only; `DeepFollows` and `ReportedStored`, whose invariant `RecordInv`
  says that what the store returns was saved, and that a worker at or past the budget
  check has its triage on record.
* `JobDiscoveryProofs`: `TypeCorrect`; `DuplicatesHaveGround`, where a draft that is
  a duplicate already points to a job on record; `OriginalsPerWorker`, where a worker
  whose lookup found nothing counts as an original already: the lookup admits it only
  while there is none; `NothingLost`, where every fetched posting is waiting, in hand
  or on record, and the counters add up to that.
* `ApplicationFlowProofs`: `TypeCorrect` and `ClearedSafe`. `ClearedIsSafe` is not
  inductive, since a handler's copy may be saved at any later time. `IInv` demands
  the same of every copy, and of *every* application, whatever its status, that
  answers reserved to a human came from a human. This is stable because approved
  versions stay approved and `resolved` only grows.

  `PerJobBound` says what is left of "one application per job" when any number of
  handlers overlap: at most as many of them are behind the gate as there are handlers.
  Its invariant `FirstInv` says that a copy keeps the job and the duplicate of the
  record it was made from, and (`FewFirsts`) that the stored applications of a job that
  duplicate none, together with the handlers that found none and have not saved, are
  at most as many as there are handlers; once one is saved, no handler joins them.

  For handlers that take turns (`OneHandler`), `OnePerJob` is `PerJobBound` for one
  handler. `ImplementsBudget` shows that then, and for
  a positive limit (0 means no limit in this package), every step is a step or a
  stutter of `DailyBudget`; `BudgetInv` says that a handler saves only what moved from
  the record as it is stored, so that nothing SUBMITTED is saved again.
* `OutcomesProofs`: `TypeCorrect`, for both kinds of store; `FinalOutcomeFollows` and
  `HistoryKept`, for a store that writes out: no two records refer to one array,
  so an append in place touches only the draft it is made on. That assumption is what
  `history_rewritten` drops. `FlaggedVersionsAreOutperformed` is arithmetic over finite
  sets: a version below the average of all is below the average of the others, for any
  number of records. `ScoresHaveTheirBucket` covers every integer score, and
  `ReportsAddUp` every set of records, versions, sources and roles. Its `Total` folds
  over the groups of a report; that the fold is the count of the records in the groups
  is an induction over the subsets of a finite set, which `SubsetInduction` puts as a
  statement about a set of subsets instead of a predicate. `GroupsAddUp` is about the
  reports as functions of what is on record, and holds of whatever is.
* The length of calls and runs, without fairness: `CallsShorten` in
  `BrowserRunnerProofs`, `RunsShorten` in `JobEvaluationProofs` and
  `JobDiscoveryProofs`. A measure bounds the steps that are left: for the runner a
  number for each `pc`, ten for a whole call; for a run what is left of the stage, the
  batch and the attempts, or of the posting, the fetch and the sources. Every step of a
  call or run lowers it, nothing but a new call or trigger raises it, and a trigger to
  at most `(MaxRetries + 1) * StepsOfAttempt`, or `Len(Sources) * StepsOfSource + 1`. The
  proofs need that a batch and a fetch are finite and within their bounds, and, for
  discovery, that `turn` is back at the first source between runs (`TurnsBack`).

The theorems of `SingleCallerProofs`, and the three that `HumanHandoffProofs` takes from
them, are about callers that submit a result once, as every behaviour of the model is.

Assumptions: those named `...Assumption` in the modules (finite sets of actors,
limits in `Nat`, `None` outside the records, midnight the first moment of its day), which
TLC evaluates on every run, and those a theorem states (`OneCaller`, `OneHandler`,
`~SharesMemory`, a positive limit).

Only model-checked: the liveness properties `CallReturns` and `RunEnds`, which lie
outside what the prover's backends support (their safety half, that no call or run
can go on for more than a bounded number of steps of its own, is proved), and the
violated ones. Every invariant and every action property that a passing run checks is
stated by a theorem.

## 5. Not modelled, and why

* Resume proposals, scheduler reports, health checks and the application audit read,
  aggregate and at most save one record whose error they return. They share no state
  with another call, and nothing in `src` reads back what they save, so no order of
  events can make them go wrong.
* The model call recorder is partly modelled: that a call is paid whether or not its
  `Run` is saved, and not the contents of the audit record.
* The Playwright driver, the LaTeX compiler, the model providers and the Postgres
  wrapper are adapters of programs outside the repository: their outcomes are inputs.
* Process start-up, HTTP, configuration and logging have none of the core logic wired
  in. The candidate profile is data with field validation.
* Texts, prompts, skill lists and reasons, which no property distinguishes; the
  contents of PDFs and forms.
* Inputs the types allow but no code supplies (an empty `Platform`, an unclassified
  answer), and `NotifyReviewRequired`, which no code calls, are left out or listed as
  hazards with notes.

## 6. Plan

Done: browser runner, alone and with the notification service; daily budget; job
evaluation; job discovery; application flow; outcomes and analytics, each with its
checks and proofs. Further work:

1. Composition of `ApplicationFlow` and `BrowserRunner` on one application, so that
   `Reports` is derived instead of stated.
2. Callers that keep a `Session` and submit it again. With two goroutines this makes
   the states of `runner_concurrent` too many for one run; it needs an instance of its
   own, and the condition "submits once" in the theorems for one caller.
3. The composition of the budgets: what a day's overlapping discovery, evaluation and
   application runs cost together.
