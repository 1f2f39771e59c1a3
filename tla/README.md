# TLA+ models and proofs of the trading pipeline

The repository turns chart alerts on XAUUSD into reviewed analyses and shadow
outputs. Its current half, *Project A*, is a chain of SQLite-backed components
that run in separate processes; its older half is a listener, a per-minute cycle
and a set of pure gates. Nothing here places an order: what can go wrong is that
an event is dropped or counted twice, that a Grade is computed from the wrong
evidence or overwritten, that a story Jones closed comes back, or that a message
is sent twice. This directory models those state machines, checks them with TLC
on small instances, and proves their safety with TLAPS for every instance. The models follow an alert from the raw
producer body to the pushed message: `RawIngress` (numeric state, make-sense,
evidence request), `EventIngest`, `AnalysisJobs`, `CaptureService` and
`CaptureDispatch`, `ReviewAudit`, `RendererOutbox`.

* [1. The system](#1-the-system)
* [2. Modules](#2-modules)
* [3. Runs, bounds and what they show](#3-runs-bounds-and-what-they-show)
* [4. Fairness](#4-fairness)
* [5. Proofs](#5-proofs)
* [6. Where the code and its documents disagree](#6-where-the-code-and-its-documents-disagree)
* [7. What is not modelled](#7-what-is-not-modelled)
* [8. Plan](#8-plan)

## 1. The system

| Component | State it keeps | Operations | Correct when |
|---|---|---|---|
| Raw producer adapter, `ingest/project_a/raw_producer_adapter.py`, `project_a/section2_pipeline.py` | raw receipts, research events, dedupe rows | receive a producer alert, deduplicate, wake research | one wake per evidence; a LIQ or E1 event reaches the analysis queue in the same transaction |
| Event V1 ingest, `ingest/project_a/event_v1_runtime.py`, `service.py` | raw receipts, receipt transactions, exact and semantic dedupe, setup states, outbox | receive, commit, confirm, mark unknown, recover; claim, deliver, fail, retry; replay | evidence takes effect once; only confirmed units are dispatched; ended setups stay ended |
| Event V0.2 ingest, `service.py:_commit_validated` | canonical events, one setup row, same outbox | receive | the same, in one transaction |
| Analysis queue, `project_a_analysis` | stories, jobs, status history with leases, captures, provider attempts, results, story history | enqueue, claim/record/fail a capture, claim/begin/complete/fail an analysis, close a story | one capture and one provider identity per job; a story grows in order; Jones's decision is final |
| Capture service, `project_a_capture_service` | capture requests, results, chained audit, rate window | one MCP tool call | a request is immutable; a result is recorded once |
| Capture bundles, `capture/project_a` | artifact directories, manifests | capture, compile, publish, consume | a published bundle is complete and fresh |
| AI review, `project_a_ai_review` | lock file, attempt chain, completed verdict | review | one review in flight; a verdict is served only if it is the last record of the chain |
| Output, `output/project_a` | theses, renderer deliveries, attempts, renderer state, outcomes | compile, claim, render (Telegram, Notion, TradingView, MT5 demo), finish, recover, reset, reconcile | at-least-once without a second effect; an uncertain attempt is never retried blindly |
| Numeric state, make-sense, gates, `analyze`, contracts | none, or a window in memory | pure functions | they compute their tables |
| Legacy listener, wake queue, thesis log, invalidation watch | JSONL file, SQLite rows, in-memory set | alert, wake, consume, append version, poll | no wake is lost; one row per version |
| Scheduler, storage, precheck, publish | one row per cycle | one cycle per minute | sequential |

They meet in four places. (1) Ingest and producers run in the HTTP service, which
handles one request at a time in its process; committed replays and the admin
commands run in processes of their own on the same file. (2) An accepted LIQ or
E1 event enqueues an analysis job inside the ingest transaction. (3) Outbox rows
are claimed by consumers outside the repository. (4) A validated verdict is
compiled to a thesis, whose deliveries any number of dispatchers render.

What is hard everywhere is the same: SQLite makes each method one atomic
transaction (`BEGIN IMMEDIATE`), but every workflow is several transactions with
a slow, fallible external call between them. A lease, a claim token or a status
guards each later transaction against whatever happened in between, and it is
those guards, the retry counters beside them, and the recovery commands that
overwrite them that the models are about.

## 2. Modules

| Module | Extends | Checked by | Proved in |
|---|---|---|---|
| `AnalysisJobs` | | `MCAnalysisJobs` | `AnalysisJobsProofs` |
| `EventIngest` | `SetupLifecycle` | `MCEventIngest` | `EventIngestProofs` |
| `RendererOutbox` | | `MCRendererOutbox` | `RendererOutboxProofs` |
| `ReviewAudit` | `ReviewGates`, `Checks` | `MCReviewAudit` | `ReviewAuditProofs` |
| `CaptureService` | `CaptureReads`, `Checks` | `MCCapture` | `CaptureServiceProofs` |
| `CaptureDispatch` | `ChartChecks`, `Checks` | `MCCapture` | `CaptureDispatchProofs` |
| `RawIngress` | `EvidenceBundle`, `NumericState`, `ProducerEvents`, `MakeSense`, `Checks` | `MCRawIngress` | `RawIngressProofs` |
| `Checks` | | by all that extend it | `ChecksProofs` |
| `WriteOnce` | | refined by `ReviewAudit`, `CaptureService`, `CaptureDispatch` | |

Every action is one transaction of the code, one file operation or one external
call; a process may stop between any two of them. Most of the code's validators
are long lists of checks that raise at the first one that fails. `Checks` gives
them one form: a sequence of pairs `<<failed, code>>` in the order of the code,
whose verdict is the code of the first failure. What a check reads from hashes,
JSON schemas or parsed text is one Boolean of the input. `MCCapture` extends both
capture modules, so the definitions of `CaptureDispatch` that `CaptureService` has
too carry its name (`DispatchInit`, `DispatchNext`, `DispatchSpec`).

`WriteOnce` is the abstract specification that three components promise to their
callers: for each key one value is written, it never changes, and whoever is
answered is answered with it.

### AnalysisJobs: `project_a_analysis/store.py`, `worker.py`

| Variable | Code |
|---|---|
| `srcTime`, `queue` | stories and jobs, in the order of `requested_at, job_id` |
| `status`, `owner`, `timer` | latest row of `project_a_analysis_job_status_history`: status, `worker_id` with its `capture:` prefix, `lease_expires_at` |
| `fails` | the `PENDING_CAPTURE` rows with a failure code that `capture_failure` counts |
| `captured`, `attempts`, `results`, `hist` | captures, provider attempts, results, story history |
| `wk` | where `AnalysisWorker.tick` is in each worker process |
| `sent` | history variable: the provider calls made |

One tick is `RequeueExpired`/`ClaimCapture`/`NothingToCapture`, then the capture
answer (`RecordCapture`, `CaptureFailure`, `CaptureLeaseLost`), then `ClaimNext`,
`LoadBundle`, `BeginProviderAttempt`, `Invoke`, `Answer`, `Complete` or
`TechnicalFailure`. Abstractions, each stated because a property could depend on it:

* A lease token is the identity of its worker: a worker process is single
  threaded and has one job in hand, and its id is unique.
* `timer` is the relation of the lease or retry time to now. `edge` is "equal to
  now", the instant where `lease_expires_at<=now` (requeue) and
  `lease_expires_at>=now` (record) both hold.
* The clock read of a method and its transaction are one step.
* In-invoke provider retries stay inside `Invoke`: they repeat the same request.
* The worker's provider runs only for `--once` with an approved job, so
  `ClaimNext` may take any eligible job. An exception that `tick` does not catch
  ends the process (`IdentityConflict`, `Crash`).
* E1 events are identified by their bar time, one per bar (bound). The schema has
  no `UNIQUE(story_id, e1_count)`: that the deltas of a story are numbered without
  gaps and once each is left to the count that the enqueue reads, and is part of
  `TypeOK`. Its mutant numbers a delta from the Story State, which is behind the
  queue while jobs are pending.
* Closing decisions are the two the code allows. Heartbeats, the audit chain and
  the fields of a Grade are left out; they decide only which of the success and
  failure actions is taken.

### EventIngest: `ingest/project_a/event_v1_runtime.py`, `service.py`, `replay.py`

`receipts[i]` is a raw receipt with its receipt transaction (`status`, and
`outcome` = `processing_status`). `exact[e]` and `semantic[e]` name the receipt
that owns the unique row of event `e`; rows are never deleted. `states` are the
rows of `project_a_setup_state_v1`, `outbox` the rows by dispatch key, `rc` the
step of each receiver, `hand` the claim of each consumer.

* `CommitUnit` is the whole unit from `reserve_exact` to `commit`: it runs in one
  `BEGIN IMMEDIATE`, which holds SQLite's only write lock. `UnitFails` is its
  rollback. `Confirm` (`confirm_point_of_use`) is another transaction, and what
  comes between them (recovery, another receiver) is the heart of the model.
* Point-of-use authorisation recomputes the document from the same bytes and
  fails only when the database does: `ConfirmFails`.
* Each status write by `_set_claim_status` may be lost (`MarkedOrNot`), since the
  code swallows `sqlite3.Error`.
* `commit` and the marks update by transaction id alone, so that a receiver that
  recovery abandoned may go on and overwrite `ABANDONED`; the model lets it.
* The event type fixes its class (`_CLASS_TYPES`). In V1 only `LIFECYCLE` events
  persist a state (`state_mutation_allowed`), so candidate and ready states are
  never current and `ENTRY_WINDOW_*` is always refused; `SetupLifecycle` keeps
  the whole transition table because the V0.2 path uses it too.
* The receipt clock is the order of arrival; a replay runs at the original time
  of the receipt it repeats. A recovery takes any cutoff, since time may pass at
  any point, and a `FAILED` outbox row may or may not be due yet.
* Processing rows and dead letters are append-only and never read by V1.

### RendererOutbox: `output/project_a/store.py`, `renderers.py`, `dispatcher.py`, `compiler.py`

The model has a Telegram or MT5 message (`Messages`: look up, then send, the
answer may be lost), a Notion page (`Pages`: upsert, a copy of the delivery
statuses, and the later status copy of `_sync_notion_statuses`) and a TradingView
drawing (`Drawings`: several objects, verification, a committed bundle, clean-up
on failure). The transports are external and behave as `fakes.py` does; an
`UNCERTAIN` answer may or may not have had its effect. The claim token is the
attempt number, which `claim` increments with it; `timer` is `none`, `running` or
`due`. The page and what a dispatcher has read keep only completed deliveries,
which is all the property about them compares.

### ReviewAudit, ReviewGates: `project_a_ai_review/service.py`, `audit.py`, `gates.py`, `clients.py`

A review of one request runs in a process or a thread of its own and shares the
request's directory with others. `lock` is `.lock` (free, its holder, or stale:
left by a dead process), `metadata` is `request.json`, `chain` holds the records
of `attempts.jsonl`, `completed` is `completed.json`; a JSON file may be `Torn`,
and `tail` says whether `attempts.jsonl` is readable or a line of it was cut short,
at its end (`partial`) or with the next line glued to it. `rv[r]`
is how far review `r` has got, from the lock (or its timeout) through the pinned
fingerprint, the gates, the cached verdict and the call of the model to the
attempt record, the completed file and the release.

* Appending an attempt is two steps, `ReadLast` (which takes the previous record
  for the hash link) and `AppendAttempt`, because a review that timed out waiting
  for the lock appends without it. A line that a crash or a failed write cut
  short is no JSON (that it lacks only its newline is left out): from then on
  `HistoryUnreadable` ends every review that has something to record.
* An attempt is identified by the number of its review, and the hash of a record
  by that number.
* `ReviewGates` holds the gates before the call (`Preflight`) and on the verdict
  (`PostValidate`), and what the end of the model's process means (`Invocation`),
  in the code's order.
* The stale lock file is removed by an operator only (`RemoveStaleLock`).

### CaptureService, CaptureReads: `project_a_capture_service`

Tool calls of one MCP service share a rate window, one capture lock, the ledger
(`requests`, `results`, `trail`), the files on disk and a browser whose pages
belong to the operator. `calls[c]` is the worker thread of a call; `attached`
says whether its caller is still there.

* `_snapshots` reads one page after the other, so that each `ReadBefore`,
  `Shoot` and `ReadAfter` is a step and the browser may change between any two.
* `Late` is the deadline, tested before each read and never during one.
* A page is what the fixed script reports; `CaptureReads` judges it and computes
  the released fields. An ATR is kept as the sum of its true ranges.
* `moves` and `lastRead` of a result are history: how often the browser changed
  between the first look and the result, and when the last look began.
* A crash truncates at most one image that was being written, or `result.json`;
  a write that fails (`Escape`, the exceptions the code lets through) leaves the
  same, after the commit too.

### CaptureDispatch, ChartChecks: `capture/project_a`

The consumer of a dispatch: its ledger file (`dispatch`), one directory per
attempt (`store`), the write probe, and the pinned chart with its symbol,
timeframe and header. The composition is the model's: `consume_dispatch` takes any
handler, nothing in the repository passes it one, and the command line's `capture`
runs capture, compile and bundle without the ledger. The handler modelled is that
sequence, and one consumer runs at a time, as the ledger has no lock.

* `Switch`/`Observe` are `switch_and_wait` with its polls, which may fail too
  (`SwitchFails`, `InspectFails`); the header follows the series later
  (`HeaderFollows`), and the operator may touch the chart at any point (`Touch`).
  The driver is external and modelled from how `cdp.py` uses it.
* `WriteBundle` writes one file of the bundle. A stop, or a write that fails, may
  leave the file torn, or the manifest; a file that is there is compared and never
  written again. A torn picture keeps the name of its bytes and is in no manifest.
* `Stop` is the end of the process as well as an exception that leaves the
  delivery unrecorded, which look the same from the ledger and the directory.

### RawIngress and Section 2: `ingest/project_a/raw_producer_adapter.py`, `project_a/`

`ProducerEvents` is `parse_numeric_event` with its table of producers and fields;
`NumericState` is `NumericMarketState`, which rebuilds the state from all alerts
in the order of their source times each time one is taken in; `MakeSense` is
`MakeSenseCompiler.compile`; `EvidenceBundle` is the trigger decision and the
request for evidence. They are operators and recursive functions over alerts
(`Passed[i]` is the state after the first `i` alerts in source order, `Ingested[i]`
the market after taking in that many; `Over` is a function written over another),
composed by `RawIngress`:

* `receiver[r]` is one call of `receive`: look up the receipt, then one immediate
  transaction that re-checks, replays the ledger of all accepted alerts, ingests,
  writes the state row and perhaps a research request; a refusal is recorded by a
  second transaction.
* `Valid` are the bodies that pass the parser. `ledger` is the set of accepted
  ones; the SELECT that reads it back is `Sorted`.
* `See`, `Claim` and `Finish` are the three calls a research worker makes; the
  workers themselves are not in the repository.
* Source times are whole seconds. Ids are those the producers choose: two producers
  may use one id, and then the trigger that `Compile` looks up by the id alone is
  the earliest in the order of the history.
* A Renko alert may name its cycle `cycle_id` or `cycle_identity`; the corner of a
  null `cycle_id` beside a `cycle_identity` is left out.
* `Settle` answers 503 for what the pipeline raises for other reasons than the
  alerts (`Broken`); with the approved sources no such failure occurs.

## 3. Runs, bounds and what they show

| Run | Instance | Distinct states | Shows |
|---|---|---|---|
| `analysis_safety` | 1 story, baseline and 2 deltas, 2 workers, 1 attempt, 1 summary | 1.4 M | types, story order, one capture, one identity, priors in the request, final closure |
| `analysis_routing` | 3 stories, 4 E1 bars, no worker | 69 k | an E1 joins the newest story known at its bar, or none |
| `analysis_settles` | 1 worker, 2 baseline jobs, 2 attempts, fair | 149 k | a failing capture cannot starve the next job |
| `analysis_quarantine` | 2 workers, 2 attempts | violation | section 6 |
| `analysis_late_failure` | 2 workers | violation | section 6 |
| `renderer_safety` | one delivery of any two kinds, 2 dispatchers, 2 retries, 1 reset, 3 claims | 1.5 M | one decider per claim, attempt budget, effects, honest page, final completion |
| `renderer_drawing` | one drawing of 2 objects | violation | section 6 |
| `ingest_safety` | 3 events (readiness, an invalidation, the same evidence again), 2 receivers, 2 consumers, 3 receipts | 0.75 M | no double effect, release follows confirmation, endings are final |
| `ingest_duplicate` | the same, 1 consumer | violation | section 6 |
| `review_safety` | 2 reviewers, 3 reviews, 2 dispatches, 3 replies, 2 attempts, fair | 160 k | one verdict served and it is the last audited, the call budget, who breaks the hash chain, every review ends |
| `capture_safety` | service: 2 callers, 1 job in two versions, 2 views, 1 crash, 2 changes of the browser; consumer: 2 events under one dispatch id, 2 deliveries, 2 retry counts, 1 touch | 0.40 M | one result per request and it can be replayed, pictures and numbers of one state, fresh quotes, one capture at a time, complete bundles |
| `section2_safety` | 12 bodies of 3 producers, 2 receivers, 2 workers, 3 posts, 1 fault | 0.28 M | acceptance means the ledger, the ledger replays, the tracked level follows the story, a request and its bundle agree, each touch is researched once |

The properties, in one line each, are next to their definitions. Every property
of a passing run has a *mutant* in `PROJECT.json`: a definition changed the way a
plausible bug would change it, under which TLC finds the property violated. The
mutated forms stand before the definitions they change and are marked
"mutant" in the modules.

Why the bounds are enough. Two workers, dispatchers or receivers are the least
that can overtake each other; a third only repeats the role of the second, as
each interacts with a row through its latest holder alone. A story with a
baseline and two deltas has a first, a middle and a last job, and `SummaryLimit = 1`
makes the window of summaries drop one. `MaxAttempts = 1` in `analysis_safety`
keeps the space small; `MaxAttempts = 2` in `analysis_settles` and
`analysis_quarantine` exercises the back-off.
`analysis_safety` and `analysis_settles` have one closing decision, as only
`CloseStory` reads which one closed a story; the other runs of that module have
both, interchangeable by symmetry in the MC module, and `ClosureFinal` is proved
for any set of decisions. Three stories and four bars give an
older, a newest and a later story with bars before, between and after them.
Three receipts are two of one event and a third that meets them in any order; a
readiness at time 2, an invalidation at 3 and the same evidence at 1 cover late
and out-of-order events. `MaxClaims = MaxAttempts` in `ingest_safety`, so claims
beyond the limit, possible because recovery does not compare the attempt count,
are not exercised there. `MaxE1`, `MaxReceipts`, `MaxClaims`, `MaxResets` and
`MaxTypes` bound the runs and have no counterpart in the code; `fails` is capped
at `MaxAttempts`, beyond which no comparison of the code tells two values apart.
In `review_safety` two reviewers are a holder and a waiter, and three reviews let
a third come after both, and find what a crash in the middle of a line left of
`attempts.jsonl`; the second dispatch has another fingerprint and a later
expiry, so the cached verdict expires for one and not for the other. In
`capture_safety` the two captures share nothing, and one of them moves in each
behaviour (`MCNext`). One rate slot per tick, one view with a quote and one
without, and a document that differs only in its plan make every refusal happen;
two changes of the browser are the least that can go unnoticed. The browser starts
at the page that is asked for; a price may move at any time, but not back to an
older quote (`QuotesAdvance`). `Polls = 3` with
two stable samples lets the wait both succeed late and time out, and after a
poll that failed. Two deliveries are one that stops anywhere and one that comes
back. Which of two callers calls and which of two events comes first makes no
difference before they meet, so caller `n` makes call `n` and event 1 is delivered
first (`InTurn`, `FirstDelivered`). The twelve
bodies of `section2_safety` are a touch in two byte forms, under a second id and
with another price, a later and an earlier second touch, a rejection, two
movements, a scan, an E1 and one body that is refused; three posts put any
three of them in any order. The scan has the id of the first touch and comes before
it in the order of the history, the E1 has the id of the second and comes after it:
a trigger is mistaken for the one and not for the other. `MaxReviews`, `MaxTime`, `MaxCalls`, `MaxClock`,
`MaxChanges`, `MaxCrashes`, `MaxDeliveries`, `MaxTouches`, `MaxPosts`
and `MaxFaults` are bounds of the instances only; deliveries bound the stops of the
consumer. `MaxAge` is one: a touch of time 0 is fresh at both instants of the
clock, the early one only at the first, and one of time 1 comes from the future at
the first.
Symmetry is used only for safety. `CHECK_DEADLOCK FALSE` stands where the system
really ends: all events have arrived and there is no worker
(`AnalysisJobs_routing.cfg`), all deliveries are settled
(`RendererOutbox_safety.cfg`), or the bounded reviews, calls, deliveries and posts
have been answered and nobody comes back (`ReviewAudit_safety.cfg`,
`Capture_safety.cfg`, `RawIngress_safety.cfg`).

## 4. Fairness

`FairSpec` of `AnalysisJobs` and of `ReviewAudit` assume some, no other module
does. `AnalysisJobs`: weak fairness of each worker's
tick: the worker loop calls `tick` again after a pause and nothing in `tick`
waits for another process. Weak fairness of `Elapse`: time passes. None for
Jones, ingest or crashes. A capture can outlive its 90-second lease every time,
so `CaptureSettles` is conditional: *if* leases stop being requeued, every
pending capture settles. Without that condition it is false, which is the
finding of `analysis_quarantine` in another form.

`ReviewAudit`: weak fairness of each review's own `Step`. A thread that runs is
scheduled, the model process is killed at its timeout, and the wait for the lock
has a deadline; the operator, the clock and new reviews are not fair. `ReviewsEnd`
therefore holds also behind a lock file that nobody will ever remove.

## 5. Proofs

`AnalysisJobsProofs` proves, for every number of stories, workers, models, E1
deltas, attempts and summaries:

| Theorem | Statement |
|---|---|
| `TypeCorrect` | `Spec => []TypeOK` |
| `StoryOrder` | `Spec => []StoryInOrder` |
| `ClosureFinal` | `Spec => ClosedIsFinal` |
| `CapturedOnce` | `Spec => []CaptureOnce` |
| `OneIdentity` | `Spec => []ProviderIdentity` |
| `PriorsSent` | `Spec => []RequestCarriesPriors` |
| `JoinsNewestOnly` | `Spec => NewestStoryOnly` |

The assumptions are those the module names (times are naturals, LIQ times
positive, `MaxAttempts` positive, `NoJob` is no job); TLC evaluates them on every
run. The invariants are not inductive alone, and the strengthenings say what the
code relies on without writing it down:

* `TypeInv` adds `WorkerHolds`: a worker past its claim has a job, past the load
  a manifest.
* `OrderInv` explains why `complete` never meets a gap. Jobs of a story are
  numbered without gaps (`JobsContiguous`); a worker in the provider half has a
  job all of whose predecessors are completed (`AnalysisPriors`) and stay so; a
  completed job has a result (`CompletedHasResult`); results are exactly the
  story's `ACTIVE` rows until closure (`ResultsAreRows`). A job without a result
  whose predecessors all have one can only be the next row.
* `CaptureInv`: a job in the provider half is captured (`AnalysisCaptured`), a
  claimed job has an owner, and no job precedes its story. The prefix `capture:`
  in the recovery query is what keeps a captured job from being requeued; the
  mutant without it breaks `CaptureOnce`.
* `IdentityInv`: a worker that has begun holds the manifest of the one
  `REQUESTED` row (`BegunIsDurable`), and attempts are only added.

* `PriorsInv`: results are never rewritten and a job's priors are results before
  it is claimed, so that what `LoadBundle` read is what `Invoke` sends
  (`LoadedCarries`, `RequestsCarry`).

Each step proof has one step per action; frame lemmas discharge the actions that
do not touch the relevant variables.

`EventIngestProofs` proves every property of `EventIngest`, for every set of
events, setups, receivers and consumers and every bound:

| Theorem | Statement |
|---|---|
| `IngestTypes` | `Spec => []TypeOK` |
| `EvidenceOnce` | `Spec => []EvidenceAcceptedOnce` |
| `ReleaseFollowsReceipt` | `Spec => []OutboxFollowsReceipt` |
| `RefusalCaused` | `Spec => []RefusalHasCause` |
| `EndingsFinal` | `Spec => EndingIsFinal` |
| `FailuresBudgeted` | `Spec => []FailureBudget` |
| `LatestClaim` | `Spec => LatestClaimAnswers` |

It assumes that an event has one type, evidence, setup and time
(`EventsAssumption`), that the limits are naturals and at least one attempt is
allowed (`BoundsAssumption`), and that `NoSetup` is no state
(`NoSetupAssumption`). `StepCases` splits a step into one that commits a unit,
one that confirms it, and a *quiet* one, which decides nothing, makes no receipt
live and moves only released rows; the invariants are

* `PhaseInv`: receivers hold distinct receipts, and one that has not committed
  holds a receipt that no unit has decided. A live receipt (`COMMITTED_UNCONFIRMED`
  or `CONFIRMED`) is decided.
* `EvidenceInv`: an accepted receipt owns the semantic row of its event for ever,
  because a reservation replaces no row; two live accepted receipts of one
  evidence are one. A unit that accepts would have counted any other, and
  nothing but a commit makes a receipt live: recovery and the marks only end it.
* `OutboxInv`: a row belongs to an accepted receipt, so that the confirmation of
  that receipt, and only it, releases the row.
* `EndingInv`: every state row of V1 is an ending with version 1. Of a nonempty
  set of confirmed rows one is current (`SomeRowIsCurrent`, by well-foundedness
  of the naturals), and a current ending refuses all but telemetry.
* `ClaimInv`: a claim in hand carries the attempt number of the row it holds, and
  a claimed row has fewer failures than attempts.

`RendererOutboxProofs` proves every property of `renderer_safety`, for any number of
deliveries, dispatchers, objects, retries and resets:

| Theorem | Statement |
|---|---|
| `TypesCorrect` | `Spec => []TypeOK` |
| `LatestDecides` | `Spec => []LatestClaimDecides` |
| `AttemptsBudgeted` | `Spec => []AttemptBudget` |
| `EffectsHappened` | `Spec => []CompletedHasEffect` |
| `PageHonest` | `Spec => []PageIsHonest` |
| `CompletedStays` | `Spec => CompletedIsFinal` |
| `OperatorsRelease` | `Spec => OperatorReleases` |

A step either leaves the rows alone (`LocalStep`: a renderer at work) or is a
transaction of the store. `WorkInv` says what a dispatcher may rely on between
the two: the effect its answer reports happened, and what it read of the
deliveries was completed, hence final. `BudgetInv` counts: the attempts of a
delivery are at most `RetryLimit` for each reset, and `tries` since the last one.

`ReviewAuditProofs`, for any number of reviews, reviewers, dispatches, replies and
attempts:

| Theorem | Statement |
|---|---|
| `CompletedVerdictIsLast` | `Spec => []CompletedIsLastVerdict` |
| `CallsStayInBudget` | `Spec => []CallBudget` |
| `ChainBreaksAtWaiters` | `Spec => []OnlyWaitersBreakTheChain` |
| `ReviewsImplementStore` | `Spec => OneVerdictServed`, a refinement of `WriteOnce` |

It assumes that a lock's holder is told from `Free` and `Stale`, and a result from
an absent or torn file. All rest on `Invariance`: the lock excludes where the
code is inside its `with` block and a review that records without it knows so
(`LockInv`); each review has an attempt number of its own (`NumberInv`); a verdict
on its way to `completed.json` is the last one of the chain, and stays so because
only a holder appends a verdict; and a call is made only while the recorded
attempts leave room, which the waiters' records can only shrink. A line that was
cut short costs no proof: it counts as an attempt, and nothing is appended after
it but by reviews that had read the history before.

`CaptureServiceProofs`, for any calls, requests, plans, pages, changes and crashes:

| Theorem | Statement |
|---|---|
| `CapturesAreSerial` | `Spec => []OneCaptureAtATime` |
| `CommittedReplays` | `Spec => []ResultsReplayable` |
| `ServiceImplementsStore` | `Spec => OneResultPerRequest`, a refinement of `WriteOnce` |
| `PicturesShowTheViews` | `Spec => []ImagesShowTheViews` |
| `ReleasedQuotesFresh` | `Spec => []QuotesFresh` |

A worker past the queue holds the lock, whatever its caller did; a picture that a
worker counts is whole on disk and images are only added; a result that is to be
committed names such pictures only. It assumes that `Nobody` is no caller, that
a request asks for known views (both evaluated by TLC), and, as a hypothesis of
the theorems, that the value for "no result" is not a result (`NoneIsNoResult`,
which quantifies over all values and which TLC cannot evaluate).

`PicturesShowTheViews` says that pictures and numbers of a result are of one state
of the charts unless the browser changed at least twice while they were taken: a
change that is undone before the last look leaves the fingerprint as it was, and
nothing in the code notices it.

The last two rest on a second invariant, `ReadInv`, over the first. For each view a
call has read (`RoleInv`), the look before, the picture and the look after are of
the page that the browser showed then: two that differ say that the browser
changed between them, and a picture that differs from two equal looks says that it
changed twice. A call has waited for no longer than its timeout when it compiles, since
the deadline is tested before the last read, so a quote that was fresh at the
start is too old by that timeout at most. These clauses hold of a call at every
stage of its work (`CallRead`) and of a result from then on (`ResultsTruthful`).
`TimesAssumption` says that times are integers.

`CaptureDispatchProofs`, for any events, profiles, pins, timeframes and any number of
deliveries, retries, failures and touches of the chart:

| Theorem | Statement |
|---|---|
| `CompletedIsWhole` | `DispatchSpec => []CompletedHasBundle` |
| `PicturesShowTheirInterval` | `DispatchSpec => []PicturesMatch` |
| `DispatchImplementsStore` | `DispatchSpec => OneCaptureCompletes`, a refinement of `WriteOnce` |

The invariant is `DInv`. `CaptureInv` says what each stage of the consumer leaves
for the next one: the pictures it counts are on disk, the manifest it wrote names
pictures on disk (`Good`), the bundle is published before the dispatch is recorded;
and it works only on a dispatch that is not completed, which is what makes the
record final. `StoreInv` keeps a completed attempt whole, because every attempt
writes into a directory of its own and no file that is there, whole or torn, is
written again. `Verified` is why a picture is right: between
the verification of symbol, interval and header and the picture, only the operator
can change the chart, and the pictures of such a touch are what `PicturesMatch`
excepts. `BoundsAssumption` is evaluated by TLC; `NeverIsNothing`,
that the value for "not written" is no record, is a hypothesis as above.

`RawIngressProofs`, for any bodies, receivers, research workers, ages, posts and
faults:

| Theorem | Statement |
|---|---|
| `AcceptedAlertsAreKept` | `Spec => []AcceptedIsOnLedger` |
| `LedgerAlwaysReplays` | `Spec => []LedgerReplays` |
| `StoryIsFollowed` | `Spec => []TrackedFollowsStory` |
| `WakesCarryCaptures` | `Spec => []WakeCarriesCapture` |
| `TouchesWakeOnce` | `Spec => []OneWakePerTouch` |

with two lemmas that are results of their own: `SortedOrder` (an orderly set of
alerts is listed completely, each where its source time and id put it) and
`NearestExists` (of finitely many comparable levels one is nearer than all others).

* `IngressInv`: a reception that decides has a body that parsed (`Receptions`), a
  receipt that answers 200 is of an alert of the ledger (`ReceiptsTrue`), and the
  ledger holds each producer id once (`LedgerKept`). The second transaction of a
  refusal can meet a receipt that another receiver wrote since; it writes none then.
* `ResearchInv`: a request is of a touch on the ledger and its history is pending,
  claimed by one worker, reported by the same (`Recorded`); a requested level has a
  latest request (`LatestKnown`), without which the comparison of a re-touch would
  be with nothing; and the requests of a level advance (`TouchesAdvance`).
* `Seen`: the clock a reception compares with is one that it read.
* Ledger and story hold of a *rebuild*, not only of the steps that led to it: a
  late alert rewrites the history of all others. So they are proved of the state
  rebuilt from any orderly set of alerts. The invariant of that fold is `Tracks`:
  levels come from alerts and their keys hold their sides (`LevelsKnown`), the
  story is that of the expansions (`StoryTold`), the tracked level is alive and on
  the side of the story (`OnSide`), selections and releases alternate (`Alternates`).
* The choice of the tracked level takes the least of a set by a key of seven places
  and a quotient. That a least one exists is not obvious: the quotient is compared
  by cross-multiplication, which is an order only as ATRs are positive
  (`QuotientsCompose`), and equal keys are told apart by which level the code saw
  first, as Python's sort is stable (`since`).

Assumptions, all evaluated by TLC: the fields of a body are integers or unreadable
(`ContentAssumption`), two ids have one hash only if they are one id, and a level's
hash is a number and its key not `NoLevel` (`HashAssumption`, `LevelAssumption`), an
age is a natural (`AgeAssumption`). Nothing is assumed of the ids of different
producers. `WakesCarryCaptures` says of every request and every row that it carries
the bundle of its own alert (`ForItself`), with the capture that the adapter's gate
asked for, or that of an alert with the same id which comes before it on the ledger
(`ForTheFirst`). Its proof finds the trigger (`TriggerIs`), shows that the rebuild
gives an alert the same fields in both gates (`SameTouches`) and that the two agree
on them (`JoinedWakes`), and that later alerts change neither a bundle that was
written nor the evidence requested before it (`FirstStays`, `EvidenceStays`).

`ChecksProofs` holds what the others conclude from a verdict: the least failing
check exists (`MinIsLeast`), a passed list has no failing check (`NothingFailed`),
and conversely (`AllPassed`).

Recursion. `Passed` and `Ingested` are recursive functions over a finite sequence.
That such a function exists and has the values of its equation is proved by taking
the set of indices where a statement fails and its least element, so that no
induction principle with an operator parameter is needed; `SortedOrder` and
`NearestExists` argue by the number of elements before each.

Model-checked only: the two liveness properties, `CaptureSettles` and
`ReviewsEnd`, which need fairness and `ENABLED`. Every invariant and action property
of a passing run is a theorem. The four runs of section 6 are counterexamples and
have nothing to prove.

## 6. Where the code and its documents disagree

Each is a run whose one property states what the document or test says, and which
TLC violates.

* `QuarantinedAfterMaxAttempts`. The runbook says a failing capture is
  quarantined after five attempts. `claim_capture_job` requeues an expired lease
  and counts it, but only `capture_failure` compares the count, so a capture that
  always outlives its lease is retried for ever.
* `ResultIsCompleted`. `technical_failure` looks neither at the lease nor at the
  result: a displaced worker's failure after its successor's success makes a
  completed job `TECHNICAL_FAILURE`, which also blocks every later E1 of the story.
* `DuplicatesHarmless`. The clean-up of a failed TradingView attempt deletes what
  it touched without asking whether it still holds the claim; if it was overtaken,
  the completed bundle of its successor refers to deleted objects.
* `SameContentIsDuplicate`. A unit that committed and was recovered as
  `ABANDONED` before confirmation leaves its dedupe rows, which the reservation
  does not count and the primary keys do: the event is answered 503 whenever it
  is sent again, and its effect is never released.

Observed while modelling, and not a disagreement with any document: a terminal
`TECHNICAL_FAILURE` blocks the story's later deltas (a test asserts it); the
provider may be called for a story closed after the claim, in which case the
result is stored and the story unchanged; the default provider budget, two
90-second calls and a pause, is one second longer than the 180-second lease; a
duplicate of a `COMMIT_UNKNOWN` event is suppressed although the original is
never dispatched (fail closed by design); a readiness decided while an
invalidation is committed and not confirmed is dispatched after it.

Of the review: after a cached verdict, any later failure record withholds it for
ever, although `ARCHITECTURE_AND_HANDOFF.md` says that the same fingerprint
returns the completed result; an empty `request.json` makes every later review
raise; records of lock timeouts use up the attempt budget, and a call whose
review crashed is not counted in it. A partial last line of `attempts.jsonl` withholds
a completed verdict for ever; without one, and below the limit of attempts, every
further review calls the model, cannot record it (`append_attempt` parses all lines
first) and releases nothing, so that such calls are not bounded by `max_attempts`
(`CallBudget` says exactly this).

Of the captures: a browser that changes and changes back between the two looks is
not noticed (`ImagesShowTheViews` says exactly this), and the state fingerprint
holds the symbol of the plan, not the one observed; a torn image file blocks the
same image of its job; nothing bounds how long a call waits for the capture lock
but the rate window; no deadline is tested after the last read; a crash between
creating and removing `.write_probe` makes the artifact root unwritable until it
is removed by hand; an operator who touches the chart between verification and
picture is not noticed (`PicturesMatch` excepts it); the consumer's age check
uses the time that the envelope states.

Of Section 2: a transient failure (503), or a 409 that only the order of arrival
caused, is recorded under the hash of the body, so that the same bytes are
refused for ever; a receiver whose transaction was refused may answer 409 for a
body that another receiver of the same bytes had accepted meanwhile; a claimed
research request has no lease; make-sense reads the latest observation of any
level; a late event can rewrite the history of the tracked level.

Three places where the adapter and its document or its own intent part, none of
which a run counts as a violation:

* *Whose event.* Events are told apart by producer, revision and id
  (`raw_producer_adapter.py:622-626`), but the trigger of the bundle is the first
  event of that id in the history (`section2_pipeline.py:161`). When two producers
  use one id, a research request may carry the bundle of the other's event, with no
  screenshots asked for, although `RAW_PRODUCER_ALERT_ADAPTER_V1.md:27-29` says that
  the row contains the complete structured read and screenshot request.
  `WakeCarriesCapture` bounds the case: only an earlier event of that id can take
  the place, and `section2_safety` reaches it.
* *ATR.* `RAW_PRODUCER_ALERT_ADAPTER_V1.md:14-15` requires a fresh and confirmed 5m ATR
  of a touch that wakes research. Neither gate looks at it (`raw_producer_adapter.py:
  528-545`, `evidence_bundle.py:551-598`), and
  `tests/test_project_a_raw_producer_alert_adapter_v1.py:136` asserts that a touch
  without one wakes. The model follows the code.
* *Times as text.* The SELECT that rebuilds the ledger (line 648) and the gate that
  wants a later touch (line 746) compare canonical times as text, in which
  `00:00:00.5Z` comes before `00:00:00Z`. For whole seconds text and time have one
  order, and that is what `Sorted` and `Advances` assume; `OneWakePerTouch` and
  `LedgerReplays` are claimed for whole seconds only.

## 7. What is not modelled

`PROJECT.json` lists every component with its status. Within the modelled ones:
heartbeats, audit chains and content checks of the analysis queue; outcome
history, `record_operation`, migrations and message texts of the renderers; the
V0.2 path, dead letters and validation of the ingest; the direct provider and the
raw response files of the review beyond their failures; the preflight tool, HTTP
policy and listener attestation of the capture service; the sample generator of
the capture bundles; the configuration switch of the raw adapter, and the history
file of the numeric state. External: the models, the browser, Telegram, Notion,
MT5, the research workers and the outbox consumers. Pine scripts, command-line
formatting and image analysis are I/O or wording.

Not modelled at all, in the order of what they could get wrong: the Event V0.2
ingest (the same outbox in one transaction, so with fewer interleavings than V1);
the legacy wake queue, thesis log and invalidation watch, whose lost wake,
doubled version and lost alert `PROJECT.json` lists as hazards; the scheduler's
sequential cycle; the pure gates of `analyze`. The hazards in `PROJECT.json`
without a property name the line of each.

## 8. Plan

Done: the analysis queue, V1 ingest, renderer outbox, AI review, both captures,
and Section 2 from the raw body to the research request, each with the proofs of its
safety properties. Left, in order:

1. V0.2 ingest beside V1 on the shared outbox, and an abstract specification of
   the outbox which `EventIngest` implements.
2. `WakeQueue` and `ThesisLog`: the races of the legacy files.
3. Renderer outcomes; composition of `RawIngress` with `AnalysisJobs`.
