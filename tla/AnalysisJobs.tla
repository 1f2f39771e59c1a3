---------------------------- MODULE AnalysisJobs ----------------------------
(***************************************************************************)
(* The durable analysis queue of Project A (project_a_analysis).           *)
(*                                                                         *)
(* A LIQ_TOUCH event opens a story with one LIQ_BASELINE job; every later  *)
(* RENKO_E1 adds an E1_DELTA job to the newest story that precedes it.     *)
(* Any number of worker processes share one SQLite file: each runs         *)
(* AnalysisWorker.tick, which captures evidence for one job and then, when *)
(* its provider is enabled, asks the model to grade one captured job.      *)
(* Every store method is one BEGIN IMMEDIATE transaction, so one action    *)
(* here; between two of them any other process, the ingest server or Jones *)
(* may act.  Job status is the latest row of an append-only history.       *)
(***************************************************************************)
EXTENDS Integers, Sequences, FiniteSets

CONSTANTS
    Stories,       \* identities of the stories that may be opened
    Workers,       \* worker processes
    Models,        \* values of PROJECT_A_OPENAI_MODEL
    LiqTimes,      \* source_bar_time values of LIQ_TOUCH: positive integers
    E1Times,       \* source_bar_time values of RENKO_E1, one event each
    MaxE1,         \* bound: E1 deltas modelled per story
    MaxAttempts,   \* maximum_attempts of capture_failure (5 in the code)
    Decisions,     \* decisions that close a story: ENTERED and SKIPPED
    SummaryLimit,  \* prior Grade summaries sent with a delta (6 in the code)
    NoJob, NoManifest  \* a worker that holds no job, no request manifest

Jobs == Stories \X (0..MaxE1)   \* <<story_id, e1_count>>, 0 = LIQ_BASELINE

ASSUME TimesAssumption == LiqTimes \subseteq Nat \ {0} /\ E1Times \subseteq Nat
ASSUME MaxE1Assumption == MaxE1 \in Nat
ASSUME MaxAttemptsAssumption == MaxAttempts \in Nat \ {0}
ASSUME SummaryLimitAssumption == SummaryLimit \in Nat
ASSUME NoJobAssumption == NoJob \notin Jobs

VARIABLES
    srcTime,    \* story -> source_bar_time of its LIQ event, 0 = no such story
    queue,      \* the jobs in the order of (requested_at, job_id)
    e1Events,   \* E1 bar time -> "unseen", "orphan" or "attached"
    status,     \* job -> status of its latest history row, "NONE" = no job
    owner,      \* job -> worker_id of its latest row: <<phase, worker>> or <<>>
    timer,      \* job -> lease_expires_at of its latest row, against the clock
    fails,      \* job -> PENDING_CAPTURE rows with a failure_code, capped
    captured,   \* the jobs with a row in project_a_analysis_captures
    attempts,   \* job -> its rows in project_a_provider_attempts
    results,    \* the jobs with a row in project_a_analysis_results
    hist,       \* story -> its rows in project_a_story_state_history
    wk,         \* worker -> where its tick is, and its job and manifest
    sent        \* history variable: <<job, manifest>> of every provider call

vars == <<srcTime, queue, e1Events, status, owner, timer, fails, captured,
          attempts, results, hist, wk, sent>>

----------------------------------------------------------------------------
(* Types *)

Statuses == {"NONE", "PENDING_CAPTURE", "CLAIMED", "CAPTURED", "COMPLETED",
             "TECHNICAL_FAILURE"}
\* lease_expires_at is absent, in the future, exactly now, or in the past
Timers == {"none", "live", "edge", "past"}
Owners == {<<>>} \cup ({"capture", "analysis"} \X Workers)
Rows == [status : {"ACTIVE", "CLOSED"}, e1 : 0..MaxE1,
         decision : {"NULL"} \cup Decisions]
Memories == [state : {"NONE", "ACTIVE", "CLOSED"}, e1 : 0..MaxE1,
             done : SUBSET (0..MaxE1)]
Manifests == [model : Models, memory : Memories]
Attempts == [outcome : {"REQUESTED", "VALIDATED", "TECHNICAL_FAILURE"},
             manifest : Manifests]
Phases == {"idle", "capturing", "analyse", "claimed", "loaded", "begun",
           "invoked", "answered"}
WorkerStates == [pc : Phases, job : Jobs \cup {NoJob},
                 manifest : Manifests \cup {NoManifest}]

----------------------------------------------------------------------------
(* Queries *)

Closed(s) == \E i \in DOMAIN hist[s] : hist[s][i].status = "CLOSED"

NoRow == [status |-> "NONE", e1 |-> 0, decision |-> "NULL"]

\* mutant of LastRow: WHERE status='ACTIVE', blind to the CLOSED row
LastActiveRow(s) ==
    LET active == SelectSeq(hist[s], LAMBDA r : r.status = "ACTIVE")
    IN  IF active = <<>> THEN NoRow ELSE active[Len(active)]

\* ORDER BY state_id DESC LIMIT 1
LastRow(s) == IF hist[s] = <<>> THEN NoRow ELSE hist[s][Len(hist[s])]

\* mutant of Due: a row that carries a retry time is never due
DueWithoutRetry(j) == timer[j] = "none"

Due(j) == timer[j] \in {"none", "edge", "past"}

\* j is the first row of SELECT ... WHERE P ORDER BY requested_at,job_id LIMIT 1
First(j, P(_)) ==
    \E i \in DOMAIN queue :
        /\ queue[i] = j
        /\ P(j)
        /\ \A k \in 1..(i - 1) : ~P(queue[k])

CreatedBefore(s, t) ==
    \E i, k \in DOMAIN queue :
        i < k /\ queue[i] = <<s, 0>> /\ queue[k] = <<t, 0>>

\* ORDER BY source_bar_time DESC, created_at DESC LIMIT 1 among earlier stories
IsLatestStory(s, time) ==
    /\ srcTime[s] # 0
    /\ srcTime[s] < time
    /\ \A t \in Stories \ {s} :
          (srcTime[t] # 0 /\ srcTime[t] < time) =>
              \/ srcTime[t] < srcTime[s]
              \/ srcTime[t] = srcTime[s] /\ CreatedBefore(t, s)

\* mutant of IsActiveStory: the newest story that is still open
IsNewestOpenStory(s, time) ==
    /\ srcTime[s] # 0 /\ srcTime[s] < time /\ ~Closed(s)
    /\ \A t \in Stories : srcTime[t] > srcTime[s] =>
          srcTime[t] >= time \/ Closed(t)

\* an older story never takes over from a closed newest one
IsActiveStory(s, time) == IsLatestStory(s, time) /\ ~Closed(s)

ResultsOf(s) == {k \in 0..MaxE1 : <<s, k>> \in results}

LatestSummaries(S) ==
    {k \in S : Cardinality({m \in S : m > k}) < SummaryLimit}

\* mutant of Memory: a delta keeps the memory frozen when it was enqueued
FrozenMemory(j) == [state |-> "NONE", e1 |-> 0, done |-> {}]

\* story_memory: frozen and empty for a baseline, read afresh for a delta
Memory(j) ==
    IF j[2] = 0
    THEN [state |-> "NONE", e1 |-> 0, done |-> {}]
    ELSE [state |-> LastRow(j[1]).status, e1 |-> LastRow(j[1]).e1,
          done |-> LatestSummaries(ResultsOf(j[1]))]

----------------------------------------------------------------------------
(* enqueue_analysis_trigger, inside the ingest transaction *)

Enqueue(j) ==
    /\ queue' = Append(queue, j)
    /\ status' = [status EXCEPT ![j] = "PENDING_CAPTURE"]
    /\ UNCHANGED <<owner, timer, fails, captured, attempts, results, hist,
                   wk, sent>>

IngestLiq(s, time) ==
    /\ srcTime[s] = 0
    /\ srcTime' = [srcTime EXCEPT ![s] = time]
    /\ Enqueue(<<s, 0>>)
    /\ UNCHANGED e1Events

\* mutant of IsNextE1: numbered from the Story State, not from the jobs
IsNextInHistory(s, k) == k = LastRow(s).e1 + 1

\* COALESCE(MAX(e1_count),0)+1
IsNextE1(s, k) ==
    /\ status[<<s, k>>] = "NONE"
    /\ \A m \in 0..(k - 1) : status[<<s, m>>] # "NONE"

IngestE1(s, k, time) ==
    /\ e1Events[time] = "unseen"
    /\ IsActiveStory(s, time)
    /\ IsNextE1(s, k)
    /\ e1Events' = [e1Events EXCEPT ![time] = "attached"]
    /\ Enqueue(<<s, k>>)
    /\ UNCHANGED srcTime

IngestOrphanE1(time) ==
    /\ e1Events[time] = "unseen"
    /\ ~\E s \in Stories : IsActiveStory(s, time)
    /\ e1Events' = [e1Events EXCEPT ![time] = "orphan"]
    /\ UNCHANGED <<srcTime, queue, status, owner, timer, fails, captured,
                   attempts, results, hist, wk, sent>>

----------------------------------------------------------------------------
(* AnalysisWorker.tick, capture half *)

Goto(w, pc) == wk' = [wk EXCEPT ![w].pc = pc]

ToIdle(w) ==
    wk' = [wk EXCEPT ![w] = [pc |-> "idle", job |-> NoJob,
                             manifest |-> NoManifest]]

\* mutant of CaptureExpired: without AND s.worker_id LIKE 'capture:%'
AnyLeaseExpired(j) == status[j] = "CLAIMED" /\ timer[j] \in {"edge", "past"}

\* the latest row of j is CLAIMED by a worker_id LIKE 'capture:%', and expired
CaptureExpired(j) ==
    /\ status[j] = "CLAIMED"
    /\ owner[j] \in {"capture"} \X Workers
    /\ timer[j] \in {"edge", "past"}

CapturePending(j) ==
    /\ status[j] = "PENDING_CAPTURE"
    /\ Due(j)
    /\ ~Closed(j[1])

AnyCaptureExpired == \E j \in Jobs : CaptureExpired(j)

\* the failed rows capture_failure counts (the model's bound: MaxAttempts)
CountFailure(j) == IF fails[j] < MaxAttempts THEN fails[j] + 1 ELSE fails[j]

\* claim_capture_job first requeues one expired lease and claims nothing
RequeueExpired(w, j) ==
    /\ wk[w].pc = "idle"
    /\ First(j, CaptureExpired)
    /\ status' = [status EXCEPT ![j] = "PENDING_CAPTURE"]
    /\ owner' = [owner EXCEPT ![j] = <<>>]
    /\ timer' = [timer EXCEPT ![j] = "live"]
    /\ fails' = [fails EXCEPT ![j] = CountFailure(j)]
    /\ Goto(w, "analyse")
    /\ UNCHANGED <<srcTime, queue, e1Events, captured, attempts, results,
                   hist, sent>>

ClaimCapture(w, j) ==
    /\ wk[w].pc = "idle"
    /\ ~AnyCaptureExpired
    /\ First(j, CapturePending)
    /\ status' = [status EXCEPT ![j] = "CLAIMED"]
    /\ owner' = [owner EXCEPT ![j] = <<"capture", w>>]
    /\ timer' = [timer EXCEPT ![j] = "live"]
    /\ wk' = [wk EXCEPT ![w] = [pc |-> "capturing", job |-> j,
                                manifest |-> NoManifest]]
    /\ UNCHANGED <<srcTime, queue, e1Events, fails, captured, attempts,
                   results, hist, sent>>

NothingToCapture(w) ==
    /\ wk[w].pc = "idle"
    /\ ~AnyCaptureExpired
    /\ ~\E j \in Jobs : CapturePending(j)
    /\ Goto(w, "analyse")
    /\ UNCHANGED <<srcTime, queue, e1Events, status, owner, timer, fails,
                   captured, attempts, results, hist, sent>>

\* the lease row is still this worker's and lease_expires_at >= now
HoldsCapture(w, j) ==
    /\ status[j] = "CLAIMED"
    /\ owner[j] = <<"capture", w>>
    /\ timer[j] # "past"

RecordCapture(w) ==
    LET j == wk[w].job IN
    /\ wk[w].pc = "capturing"
    /\ HoldsCapture(w, j)
    /\ captured' = captured \cup {j}
    /\ status' = [status EXCEPT ![j] = "CAPTURED"]
    /\ owner' = [owner EXCEPT ![j] = <<>>]
    /\ timer' = [timer EXCEPT ![j] = "none"]
    /\ wk' = [wk EXCEPT ![w] = [pc |-> "analyse", job |-> NoJob,
                                manifest |-> NoManifest]]
    /\ UNCHANGED <<srcTime, queue, e1Events, fails, attempts, results, hist,
                   sent>>

\* a capture that raised, returned nothing or failed validation
CaptureFailure(w) ==
    LET j == wk[w].job IN
    /\ wk[w].pc = "capturing"
    /\ HoldsCapture(w, j)
    /\ owner' = [owner EXCEPT ![j] = <<>>]
    /\ IF fails[j] + 1 >= MaxAttempts
       THEN /\ status' = [status EXCEPT ![j] = "TECHNICAL_FAILURE"]
            /\ timer' = [timer EXCEPT ![j] = "none"]
            /\ fails' = fails
       ELSE /\ status' = [status EXCEPT ![j] = "PENDING_CAPTURE"]
            /\ timer' = [timer EXCEPT ![j] = "live"]
            /\ fails' = [fails EXCEPT ![j] = CountFailure(j)]
    /\ ToIdle(w)
    /\ UNCHANGED <<srcTime, queue, e1Events, captured, attempts, results,
                   hist, sent>>

\* record_capture and then capture_failure both refuse: CAPTURE_LEASE_LOST
CaptureLeaseLost(w) ==
    /\ wk[w].pc = "capturing"
    /\ ~HoldsCapture(w, wk[w].job)
    /\ ToIdle(w)
    /\ UNCHANGED <<srcTime, queue, e1Events, status, owner, timer, fails,
                   captured, attempts, results, hist, sent>>

----------------------------------------------------------------------------
(* AnalysisWorker.tick, provider half *)

\* mutant of PriorsCompleted: a failed predecessor no longer blocks
PriorsSettled(j) ==
    \A k \in 0..(j[2] - 1) : status[<<j[1], k>>] \in
        {"NONE", "COMPLETED", "TECHNICAL_FAILURE"}

PriorsCompleted(j) ==
    \A k \in 0..(j[2] - 1) :
        status[<<j[1], k>>] \in {"NONE", "COMPLETED"}

AnalysisEligible(j) ==
    /\ \/ status[j] = "CAPTURED"
       \/ /\ status[j] = "CLAIMED"
          /\ timer[j] = "past"
          /\ owner[j] \notin {"capture"} \X Workers
    /\ ~Closed(j[1])
    /\ PriorsCompleted(j)

\* an approved worker names the job, any other takes the first eligible one
ClaimNext(w, j) ==
    /\ wk[w].pc = "analyse"
    /\ AnalysisEligible(j)
    /\ status' = [status EXCEPT ![j] = "CLAIMED"]
    /\ owner' = [owner EXCEPT ![j] = <<"analysis", w>>]
    /\ timer' = [timer EXCEPT ![j] = "live"]
    /\ wk' = [wk EXCEPT ![w] = [pc |-> "claimed", job |-> j,
                                manifest |-> NoManifest]]
    /\ UNCHANGED <<srcTime, queue, e1Events, fails, captured, attempts,
                   results, hist, sent>>

\* provider disabled, or claim_next found nothing for this worker
EndTick(w) ==
    /\ wk[w].pc = "analyse"
    /\ ToIdle(w)
    /\ UNCHANGED <<srcTime, queue, e1Events, status, owner, timer, fails,
                   captured, attempts, results, hist, sent>>

LoadBundle(w, m) ==
    LET j == wk[w].job IN
    /\ wk[w].pc = "claimed"
    /\ j \in captured
    /\ wk' = [wk EXCEPT ![w] = [pc |-> "loaded", job |-> j, manifest |->
                                  [model |-> m, memory |-> Memory(j)]]]
    /\ UNCHANGED <<srcTime, queue, e1Events, status, owner, timer, fails,
                   captured, attempts, results, hist, sent>>

Requested(j) == {a \in attempts[j] : a.outcome = "REQUESTED"}

\* mutant of IdentityMatches: compares the model, not the manifest
ModelMatches(j, m) == \A a \in Requested(j) : a.manifest.model = m.model

\* a REQUESTED row is reused only by a request with the same manifest
IdentityMatches(j, m) == \A a \in Requested(j) : a.manifest = m

BeginProviderAttempt(w) ==
    LET j == wk[w].job IN
    LET m == wk[w].manifest IN
    /\ wk[w].pc = "loaded"
    /\ IdentityMatches(j, m)
    /\ attempts' = [attempts EXCEPT ![j] = IF Requested(j) = {}
           THEN @ \cup {[outcome |-> "REQUESTED", manifest |-> m]} ELSE @]
    /\ Goto(w, "begun")
    /\ UNCHANGED <<srcTime, queue, e1Events, status, owner, timer, fails,
                   captured, results, hist, sent>>

\* RuntimeError that tick does not catch: the process exits
IdentityConflict(w) ==
    /\ wk[w].pc = "loaded"
    /\ ~IdentityMatches(wk[w].job, wk[w].manifest)
    /\ ToIdle(w)
    /\ UNCHANGED <<srcTime, queue, e1Events, status, owner, timer, fails,
                   captured, attempts, results, hist, sent>>

Invoke(w) ==
    /\ wk[w].pc = "begun"
    /\ sent' = sent \cup {<<wk[w].job, wk[w].manifest>>}
    /\ Goto(w, "invoked")
    /\ UNCHANGED <<srcTime, queue, e1Events, status, owner, timer, fails,
                   captured, attempts, results, hist>>

\* the response passed parse_model_json and validate_grade
Answer(w) ==
    /\ wk[w].pc = "invoked"
    /\ Goto(w, "answered")
    /\ UNCHANGED <<srcTime, queue, e1Events, status, owner, timer, fails,
                   captured, attempts, results, hist, sent>>

\* complete: the result is stored once, the story grows only while it is open
StoreResult(j, m) ==
    /\ Requested(j) # {}
    /\ ~(LastRow(j[1]).status = "ACTIVE" /\ LastRow(j[1]).e1 > j[2])
    /\ attempts' = [attempts EXCEPT ![j] =
                        @ \cup {[outcome |-> "VALIDATED", manifest |-> m]}]
    /\ results' = results \cup {j}
    /\ hist' = IF Closed(j[1]) THEN hist
               ELSE [hist EXCEPT ![j[1]] =
                        Append(@, [status |-> "ACTIVE", e1 |-> j[2],
                                   decision |-> "NULL"])]
    /\ status' = [status EXCEPT ![j] = "COMPLETED"]
    /\ owner' = [owner EXCEPT ![j] = <<>>]
    /\ timer' = [timer EXCEPT ![j] = "none"]

Complete(w) ==
    LET j == wk[w].job IN
    /\ wk[w].pc = "answered"
    /\ IF j \in results
       THEN UNCHANGED <<attempts, results, hist, status, owner, timer>>
       ELSE StoreResult(j, wk[w].manifest)
    /\ ToIdle(w)
    /\ UNCHANGED <<srcTime, queue, e1Events, fails, captured, sent>>

\* load error, approval mismatch, configuration or provider failure
TechnicalFailure(w) ==
    LET j == wk[w].job IN
    /\ wk[w].pc \in {"claimed", "loaded", "begun", "invoked"}
    /\ status' = [status EXCEPT ![j] = "TECHNICAL_FAILURE"]
    /\ owner' = [owner EXCEPT ![j] = <<>>]
    /\ timer' = [timer EXCEPT ![j] = "none"]
    /\ attempts' = [attempts EXCEPT ![j] = @ \cup
          {[outcome |-> "TECHNICAL_FAILURE", manifest |-> a.manifest] :
              a \in Requested(j)}]
    /\ ToIdle(w)
    /\ UNCHANGED <<srcTime, queue, e1Events, fails, captured, results, hist,
                   sent>>

----------------------------------------------------------------------------
(* Jones, the clock, and process loss *)

\* close_story; repeating the same decision changes nothing, another is refused
CloseStory(s, decision) ==
    /\ srcTime[s] # 0
    /\ LastRow(s).status # "CLOSED"
    /\ hist' = [hist EXCEPT ![s] = Append(@,
          [status |-> "CLOSED", decision |-> decision,
           e1 |-> LastRow(s).e1])]
    /\ UNCHANGED <<srcTime, queue, e1Events, status, owner, timer, fails,
                   captured, attempts, results, wk, sent>>

\* the clock reaches, then passes, the lease or retry time of j's latest row
\* (no comparison tells a retry time that is now from one that is past)
Elapse(j) ==
    /\ timer[j] \in {"live", "edge"}
    /\ timer' = [timer EXCEPT ![j] =
          IF @ = "live" /\ status[j] = "CLAIMED" THEN "edge" ELSE "past"]
    /\ UNCHANGED <<srcTime, queue, e1Events, status, owner, fails, captured,
                   attempts, results, hist, wk, sent>>

\* a process ends between two transactions; its successor is idle
Crash(w) ==
    /\ wk[w].pc # "idle"
    /\ ToIdle(w)
    /\ UNCHANGED <<srcTime, queue, e1Events, status, owner, timer, fails,
                   captured, attempts, results, hist, sent>>

----------------------------------------------------------------------------
Init ==
    /\ srcTime = [s \in Stories |-> 0]
    /\ queue = <<>>
    /\ e1Events = [t \in E1Times |-> "unseen"]
    /\ status = [j \in Jobs |-> "NONE"]
    /\ owner = [j \in Jobs |-> <<>>]
    /\ timer = [j \in Jobs |-> "none"]
    /\ fails = [j \in Jobs |-> 0]
    /\ captured = {}
    /\ attempts = [j \in Jobs |-> {}]
    /\ results = {}
    /\ hist = [s \in Stories |-> <<>>]
    /\ wk = [w \in Workers |-> [pc |-> "idle", job |-> NoJob,
                                manifest |-> NoManifest]]
    /\ sent = {}

CaptureStep(w) ==
    \/ \E j \in Jobs : RequeueExpired(w, j) \/ ClaimCapture(w, j)
    \/ NothingToCapture(w)
    \/ RecordCapture(w)
    \/ CaptureFailure(w)
    \/ CaptureLeaseLost(w)

AnalysisStep(w) ==
    \/ \E j \in Jobs : ClaimNext(w, j)
    \/ EndTick(w)
    \/ \E m \in Models : LoadBundle(w, m)
    \/ BeginProviderAttempt(w)
    \/ IdentityConflict(w)
    \/ Invoke(w)
    \/ Answer(w)
    \/ Complete(w)
    \/ TechnicalFailure(w)

IngestStep ==
    \/ \E s \in Stories, time \in LiqTimes : IngestLiq(s, time)
    \/ \E s \in Stories, k \in 1..MaxE1, time \in E1Times : IngestE1(s, k, time)
    \/ \E time \in E1Times : IngestOrphanE1(time)

Next ==
    \/ IngestStep
    \/ \E w \in Workers : CaptureStep(w) \/ AnalysisStep(w) \/ Crash(w)
    \/ \E s \in Stories, d \in Decisions : CloseStory(s, d)
    \/ \E j \in Jobs : Elapse(j)

Spec == Init /\ [][Next]_vars

\* Worker processes keep ticking and time keeps passing.
FairSpec ==
    /\ Spec
    /\ \A w \in Workers : WF_vars(CaptureStep(w) \/ AnalysisStep(w))
    /\ \A j \in Jobs : WF_vars(Elapse(j))

----------------------------------------------------------------------------
(* Properties *)

RowsTyped ==
    /\ srcTime \in [Stories -> LiqTimes \cup {0}]
    /\ queue \in Seq(Jobs)
    /\ e1Events \in [E1Times -> {"unseen", "orphan", "attached"}]
    /\ status \in [Jobs -> Statuses]
    /\ owner \in [Jobs -> Owners]
    /\ timer \in [Jobs -> Timers]
    /\ fails \in [Jobs -> 0..MaxAttempts]
    /\ captured \subseteq Jobs
    /\ attempts \in [Jobs -> SUBSET Attempts]
    /\ results \subseteq Jobs
    /\ hist \in [Stories -> Seq(Rows)]
    /\ wk \in [Workers -> WorkerStates]
    /\ sent \subseteq Jobs \X Manifests

\* Every table, lease and process of the queue holds values of its type, and
\* the jobs table has one row for each <<story, e1_count>> in it: nothing in
\* the schema forbids a second one, only the numbering of the deltas does.
TypeOK ==
    /\ RowsTyped
    /\ \A j \in Jobs : status[j] # "NONE" <=> \E i \in DOMAIN queue : queue[i] = j
    /\ \A i, k \in DOMAIN queue : queue[i] = queue[k] => i = k

\* The Story State grows by one analysis at a time: its ACTIVE rows are the
\* baseline, then E1 1, 2, 3, ... without a gap, a repeat or a step back,
\* whichever workers took over whose lease, and nothing follows the CLOSED
\* row.  (complete's "story state monotonicity violation" can never fire.)
StoryInOrder ==
    \A s \in Stories : \A i \in DOMAIN hist[s] :
        /\ hist[s][i].status = "ACTIVE" => hist[s][i].e1 = i - 1
        /\ hist[s][i].status = "CLOSED" => i = Len(hist[s])

\* Jones's decision is final: once a story is closed its history never changes
\* again, not even by a Grade whose provider call was in flight at the time.
ClosedIsFinal == [][\A s \in Stories : Closed(s) => hist'[s] = hist[s]]_vars

\* One durable identity per analysis: a job never has two REQUESTED attempts,
\* and every provider call and every VALIDATED row for it carries the manifest
\* of that attempt, across retries, take-overs, model changes and closures.
ProviderIdentity ==
    \A j \in Jobs :
        /\ \A a, b \in Requested(j) : a = b
        /\ \A c \in sent : c[1] = j =>
              [outcome |-> "REQUESTED", manifest |-> c[2]] \in attempts[j]
        /\ \A a \in attempts[j] : a.outcome = "VALIDATED" =>
              [outcome |-> "REQUESTED", manifest |-> a.manifest]
                  \in attempts[j]

\* A job is captured exactly once: after its capture is recorded it is never
\* pending or leased for capture again (project_a_analysis_captures.job_id is
\* UNIQUE), and no job is analysed, called out for or completed without it.
CaptureOnce ==
    \A j \in Jobs :
        /\ j \in captured =>
              /\ status[j] \notin {"NONE", "PENDING_CAPTURE"}
              /\ owner[j] \notin {"capture"} \X Workers
        /\ \/ status[j] \in {"CAPTURED", "COMPLETED"}
           \/ owner[j] \in {"analysis"} \X Workers
           \/ j \in results
           \/ \E c \in sent : c[1] = j
           => j \in captured

\* The E1 request that reaches the provider carries the Grade summaries of the
\* latest SummaryLimit analyses before it, all of which are already stored.
RequestCarriesPriors ==
    \A c \in sent : LatestSummaries(0..(c[1][2] - 1)) \subseteq c[2].memory.done

\* Closing the newest story never resurrects an older one: an E1 joins a story
\* only if no LIQ event between the two is known, and only an open story.
NewestStoryOnly ==
    [][\A s \in Stories, k \in 1..MaxE1, time \in E1Times :
          (status[<<s, k>>] = "NONE" /\ status'[<<s, k>>] # "NONE"
              /\ e1Events[time] # e1Events'[time]) =>
          /\ ~Closed(s)
          /\ \A t \in Stories : ~(srcTime[s] < srcTime[t] /\ srcTime[t] < time)
      ]_vars

\* If leases stop expiring, every job waiting for capture is captured, fails
\* for good, or belongs to a story Jones closed: a job whose captures keep
\* failing cannot starve the ones behind it.
CaptureSettles ==
    <>[][~\E w \in Workers, j \in Jobs : RequeueExpired(w, j)]_vars =>
        \A j \in Jobs : status[j] = "PENDING_CAPTURE" ~>
            \/ j \in captured
            \/ status[j] = "TECHNICAL_FAILURE"
            \/ Closed(j[1])

\* READ_ONLY_CAPTURE_SERVICE_RUNBOOK.md: failing captures "are quarantined as
\* TECHNICAL_FAILURE after five failed attempts".
QuarantinedAfterMaxAttempts ==
    \A j \in Jobs : status[j] = "PENDING_CAPTURE" => fails[j] < MaxAttempts

\* test_restart_reuses_provider_idempotency_key_without_duplicate_effect: the
\* job that a restarted worker completed is in inspect_jobs("COMPLETED").
ResultIsCompleted == \A j \in results : status[j] = "COMPLETED"

============================================================================
