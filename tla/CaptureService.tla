--------------------------- MODULE CaptureService ---------------------------
(***************************************************************************)
(* The read-only capture service (project_a_capture_service): tool calls   *)
(* that share one rate window and one capture lock, the ledger of requests *)
(* and results, the evidence on disk, and a browser that its operator uses *)
(* while it is being read.                                                 *)
(***************************************************************************)
EXTENDS CaptureReads

CONSTANTS
    Callers,         \* MCP calls in flight
    Jobs,            \* request identifiers
    Documents,       \* requests a job may be called with
    Views,           \* role -> ViewPlan
    Pages,           \* role -> pages the browser may show there
    RateLimit,       \* CAPTURE_RATE_LIMIT (4)
    RateWindow,      \* CAPTURE_RATE_WINDOW_SECONDS (60)
    Timeout,         \* engine.timeout_seconds (45)
    MaxClock,        \* bound: the clock
    MaxCalls,        \* bound: calls made
    MaxChanges,      \* bound: changes of the browser
    MaxCrashes,      \* bound: crashes
    Nobody, None

VARIABLES
    clock,
    window,      \* CaptureRateLimiter._calls
    semaphore,   \* the worker that captures, or Nobody
    calls,       \* caller -> what its worker is doing
    made,        \* calls made
    requests,    \* capture_requests: job -> document
    results,     \* capture_results: job -> result
    trail,       \* capture_audit, as the set of what it says of each job
    images,      \* image files: <<job, role, page, whole>>
    resultFiles, \* result.json: job -> None, "truncated" or its result
    served,      \* job -> results returned to a caller
    browser,     \* role -> page
    changes,     \* how often the identity of a page changed
    crashes

ASSUME NobodyAssumption == Nobody \notin Callers

captureVars == <<clock, window, semaphore, calls, made, requests, results, trail,
                 images, resultFiles, served, browser, changes, crashes>>
ledger == <<requests, results, trail>>
disk == <<images, resultFiles>>
limiter == <<window, made>>
world == <<clock, browser, changes, crashes>>

Roles == DOMAIN Views

ASSUME RolesAssumption == \A d \in Documents : d.roles \subseteq Roles

ASSUME TimesAssumption ==
    /\ Limits.quote \in Int /\ Timeout \in Int
    /\ \A r \in Roles : \A page \in Pages[r] : \A chart \in page.charts : chart.quote.time \in Int

NoPages == [r \in Roles |-> None]
IdleCall == [pc |-> "idle", job |-> None, document |-> None, attached |-> FALSE, started |-> 0,
             firstRead |-> 0, lastRead |-> 0, todo |-> {}, before |-> NoPages, after |-> NoPages, shots |-> NoPages,
             seen |-> 0, result |-> None]

Init ==
    /\ clock = 0 /\ window = <<>> /\ semaphore = Nobody /\ made = 0
    /\ calls = [c \in Callers |-> IdleCall]
    /\ requests = [j \in Jobs |-> None]
    /\ results = [j \in Jobs |-> None]
    /\ trail = {}
    /\ images = {}
    /\ resultFiles = [j \in Jobs |-> None]
    /\ served = [j \in Jobs |-> {}]
    /\ browser \in [Roles -> UNION {Pages[r] : r \in Roles}]
    /\ \A r \in Roles : browser[r] \in Pages[r]
    /\ changes = 0 /\ crashes = 0

CallAt(c, pc) == calls[c].pc = pc
Proceed(c, pc) == calls' = [calls EXCEPT ![c].pc = pc]
PlanRoles(c) == calls[c].document.roles

\* The worker ends, however it ends, and gives the capture lock back.
End(c) ==
    /\ calls' = [calls EXCEPT ![c] = IdleCall]
    /\ semaphore' = IF semaphore = c THEN Nobody ELSE semaphore

Audited(c, action) == trail' = trail \cup {<<calls[c].job, action>>}

\* A CaptureFailure of the capture proper is recorded and raised.
Fail(c) ==
    /\ End(c)
    /\ Audited(c, "CAPTURE_FAILED")
    /\ UNCHANGED <<limiter, requests, results, disk, served, world>>

----------------------------------------------------------------------------
\* CaptureRateLimiter.acquire
Recent == SelectSeq(window, LAMBDA t : t > clock - RateWindow)

Accepted(c, j, d) ==
    /\ CallAt(c, "idle") /\ made < MaxCalls
    /\ Len(Recent) < RateLimit
    /\ window' = Append(Recent, clock)
    /\ made' = made + 1
    /\ calls' = [calls EXCEPT ![c] = [IdleCall EXCEPT !.pc = "queued", !.job = j,
                                                       !.document = d, !.attached = TRUE]]
    /\ UNCHANGED <<semaphore, ledger, disk, served, world>>

RateLimited(c) ==
    /\ CallAt(c, "idle") /\ made < MaxCalls
    /\ Len(Recent) >= RateLimit
    /\ window' = Recent
    /\ made' = made + 1
    /\ UNCHANGED <<semaphore, calls, ledger, disk, served, world>>

\* run_serialized_capture: one worker at a time.
Enter(c) ==
    /\ CallAt(c, "queued") /\ semaphore = Nobody
    /\ semaphore' = c
    /\ calls' = [calls EXCEPT ![c].pc = "begin", ![c].started = clock]
    /\ UNCHANGED <<limiter, ledger, disk, served, world>>

\* Mutant: the cancelled call gives the lock back while its thread runs.
CancelReleases(c) ==
    /\ calls[c].attached
    /\ calls' = [calls EXCEPT ![c].attached = FALSE]
    /\ semaphore' = IF semaphore = c THEN Nobody ELSE semaphore
    /\ UNCHANGED <<limiter, ledger, disk, served, world>>

\* The caller disconnects.  A waiting call ends; a running worker is
\* shielded, keeps the lock and completes without anyone to answer.
Cancel(c) ==
    /\ calls[c].attached
    /\ calls' = [calls EXCEPT ![c] = IF CallAt(c, "queued") THEN IdleCall
                                     ELSE [@ EXCEPT !.attached = FALSE]]
    /\ UNCHANGED <<semaphore, limiter, ledger, disk, served, world>>

\* capture: the age of the event, then begin_request.  The request stays
\* in the ledger when its plan is refused.
TooOld(c) ==
    LET age == clock - calls[c].document.event IN age < -Limits.skew \/ age > Limits.event

Conflict(c) == requests[calls[c].job] \notin {None, calls[c].document}

ReplayConflict(c) ==
    /\ CallAt(c, "begin") /\ ~TooOld(c) /\ Conflict(c)
    /\ Audited(c, "REQUEST_REPLAY_CONFLICT")
    /\ End(c)
    /\ UNCHANGED <<limiter, requests, results, disk, served, world>>

\* What is raised before the capture proper, or is not a CaptureFailure,
\* leaves no record.
Expired(c) ==
    /\ CallAt(c, "begin") /\ TooOld(c)
    /\ End(c)
    /\ UNCHANGED <<limiter, ledger, disk, served, world>>

Replay(c) ==
    /\ CallAt(c, "begin") /\ ~TooOld(c) /\ ~Conflict(c)
    /\ results[calls[c].job] # None
    /\ Proceed(c, "replay")
    /\ UNCHANGED <<semaphore, limiter, ledger, disk, served, world>>

AcceptRequest(c) ==
    LET j == calls[c].job IN
    /\ CallAt(c, "begin") /\ ~TooOld(c) /\ ~Conflict(c)
    /\ results[j] = None
    /\ requests' = [requests EXCEPT ![j] = calls[c].document]
    /\ IF requests[j] = None THEN Audited(c, "REQUEST_ACCEPTED") ELSE UNCHANGED trail
    /\ IF calls[c].document.plan THEN Proceed(c, "discover") /\ UNCHANGED semaphore ELSE End(c)
    /\ UNCHANGED <<limiter, results, disk, served, world>>

Whole(j, result) == \A r \in DOMAIN result.shots : <<j, r, result.shots[r], TRUE>> \in images

\* _load_replay: the ledger is the authority and restores a lost or
\* damaged result.json; an image cannot be restored.
LoadReplay(c) ==
    LET j == calls[c].job IN
    /\ CallAt(c, "replay")
    /\ resultFiles' = [resultFiles EXCEPT ![j] = results[j]]
    /\ served' = IF Whole(j, results[j]) /\ calls[c].attached
                 THEN [served EXCEPT ![j] = @ \cup {results[j]}] ELSE served
    /\ End(c)
    /\ UNCHANGED <<limiter, ledger, images, world>>

----------------------------------------------------------------------------
\* Mutant: the browser may take as long as it likes.
NeverLate(c) == FALSE

\* _bounded: nothing is read of the browser after the deadline.
Late(c) == clock > calls[c].started + Timeout

TimedOut(c) == calls[c].pc \in {"before", "shoot", "after"} /\ Late(c) /\ Fail(c)

Targets == {[role |-> r, layout |-> browser[r].layout] : r \in Roles}

\* discover and select_targets; a result.json no ledger row knows is fatal.
DiscoverFailure(c) ==
    FirstFailure(<<
        <<resultFiles[calls[c].job] # None, "ARTIFACT_IDENTITY_CONFLICT">>,
        <<\E r \in PlanRoles(c) : SelectFailure(Views[r], Targets) # "OK", "TARGET_REFUSED">> >>)

Discover(c) ==
    /\ CallAt(c, "discover")
    /\ IF DiscoverFailure(c) # "OK" THEN Fail(c)
       ELSE /\ calls' = [calls EXCEPT ![c].pc = "before", ![c].todo = PlanRoles(c),
                                      ![c].firstRead = clock, ![c].seen = changes]
            /\ UNCHANGED <<semaphore, limiter, ledger, disk, served, world>>

\* _snapshots: one page after the other, judged by the time of the first.
ReadBefore(c, r) ==
    /\ CallAt(c, "before") /\ ~Late(c) /\ r \in calls[c].todo
    /\ IF ViewFailure(Views[r], browser[r], calls[c].firstRead) # "OK" THEN Fail(c)
       ELSE /\ calls' = [calls EXCEPT ![c].before[r] = browser[r], ![c].todo = @ \ {r},
                                      ![c].pc = IF calls[c].todo = {r} THEN "shoot" ELSE @]
            /\ UNCHANGED <<semaphore, limiter, ledger, disk, served, world>>

\* Mutant: a file of the right name is taken for the image.
AnyFile(c, r) == FALSE

\* _write_immutable finds a file of this name that a crash truncated.
Damaged(c, r) == <<calls[c].job, r, browser[r], FALSE>> \in images

Shoot(c, r) ==
    /\ CallAt(c, "shoot") /\ ~Late(c) /\ r \in PlanRoles(c) /\ calls[c].shots[r] = None
    /\ IF Damaged(c, r) THEN Fail(c)
       ELSE /\ images' = IF <<calls[c].job, r, browser[r], FALSE>> \in images THEN images
                         ELSE images \cup {<<calls[c].job, r, browser[r], TRUE>>}
            /\ calls' = [calls EXCEPT ![c].shots[r] = browser[r]]
            /\ UNCHANGED <<semaphore, limiter, ledger, resultFiles, served, world>>

LookAgain(c) ==
    /\ CallAt(c, "shoot") /\ \A r \in PlanRoles(c) : calls[c].shots[r] # None
    /\ calls' = [calls EXCEPT ![c].pc = "after", ![c].todo = PlanRoles(c), ![c].lastRead = clock]
    /\ UNCHANGED <<semaphore, limiter, ledger, disk, served, world>>

ReadAfter(c, r) ==
    /\ CallAt(c, "after") /\ ~Late(c) /\ r \in calls[c].todo
    /\ IF ViewFailure(Views[r], browser[r], calls[c].lastRead) # "OK" THEN Fail(c)
       ELSE /\ calls' = [calls EXCEPT ![c].after[r] = browser[r], ![c].todo = @ \ {r},
                                      ![c].pc = IF calls[c].todo = {r} THEN "compile" ELSE @]
            /\ UNCHANGED <<semaphore, limiter, ledger, disk, served, world>>

\* Mutant: the pages are not compared.
NeverMoved(c) == FALSE

Moved(c) ==
    \E r \in PlanRoles(c) : Fingerprint(calls[c].before[r]) # Fingerprint(calls[c].after[r])

\* The views a current price is read from.
QuotedRoles(c) == {r \in PlanRoles(c) : Views[r].quoted}

\* The pages are compared, and the numbers read from those seen first.
CompileFailure(c) ==
    FirstFailure(<<
        <<Moved(c), "BROWSER_STATE_CHANGED">>,
        <<\E r \in QuotedRoles(c) :
            FieldsFailure(Views[r], calls[c].before[r], calls[c].firstRead, calls[c].document.level) # "OK",
          "STRUCTURED_READ_INCOMPLETE">> >>)

Result(c) ==
    [shots |-> [r \in PlanRoles(c) |-> calls[c].shots[r]],
     views |-> [r \in PlanRoles(c) |-> calls[c].before[r]],
     fields |-> UNION {Fields(calls[c].before[r], calls[c].document.level) : r \in QuotedRoles(c)},
     lastRead |-> calls[c].lastRead, moves |-> changes - calls[c].seen]

Compile(c) ==
    /\ CallAt(c, "compile")
    /\ IF CompileFailure(c) # "OK" THEN Fail(c)
       ELSE /\ calls' = [calls EXCEPT ![c] = [IdleCall EXCEPT
                  !.pc = "commit", !.job = calls[c].job, !.document = calls[c].document,
                  !.attached = calls[c].attached, !.result = Result(c)]]
            /\ UNCHANGED <<semaphore, limiter, ledger, disk, served, world>>

\* Mutant: the result is written and released and never committed.
NoCommit(c) ==
    /\ CallAt(c, "commit")
    /\ Proceed(c, "write")
    /\ UNCHANGED <<semaphore, limiter, ledger, disk, served, world>>

\* record_result: the ledger is first, and a different result is refused.
Commit(c) ==
    LET j == calls[c].job IN
    /\ CallAt(c, "commit")
    /\ IF results[j] = None
       THEN /\ results' = [results EXCEPT ![j] = calls[c].result]
            /\ Audited(c, "CAPTURE_COMPLETED")
            /\ Proceed(c, "write")
            /\ UNCHANGED <<semaphore, limiter, requests, disk, served, world>>
       ELSE Fail(c)

\* result.json follows, and the result is returned to a caller still there.
WriteResult(c) ==
    LET j == calls[c].job IN
    /\ CallAt(c, "write")
    /\ resultFiles' = [resultFiles EXCEPT ![j] = calls[c].result]
    /\ served' = IF calls[c].attached THEN [served EXCEPT ![j] = @ \cup {calls[c].result}] ELSE served
    /\ End(c)
    /\ UNCHANGED <<limiter, ledger, images, world>>

\* The browser or a file refuses with another exception, unrecorded; after the
\* commit it may leave result.json truncated.
Escape(c) ==
    /\ calls[c].pc \in {"discover", "before", "shoot", "after", "write"}
    /\ \/ UNCHANGED resultFiles
       \/ /\ CallAt(c, "write")
          /\ resultFiles' = [resultFiles EXCEPT ![calls[c].job] = "truncated"]
    /\ End(c)
    /\ UNCHANGED <<limiter, ledger, images, served, world>>

BrowserRefuses(c) == calls[c].pc \in {"discover", "before", "shoot", "after"} /\ Fail(c)

----------------------------------------------------------------------------
Tick ==
    /\ clock < MaxClock
    /\ clock' = clock + 1
    /\ UNCHANGED <<semaphore, calls, limiter, ledger, disk, served, browser, changes, crashes>>

\* The operator turns to another page, or prices move on the same one.
BrowserChanges(r) ==
    /\ \E page \in Pages[r] \ {browser[r]} :
         /\ browser' = [browser EXCEPT ![r] = page]
         /\ IF Identity(page) = Identity(browser[r]) THEN UNCHANGED changes
            ELSE changes < MaxChanges /\ changes' = changes + 1
    /\ UNCHANGED <<clock, semaphore, calls, limiter, ledger, disk, served, crashes>>

\* The image files that are being written.
Unfinished ==
    {<<calls[c].job, r, browser[r], FALSE>> : c \in {d \in Callers : CallAt(d, "shoot")}, r \in Roles}

\* The service stops: the workers, the rate window and the lock are lost,
\* and a file that was being written is truncated.
Crash ==
    /\ crashes < MaxCrashes
    /\ \E c \in Callers : ~CallAt(c, "idle")
    /\ crashes' = crashes + 1
    /\ calls' = [c \in Callers |-> IdleCall]
    /\ semaphore' = Nobody /\ window' = <<>>
    /\ \E torn \in SUBSET Unfinished :
         /\ Cardinality(torn) <= 1
         /\ images' = images \cup {t \in torn : <<t[1], t[2], t[3], TRUE>> \notin images}
    /\ resultFiles' = [j \in Jobs |->
           IF \E c \in Callers : CallAt(c, "write") /\ calls[c].job = j THEN "truncated" ELSE resultFiles[j]]
    /\ UNCHANGED <<clock, made, ledger, served, browser, changes>>

Worker(c) ==
    \/ Enter(c) \/ Expired(c) \/ ReplayConflict(c) \/ Replay(c) \/ AcceptRequest(c) \/ LoadReplay(c)
    \/ Discover(c) \/ TimedOut(c) \/ LookAgain(c)
    \/ \E r \in Roles : ReadBefore(c, r) \/ Shoot(c, r) \/ ReadAfter(c, r)
    \/ Compile(c) \/ Commit(c) \/ WriteResult(c) \/ Escape(c) \/ BrowserRefuses(c)

Next ==
    \/ \E c \in Callers :
         \/ \E j \in Jobs, d \in Documents : Accepted(c, j, d)
         \/ RateLimited(c) \/ Cancel(c) \/ Worker(c)
    \/ \E r \in Roles : BrowserChanges(r)
    \/ Tick \/ Crash

Spec == Init /\ [][Next]_captureVars

----------------------------------------------------------------------------
Store == INSTANCE WriteOnce WITH
    Keys <- Jobs, Nothing <- None, value <- results

\* The ledger promises one result per request, whatever is cancelled,
\* retried or restarted, and every caller is answered with it.
OneResultPerRequest == Store!Spec

\* A committed result can be served again: the images it names are on disk
\* and complete, also after a crash tore one of them.
ResultsReplayable == \A j \in Jobs : results[j] # None => Whole(j, results[j])

\* One change of the browser between the first and the last look at it
\* never reaches a result: if an image shows another page than the numbers
\* were read from, the browser changed and changed back.
ImagesShowTheViews ==
    \A j \in Jobs : results[j] # None =>
        \/ \A r \in DOMAIN results[j].shots :
             Identity(results[j].shots[r]) = Identity(results[j].views[r])
        \/ results[j].moves >= 2

\* The deadline bounds the age of a released quote, which is only checked
\* when the page is first read.
QuotesFresh ==
    \A j \in Jobs : results[j] # None =>
        \A f \in results[j].fields : results[j].lastRead - f.quoteTime <= Limits.quote + Timeout

\* One thread at a time reads the browser, also when its caller has gone.
OneCaptureAtATime ==
    Cardinality({c \in Callers : calls[c].pc \notin {"idle", "queued"}}) <= 1
=============================================================================
