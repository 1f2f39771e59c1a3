----------------------------- MODULE RawIngress ------------------------------
(***************************************************************************)
(* The raw producer adapter (ingest/project_a/raw_producer_adapter.py).    *)
(* A body that is received is looked up, checked, and taken in by one      *)
(* immediate transaction; a refusal is recorded by a second one.  Several  *)
(* receivers share the database, and the clock of a reception is read when *)
(* it begins.  Claims of research requests are transactions too, and their *)
(* workers are not part of the repository.                                 *)
(***************************************************************************)
EXTENDS EvidenceBundle

CONSTANTS
    Bodies,         \* the bytes that may be posted, named by their ingest id
    Content,        \* body -> [alert, large, repeated]
    Receivers, Workers,
    MaxClock, MaxPosts, MaxFaults,
    Nobody

VARIABLES
    clock,
    receipts,       \* project_a_producer_receipts: body -> [status, code]
    ledger,         \* project_a_producer_events: the bodies whose alert was accepted
    rows,           \* project_a_producer_state_history
    requests,       \* project_a_liq_research_requests
    statuses,       \* their status history: body -> sequence of [status, worker]
    triggers,       \* the bodies handed to enqueue_analysis_trigger
    receiver,       \* what each reception has got to
    worker,         \* the request each worker saw pending, or claimed
    answers,        \* what the producers were answered
    posts, faults   \* bounds

ingressVars == <<clock, receipts, ledger, rows, requests, statuses, triggers, receiver, worker, answers,
                 posts, faults>>
durable == <<receipts, ledger, rows, requests, statuses, triggers>>

Idle == [at |-> "idle"]

Init ==
    /\ clock = 0 /\ posts = 0 /\ faults = 0
    /\ receipts = <<>> /\ ledger = {} /\ rows = {} /\ requests = {} /\ statuses = <<>> /\ triggers = {}
    /\ receiver = [r \in Receivers |-> Idle]
    /\ worker = [w \in Workers |-> Idle]
    /\ answers = {}

----------------------------------------------------------------------------
\* Pure parts.

Alert(b) == Content[b].alert
Event(b) == Canonical(Alert(b))
Alerts(bodies) == {Alert(b) : b \in bodies}

\* Times, prices and counts that are well formed are integers.
Numbers == {"source_bar_time", "touch_count", "level_price", "market_price", "confirmed_5m_atr14",
            "mtf_confluence", "created_at_source"}

ASSUME ContentAssumption ==
    \A b \in Bodies :
        /\ Content[b].large \in BOOLEAN /\ Content[b].repeated \in BOOLEAN
        /\ \A f \in Numbers : Given(Alert(b), f) => Alert(b)[f] \in Int \cup {Bad}

\* detect_raw_producer: only a body that names an approved schema or producer
\* reaches the adapter.
Candidate(b) ==
    \/ Field(Alert(b), "schema") \in DOMAIN EventsOf
    \/ \E known \in DOMAIN Allowlist : known[2] = Field(Alert(b), "producer_id")

ExpectedTimeframe == [LIQ_V2 |-> "5m", EXP_V3 |-> "1m", EXP_SCANNER |-> "1m", RENKO_V3_SNIPER |-> "5s"]

\* _validate_source_authority
AuthorityFailure(e) ==
    LET timeframe == IF e.producer_id = "LIQ_V2" THEN e.anchor_timeframe ELSE e.timeframe
    IN FirstFailure(<<
        <<\/ e.symbol # "XAUUSD" \/ e.feed # "ICMARKETS"
          \/ timeframe # ExpectedTimeframe[e.producer_id], "SOURCE_AUTHORITY_MISMATCH">>,
        <<e.event = "LIQ_TOUCH" /\ Field(e, "touch_count") = 0, "INVALID_TOUCH_COUNT">> >>)

\* The refusals of receive that need no transaction.
BodyFailure(b) ==
    LET c == Content[b]
    IN CASE c.large -> "BODY_TOO_LARGE"
         [] ~c.large /\ c.repeated -> "DUPLICATE_JSON_KEY"
         [] ~c.large /\ ~c.repeated /\ ParseFailure(c.alert) # "OK" -> ParseFailure(c.alert)
         [] OTHER -> AuthorityFailure(Event(b))

\* The bodies that pass all of them reach a transaction.
Valid == {b \in Bodies : BodyFailure(b) = "OK"}

\* The identities of what is accepted are texts with an order, and what tells
\* two alerts apart tells their texts apart (a digest does).
ASSUME HashAssumption ==
    \A a, b \in Valid :
        /\ Hash(ProducerKey(Alert(a))) \in Nat
        /\ Hash(ProducerKey(Alert(a))) = Hash(ProducerKey(Alert(b))) =>
              ProducerKey(Alert(a)) = ProducerKey(Alert(b))

\* So are the identities of levels, and none of them is None.
ASSUME LevelAssumption ==
    \A b \in Valid :
        Alert(b).schema = "LIQUIDITY" => Hash(LevelId(Alert(b))) \in Nat /\ LevelKey(Event(b)) # NoLevel

\* _is_active_liq_touch, a gate of its own beside decide_trigger
ActiveTouch(e, now) ==
    /\ e.producer_id = "LIQ_V2" /\ e.producer_revision = "9" /\ e.event = "LIQ_TOUCH" /\ e.confirmed
    /\ e.symbol = "XAUUSD" /\ e.feed = "ICMARKETS" /\ e.anchor_timeframe = "5m"
    /\ e.freshness_status = "FRESH" /\ e.level_freshness_status = "FRESH"
    /\ e.market_price_freshness_status = "FRESH"
    /\ e.touch_count >= 1
    /\ 0 <= now - e.source_bar_time /\ now - e.source_bar_time <= MaxAge

\* _liq_research_evidence_key and _liq_touch_fingerprint
EvidenceKey(e) == <<e.level, e.touch_count, e.source_bar_time>>
TouchFingerprint(e) == [f \in DOMAIN e \ {"event_id", "emitted_at"} |-> e[f]]

\* Mutant: the touch count alone must advance.
AdvancesByCount(e, last) == e.touch_count > last.touch_count

\* A re-touch comes after the last request of its level in count and in time.
Advances(e, last) ==
    e.touch_count > last.touch_count /\ e.source_bar_time > last.source_bar_time

\* The touches of the level that were requested, and the last of them.
Requested(level) == {t \in {Event(q.body) : q \in requests} : t.level = level}
LatestOf(level) ==
    {t \in Requested(level) : \A o \in Requested(level) : o.touch_count <= t.touch_count}

SameEvidence(e) == {t \in Requested(e.level) : EvidenceKey(t) = EvidenceKey(e)}

TouchFailure(e) ==
    LET same == SameEvidence(e)
    IN IF \E t \in same : TouchFingerprint(t) # TouchFingerprint(e) THEN "LIQ_TOUCH_EVIDENCE_CONFLICT"
       ELSE IF same = {} /\ \E t \in LatestOf(e.level) : ~Advances(e, t) THEN "NON_MONOTONIC_LIQ_RETOUCH"
       ELSE "OK"

\* Mutant: an event id is taken for the event.
SameIdOnly(a, b) == ProducerKey(a) = ProducerKey(b)

\* The semantic hash covers the whole alert.
SameContent(a, b) == a = b

MissingFreshness ==
    [k \in {"xau", "atr_5m", "liquidity", "macd_1m", "macd_5m", "renko", "renko_fire", "dxy_15m",
            "htf_context"} |-> "MISSING"]

----------------------------------------------------------------------------
\* A reception.

Answer(r, b, http) ==
    /\ answers' = answers \cup {[body |-> b, http |-> http]}
    /\ receiver' = [receiver EXCEPT ![r] = Idle]

\* _result_from_receipt
HttpOf(status) == CASE status = "CONFLICT" -> 409 [] status = "REJECTED" -> 422 [] OTHER -> 200

Refused(r, b, status, code, http) ==
    receiver' = [receiver EXCEPT ![r] =
        [at |-> "refusing", body |-> b, status |-> status, code |-> code, http |-> http]]

\* A body is posted: the clock is read, its receipt is looked for in a
\* connection of its own, and the body is checked.
Post(r, b) ==
    /\ receiver[r] = Idle
    /\ posts < MaxPosts
    /\ Candidate(b)
    /\ posts' = posts + 1
    /\ IF b \in DOMAIN receipts THEN Answer(r, b, HttpOf(receipts[b].status))
       ELSE /\ UNCHANGED answers
            /\ IF b \in Valid
               THEN receiver' = [receiver EXCEPT ![r] = [at |-> "deciding", body |-> b, seen |-> clock]]
               ELSE Refused(r, b, "REJECTED", BodyFailure(b), IF Content[b].large THEN 413 ELSE 422)
    /\ UNCHANGED <<clock, durable, worker, faults>>

Received(b, status) == receipts' = Over([k \in {b} |-> [status |-> status, code |-> "OK"]], receipts)

\* Of the bundle a row keeps a digest: whose it is, and what was decided.
Digest(bundle) == [trigger |-> bundle.trigger, decision |-> bundle.decision]

\* The transaction accepts: event, state row, and for a touch that wakes the
\* research request with its first status; a wake and an E1 are handed on.
Accept(r, c) ==
    LET b == receiver[r].body
        e == Event(b)
        wakes == ActiveTouch(e, receiver[r].seen) /\ SameEvidence(e) = {}
    IN /\ Received(b, "ACCEPTED")
       /\ ledger' = ledger \cup {b}
       /\ rows' = rows \cup {[body |-> b, state |-> Snapshot(c.state), story |-> Story(c.state.expansions),
                              sense |-> c.sense.state, bundle |-> Digest(c.bundle)]}
       /\ requests' = IF wakes THEN requests \cup {[body |-> b, bundle |-> c.bundle]} ELSE requests
       /\ statuses' = IF wakes THEN Over([k \in {b} |-> <<[status |-> "PENDING", worker |-> Nobody]>>], statuses)
                      ELSE statuses
       /\ triggers' = IF wakes \/ e.event = "RENKO_E1" THEN triggers \cup {b} ELSE triggers
       /\ Answer(r, b, 200)

\* What the pipeline raises for other reasons than the alerts: a source that
\* is not the approved one, or a story that asks for a capture.
Broken(c) == c.failure = "SOURCE" \/ (c.failure = "OK" /\ c.sense.capture)

\* What the transaction does with the compiled state c.
Settle(r, c) ==
    LET b == receiver[r].body
        now == receiver[r].seen
        twins == {a \in Alerts(ledger) : ProducerKey(a) = ProducerKey(Alert(b))}
        duplicate == \E a \in twins : SameContent(a, Alert(b))
        failure == CASE twins # {} -> "EVENT_ID_CONFLICT"
                     [] twins = {} /\ c.failure # "OK" -> c.failure
                     [] twins = {} /\ c.failure = "OK" /\ ActiveTouch(Event(b), now) -> TouchFailure(Event(b))
                     [] OTHER -> "OK"
        broken == twins = {} /\ Broken(c)
    IN /\ \/ /\ b \in DOMAIN receipts
             /\ Answer(r, b, HttpOf(receipts[b].status))
             /\ UNCHANGED durable
          \/ /\ b \notin DOMAIN receipts /\ duplicate
             /\ Received(b, "DUPLICATE")
             /\ Answer(r, b, 200)
             /\ UNCHANGED <<ledger, rows, requests, statuses, triggers>>
          \/ /\ b \notin DOMAIN receipts /\ ~duplicate
             /\ IF failure = "OK" /\ ~broken THEN Accept(r, c)
                ELSE /\ IF broken THEN Refused(r, b, "REJECTED", "PRODUCER_ADAPTER_FAILURE", 503)
                        ELSE Refused(r, b, "CONFLICT", failure, 409)
                     /\ UNCHANGED <<durable, answers>>
       /\ UNCHANGED <<clock, worker, posts, faults>>

\* Everything receive does inside its transaction.
Decide(r) ==
    LET alert == Alert(receiver[r].body)
    IN /\ receiver[r].at = "deciding"
       /\ Settle(r, Compile(Append(Sorted(Alerts(ledger)), alert), alert.event_id, receiver[r].seen,
                            SourceAuthority, MissingFreshness))

\* The transaction, or what it calls, raises: a database that is busy.
Busy(r) ==
    /\ receiver[r].at = "deciding"
    /\ faults < MaxFaults
    /\ faults' = faults + 1
    /\ Refused(r, receiver[r].body, "REJECTED", "PRODUCER_ADAPTER_FAILURE", 503)
    /\ UNCHANGED <<clock, durable, worker, answers, posts>>

\* record_rejection writes no second receipt; the answer is what was decided
\* before, whatever the receipt says by now.
Refuse(r) ==
    LET p == receiver[r]
    IN /\ p.at = "refusing"
       /\ receipts' = IF p.body \in DOMAIN receipts THEN receipts
                      ELSE Over([k \in {p.body} |-> [status |-> p.status, code |-> p.code]], receipts)
       /\ Answer(r, p.body, p.http)
       /\ UNCHANGED <<clock, ledger, rows, requests, statuses, triggers, worker, posts, faults>>

\* Of an adapter failure the record may be missing: the database that was
\* busy still is, which is the same fault and counts no other.
RefuseUnrecorded(r) ==
    /\ receiver[r].at = "refusing" /\ receiver[r].http = 503
    /\ Answer(r, receiver[r].body, 503)
    /\ UNCHANGED <<clock, durable, worker, posts, faults>>

\* A receiver stops: nothing of an open transaction stays, nobody is answered.
Stop(r) ==
    /\ receiver[r] # Idle
    /\ faults < MaxFaults
    /\ faults' = faults + 1
    /\ receiver' = [receiver EXCEPT ![r] = Idle]
    /\ UNCHANGED <<clock, durable, worker, answers, posts>>

Receive(r) ==
    \/ \E b \in Bodies : Post(r, b)
    \/ Decide(r) \/ Busy(r) \/ Refuse(r) \/ RefuseUnrecorded(r) \/ Stop(r)

----------------------------------------------------------------------------
\* Research.

\* pending_research_requests, read some time before the claim.
See(w, q) ==
    /\ worker[w] = Idle
    /\ Last(statuses[q.body]).status = "PENDING"
    /\ worker' = [worker EXCEPT ![w] = [at |-> "seen", body |-> q.body]]
    /\ UNCHANGED <<clock, durable, receiver, answers, posts, faults>>

Report(w, b, status) ==
    statuses' = [statuses EXCEPT ![b] = Append(@, [status |-> status, worker |-> w])]

\* claim_research_request
Claim(w) ==
    LET b == worker[w].body
        free == Last(statuses[b]).status = "PENDING"
    IN /\ worker[w].at = "seen"
       /\ worker' = [worker EXCEPT ![w] = IF free THEN [at |-> "claimed", body |-> b] ELSE Idle]
       /\ IF free THEN Report(w, b, "CLAIMED") ELSE UNCHANGED statuses
       /\ UNCHANGED <<clock, receipts, ledger, rows, requests, triggers, receiver, answers, posts, faults>>

\* record_research_result
Finish(w, status) ==
    /\ worker[w].at = "claimed"
    /\ Last(statuses[worker[w].body]) = [status |-> "CLAIMED", worker |-> w]
    /\ Report(w, worker[w].body, status)
    /\ worker' = [worker EXCEPT ![w] = Idle]
    /\ UNCHANGED <<clock, receipts, ledger, rows, requests, triggers, receiver, answers, posts, faults>>

Work(w) ==
    \/ \E q \in requests : See(w, q)
    \/ Claim(w)
    \/ \E status \in {"COMPLETED", "FAILED"} : Finish(w, status)

Tick ==
    /\ clock < MaxClock
    /\ clock' = clock + 1
    /\ UNCHANGED <<durable, receiver, worker, answers, posts, faults>>

Next == (\E r \in Receivers : Receive(r)) \/ (\E w \in Workers : Work(w)) \/ Tick

Spec == Init /\ [][Next]_ingressVars

----------------------------------------------------------------------------
\* Whoever is told that an alert was accepted finds that very alert on the
\* ledger: not another one under its id, and not one whose transaction was
\* rolled back (receive, lines 616-643 and 682-694; the answers that come from
\* receipts and those that race a refusal of the same body included).
AcceptedIsOnLedger == \A a \in answers : a.http = 200 => \E b \in ledger : Alert(b) = Alert(a.body)

\* However late or out of order the alerts arrived, the numeric state that is
\* rebuilt from the ledger in the order of the SELECT (lines 645-657) fails at
\* none of them, and no two claim one id; otherwise every later alert would be
\* refused too.
LedgerReplays ==
    /\ Rebuild(Alerts(ledger)).failure = "OK"
    /\ \A a, b \in Alerts(ledger) : ProducerKey(a) = ProducerKey(b) => a = b

\* A level is tracked only for the story told last: on the side the movement
\* goes to, while the level lives; and the changes alternate (_rebuild, lines
\* 868-993).
TrackedFollowsStory ==
    \A row \in rows :
        LET s == row.state
        IN /\ s.tracked # NoLevel =>
                 /\ s.lifecycles[s.tracked] \in ActiveLifecycles
                 /\ \E b \in ledger : /\ Alert(b).schema = "LIQUIDITY" /\ LevelKey(Event(b)) = s.tracked
                                     /\ ExpectedExpansion(Alert(b).side) = row.story
           /\ \A i \in DOMAIN s.changes :
                 s.changes[i].what = IF i % 2 = 1 THEN Selected ELSE Released
           /\ (s.tracked # NoLevel) = (Len(s.changes) % 2 = 1)

\* The bundle is the alert's own, or that of an alert with the same id which
\* comes before it in the history: only another producer can have sent that.
ForItself(x) == x.bundle.trigger = ProducerKey(Alert(x.body))
ForTheFirst(x) ==
    \E a \in Alerts(ledger) :
        /\ ProducerKey(a) = x.bundle.trigger /\ a.event_id = Alert(x.body).event_id
        /\ Earlier(a, Alert(x.body))

\* The adapter's own test of a touch (lines 528-545) and the one the bundle is
\* compiled with (evidence_bundle.py, lines 551-598) agree in every state: a
\* research request was handed to the analysis with a bundle that asks for
\* every picture, and no bundle asks for a capture that nobody requested.  The
\* two tests are made on one event unless an alert of another producer with
\* the same id comes first on the ledger (section2_pipeline.py, line 161).
WakeCarriesCapture ==
    /\ \A q \in requests :
          /\ q.body \in triggers
          /\ IF ForItself(q) THEN q.bundle.decision.capture /\ q.bundle.screenshots = ScreenshotRoles
             ELSE ForTheFirst(q)
    /\ \A row \in rows :
          IF ForItself(row) THEN row.bundle.decision.capture => SameEvidence(Event(row.body)) # {}
          ELSE ForTheFirst(row)

\* Touches of one level wake research in the order of their counts and times,
\* whatever the order they arrived in (lines 710-752) ...
TouchesAdvance ==
    \A p, q \in {Event(request.body) : request \in requests} :
        p.level = q.level /\ p # q =>
            /\ p.touch_count # q.touch_count
            /\ p.touch_count < q.touch_count <=> p.source_bar_time < q.source_bar_time

\* ... and of the workers that saw a request pending, one claims it and alone
\* reports its result (lines 369-439).
OneWorkerEach ==
    \A b \in DOMAIN statuses :
        LET said == statuses[b]
        IN /\ Len(said) <= 3 /\ said[1].status = "PENDING"
           /\ Len(said) >= 2 => said[2].status = "CLAIMED"
           /\ Len(said) = 3 => said[3].status \in {"COMPLETED", "FAILED"} /\ said[3].worker = said[2].worker

\* Each touch of a level is researched once, in turn, by one worker.
OneWakePerTouch == TouchesAdvance /\ OneWorkerEach
=============================================================================
