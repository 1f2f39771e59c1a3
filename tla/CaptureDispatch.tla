--------------------------- MODULE CaptureDispatch ---------------------------
(***************************************************************************)
(* A dispatched event is captured and compiled (capture/project_a):        *)
(* consumer.py keeps the ledger of the attempts of a dispatch, and its     *)
(* handler captures the chart (coordinator.py, cdp.py, artifacts.py),      *)
(* compiles the request (compiler.py) and writes the bundle (replay.py),   *)
(* as cli.py does.  Deliveries repeat, the consumer may stop anywhere, and *)
(* the chart belongs to an operator who may touch it.                      *)
(***************************************************************************)
EXTENDS ChartChecks

CONSTANTS
    Events,          \* canonical events that one dispatch_id may carry
    EventOf,         \* event -> its fields and those of its adapter
    Profiles,        \* capture profiles the consumer may be configured with
    ProfileOf,       \* profile -> its fields
    TabPins,         \* tab pins it may be given
    Endpoints,       \* what the probe may find
    Polls,           \* max_observations of one switch
    StableSamples,   \* required_stable_samples (2)
    MaxRetries,      \* bound: retry counts
    MaxTime,         \* bound: the clock
    MaxTouches,      \* bound: touches of the operator
    MaxDeliveries,   \* bound: deliveries, and so the stops that end them
    Never            \* no ledger record

VARIABLES
    time,
    dispatch,    \* the record of the dispatch, or Never
    store,       \* attempt -> its directory
    probeFile,   \* .write_probe exists
    chart,       \* what the pinned tab shows: symbol, timeframe, header
    capture,     \* what the consumer is doing
    answers,     \* completed results returned
    touches, deliveries

ASSUME BoundsAssumption == MaxTime \in Nat /\ MaxRetries \in Nat

dispatchVars == <<time, dispatch, store, probeFile, chart, capture, answers,
                  touches, deliveries>>
bounds == <<time, touches, deliveries>>

NoManifest == [status |-> "NONE", artifacts |-> {}]
TornManifest == [status |-> "TORN", artifacts |-> {}]
Attempts == Events \X Profiles \X (0 .. MaxRetries) \X (0 .. MaxTime)
Resting == [pc |-> "idle", event |-> Never, retry |-> 0, profile |-> Never, pin |-> Never,
            started |-> 0, at |-> 0, stable |-> 0, polls |-> 0, touched |-> 0,
            failed |-> FALSE, taken |-> {}, restoring |-> FALSE, restored |-> FALSE]

DispatchInit ==
    /\ time = 0 /\ dispatch = Never /\ probeFile = FALSE
    /\ store = [a \in Attempts |->
                  [images |-> {}, manifest |-> NoManifest, bundle |-> <<>>, torn |-> FALSE]]
    /\ chart = [symbol |-> "XAUUSD", timeframe |-> Base, header |-> Base]
    /\ capture = Resting
    /\ answers = {}
    /\ touches = 0 /\ deliveries = 0

Doing(pc) == capture.pc = pc
Event == EventOf[capture.event]
Profile == ProfileOf[capture.profile]
\* The directory of an attempt is named by all that it is an attempt of.
This == <<capture.event, capture.profile, capture.retry, capture.started>>

\* Driver.inspect: the structured state, and what the header shows.
Inspect ==
    [targets |-> {"tab"}, authenticated |-> TRUE, url |-> "chart", layout |-> "layout", charts |-> 1,
     alias |-> <<"ICMARKETS", chart.symbol>>, timeframe |-> chart.timeframe,
     header |-> [regions |-> 1, candidates |->
         {[visible |-> TRUE, kind |-> "symbol", value |-> chart.symbol],
          [visible |-> TRUE, kind |-> "feed", value |-> "ICMARKETS"],
          [visible |-> TRUE, kind |-> "timeframe", value |-> chart.header]}],
     ready |-> TRUE, modal |-> FALSE, streaming |-> TRUE, switchable |-> TRUE, bar |-> 0]

----------------------------------------------------------------------------
\* consume_dispatch

\* Mutant: a completed dispatch is looked up by its retry count alone.
KnownRetry(e, retry) ==
    dispatch # Never /\ dispatch.event = e /\ \E a \in dispatch.attempts : a.retry = retry

\* A delivery the ledger can answer: of a completed dispatch, or of a retry
\* that was recorded.
Known(e, retry) ==
    /\ dispatch # Never /\ dispatch.event = e
    /\ dispatch.status = "COMPLETED" \/ \E a \in dispatch.attempts : a.retry = retry

RetryCounts == {a.retry : a \in dispatch.attempts}

RefusalOf(e, retry) ==
    FirstFailure(<<
        <<AnalysisReadyFailure(EventOf[e]) # "OK", "SOURCE_INVALID">>,
        <<dispatch # Never /\ dispatch.event # e, "DISPATCH_CONFLICT">>,
        <<dispatch # Never /\ \E r \in RetryCounts : retry <= r, "RETRY_SEQUENCE_INVALID">> >>)

Refuse(e, retry) ==
    /\ Doing("idle") /\ deliveries < MaxDeliveries
    /\ ~Known(e, retry) /\ RefusalOf(e, retry) # "OK"
    /\ deliveries' = deliveries + 1
    /\ UNCHANGED <<time, dispatch, store, probeFile, chart, capture, answers, touches>>

\* A repeated delivery is answered from the ledger.
AnswerAgain(e, retry) ==
    /\ Doing("idle") /\ deliveries < MaxDeliveries
    /\ Known(e, retry)
    /\ answers' = IF dispatch.status = "COMPLETED" THEN answers \cup {dispatch.result} ELSE answers
    /\ deliveries' = deliveries + 1
    /\ UNCHANGED <<time, dispatch, store, probeFile, chart, capture, touches>>

\* The age is that of the request, which the envelope states.
Accept(e, retry, requested, profile, pin) ==
    /\ Doing("idle") /\ deliveries < MaxDeliveries
    /\ ~Known(e, retry) /\ RefusalOf(e, retry) = "OK"
    /\ deliveries' = deliveries + 1
    /\ capture' = [Resting EXCEPT
           !.pc = IF HasExpired(EventOf[e], requested) THEN "record" ELSE "begin",
           !.failed = HasExpired(EventOf[e], requested),
           !.event = e, !.retry = retry, !.profile = profile, !.pin = pin]
    /\ UNCHANGED <<time, dispatch, store, probeFile, chart, answers, touches>>

Outcome == IF capture.failed THEN "FAILED" ELSE "COMPLETED"

\* ledger.save replaces the file atomically.
RecordAttempt ==
    /\ Doing("record")
    /\ dispatch' = [event |-> capture.event, status |-> Outcome,
                  attempts |-> (IF dispatch = Never THEN {} ELSE dispatch.attempts)
                                  \cup {[retry |-> capture.retry, status |-> Outcome]},
                  result |-> IF Outcome = "COMPLETED" THEN This ELSE Never]
    /\ capture' = IF Outcome = "COMPLETED" THEN [capture EXCEPT !.pc = "answer"] ELSE Resting
    /\ UNCHANGED <<store, probeFile, chart, answers, bounds>>

Answer ==
    /\ Doing("answer")
    /\ answers' = answers \cup {This}
    /\ capture' = Resting
    /\ UNCHANGED <<dispatch, store, probeFile, chart, bounds>>

----------------------------------------------------------------------------
\* capture_event

\* The ledger learns of a failed attempt only that it failed.
FailAttempt ==
    capture' = [Resting EXCEPT !.pc = "record", !.failed = TRUE, !.event = capture.event,
                               !.profile = capture.profile, !.retry = capture.retry]

BeginFailure ==
    FirstFailure(<<
        <<ActivationFailure(Profile) # "OK", "RUNTIME_ACTIVATION_DISABLED">>,
        <<AnalysisReadyFailure(Event) # "OK", "SOURCE_INVALID">>,
        <<ChronologyFailure(Event, time) # "OK", "SOURCE_INVALID">>,
        <<probeFile, "DESTINATION_UNWRITABLE">> >>)

\* writable() creates a probe file, which must not exist ...
Begin ==
    /\ Doing("begin")
    /\ IF BeginFailure # "OK" THEN FailAttempt /\ UNCHANGED probeFile
       ELSE /\ probeFile' = TRUE
            /\ capture' = [capture EXCEPT !.pc = "probe", !.started = time]
    /\ UNCHANGED <<dispatch, store, chart, answers, bounds>>

\* ... and removes it, if it can.
Probe ==
    /\ Doing("probe")
    /\ \/ probeFile' = FALSE /\ capture' = [capture EXCEPT !.pc = "preflight"]
       \/ UNCHANGED probeFile /\ FailAttempt
    /\ UNCHANGED <<dispatch, store, chart, answers, bounds>>

\* Whatever fails behind the driver, the base timeframe is restored; without
\* a driver there is nothing to restore with.
Stage(pc) == [capture EXCEPT !.pc = pc, !.stable = 0, !.polls = 0]
Restore(failed) ==
    [Stage("switch") EXCEPT !.restoring = TRUE, !.failed = failed, !.at = 0, !.touched = 0]
Undriven == [Stage("finalize") EXCEPT !.failed = TRUE]

\* The probe refuses the endpoint or no driver is entered; or one is, and the
\* first look fails or is refused; or the capture goes on.
Preflight ==
    /\ Doing("preflight")
    /\ \E endpoint \in Endpoints :
         LET targets == {[id |-> "tab", type |-> "page", url |-> "chart"]}
             driven == /\ ProbeFailure(endpoint) = "OK"
                       /\ EntryFailure(Profile, capture.pin, targets) = "OK"
             failure == PreflightFailure(Profile, capture.pin, Event, endpoint,
                                         targets, Inspect, time)
         IN \/ capture' = Undriven
            \/ driven /\ capture' = Restore(TRUE)
            \/ driven /\ failure = "OK" /\ capture' = [Stage("switch") EXCEPT !.at = 1]
    /\ UNCHANGED <<dispatch, store, probeFile, chart, answers, bounds>>

Abandon == IF capture.restoring THEN Stage("finalize") ELSE Restore(TRUE)

Wanted == IF capture.restoring THEN Base ELSE Timeframes[capture.at]

\* switch_and_wait: the series changes at once and the header follows.
Switch ==
    /\ Doing("switch")
    /\ chart' = [chart EXCEPT !.timeframe = Wanted]
    /\ capture' = Stage("watch")
    /\ UNCHANGED <<dispatch, store, probeFile, answers, bounds>>

\* setResolution is refused, or the page does not answer.
SwitchFails ==
    /\ Doing("switch")
    /\ chart' \in {chart, [chart EXCEPT !.timeframe = Wanted]}
    /\ capture' = Abandon
    /\ UNCHANGED <<dispatch, store, probeFile, answers, bounds>>

\* A poll that fails: transient errors start the count of stable samples
\* again, any other ends the wait.
InspectFails ==
    /\ Doing("watch") /\ capture.polls < Polls
    /\ \/ capture' = [capture EXCEPT !.stable = 0, !.polls = @ + 1]
       \/ capture' = Abandon
    /\ UNCHANGED <<dispatch, store, probeFile, chart, answers, bounds>>

\* One poll.  The second stable sample in a row is the one that is verified.
Observe ==
    LET identity == IdentityFailure(Profile, capture.pin, Inspect)
        verified == StateFailure(Profile, Event, Inspect, Wanted, time)
        ready == TransitionReady(Inspect, Wanted, time)
        stable == IF ready THEN capture.stable + 1 ELSE 0
    IN /\ Doing("watch") /\ capture.polls < Polls
       /\ capture' =
            IF identity # "OK" THEN Abandon
            ELSE IF stable < StableSamples
            THEN [capture EXCEPT !.stable = stable, !.polls = @ + 1]
            ELSE IF verified # "OK" THEN Abandon
            ELSE IF capture.restoring THEN [Stage("finalize") EXCEPT !.restored = TRUE]
            ELSE [Stage("shoot") EXCEPT !.touched = touches]
       /\ UNCHANGED <<dispatch, store, probeFile, chart, answers, bounds>>

StabilizationTimeout ==
    /\ Doing("watch") /\ capture.polls = Polls
    /\ capture' = Abandon
    /\ UNCHANGED <<dispatch, store, probeFile, chart, answers, bounds>>

\* The picture is of what the chart shows by now.
Picture == [timeframe |-> Wanted, shows |-> chart.header, symbol |-> chart.symbol,
            touched |-> touches > capture.touched]

\* screenshot and add_artifact, then the next timeframe.
Screenshot ==
    /\ Doing("shoot")
    /\ store' = [store EXCEPT ![This].images = @ \cup {Picture}]
    /\ capture' = [(IF capture.at < Len(Timeframes) THEN [Stage("switch") EXCEPT !.at = @ + 1]
                    ELSE Restore(HasExpired(Event, time)))
                   EXCEPT !.taken = @ \cup {Picture}]
    /\ UNCHANGED <<dispatch, probeFile, chart, answers, bounds>>

\* No picture, or none that could be written: one that was torn keeps the
\* name of its bytes and is in no manifest.
ScreenshotFails ==
    /\ Doing("shoot")
    /\ capture' = Restore(TRUE)
    /\ UNCHANGED <<dispatch, store, probeFile, chart, answers, bounds>>

Failed == capture.failed \/ ~capture.restored

Manifest ==
    [status |-> IF ~Failed /\ {i.timeframe : i \in capture.taken} = Required
                THEN "COMPLETE" ELSE "FAILED",
     event |-> Event.id, artifacts |-> capture.taken, failed |-> Failed,
     restored |-> capture.restored, finished |-> time]

\* finalize: a manifest of this attempt that differs is not overwritten.
Finalize ==
    /\ Doing("finalize")
    /\ IF store[This].manifest.status # "NONE" /\ store[This].manifest # Manifest
       THEN FailAttempt /\ UNCHANGED store
       ELSE /\ store' = [store EXCEPT ![This].manifest = Manifest]
            /\ IF Failed THEN FailAttempt ELSE capture' = [capture EXCEPT !.pc = "compile"]
    /\ UNCHANGED <<dispatch, probeFile, chart, answers, bounds>>

\* The request is created at the time the capture finished.
CompileRequest ==
    LET m == store[This].manifest IN
    /\ Doing("compile")
    /\ IF RequestFailure(Profile, Event, m, m.finished) # "OK"
       THEN FailAttempt
       ELSE capture' = [capture EXCEPT !.pc = "bundle"]
    /\ UNCHANGED <<dispatch, store, probeFile, chart, answers, bounds>>

\* source_canonical_event, source_adapter_output, analysis_request, release:
\* the files of a bundle beside its manifest and pictures, in this order.
BundleFiles(e, m) ==
    <<e, EventOf[e].adapter.source, m.finished, ReleaseDecision(EventOf[e], FALSE, m.finished)>>

\* Mutant: a file that is there is not compared.
WriteBundleTrusting ==
    LET files == BundleFiles(capture.event, store[This].manifest)
        dir == store[This]
    IN /\ Doing("bundle")
       /\ IF dir.bundle = files
          THEN capture' = [capture EXCEPT !.pc = "record"] /\ UNCHANGED store
          ELSE /\ store' = [store EXCEPT ![This].bundle = SubSeq(files, 1, Len(dir.bundle) + 1)]
               /\ UNCHANGED capture
       /\ UNCHANGED <<dispatch, probeFile, chart, answers, bounds>>

\* One file of write_bundle.  A file that is there, whole or torn, is compared
\* and never written again.
WriteBundle ==
    LET files == BundleFiles(capture.event, store[This].manifest)
        dir == store[This]
    IN /\ Doing("bundle")
       /\ IF dir.torn \/ dir.bundle # SubSeq(files, 1, Len(dir.bundle))
          THEN FailAttempt /\ UNCHANGED store
          ELSE IF dir.bundle = files
          THEN capture' = [capture EXCEPT !.pc = "record"] /\ UNCHANGED store
          ELSE /\ store' = [store EXCEPT ![This].bundle = SubSeq(files, 1, Len(dir.bundle) + 1)]
               /\ UNCHANGED capture
       /\ UNCHANGED <<dispatch, probeFile, chart, answers, bounds>>

\* A write that is cut short may leave a new file torn.
MayTear ==
    \/ UNCHANGED store
    \/ /\ Doing("finalize") /\ store[This].manifest = NoManifest
       /\ store' = [store EXCEPT ![This].manifest = TornManifest]
    \/ /\ Doing("bundle")
       /\ store[This].bundle # BundleFiles(capture.event, store[This].manifest)
       /\ store' = [store EXCEPT ![This].torn = TRUE]

\* The process ends, or an exception that is no Session3Error leaves the
\* delivery unrecorded: a file that cannot be written.
Stop ==
    /\ ~Doing("idle")
    /\ MayTear
    /\ capture' = Resting
    /\ UNCHANGED <<dispatch, probeFile, chart, answers, bounds>>

----------------------------------------------------------------------------

HeaderFollows ==
    /\ chart.header # chart.timeframe
    /\ chart' = [chart EXCEPT !.header = chart.timeframe]
    /\ UNCHANGED <<dispatch, store, probeFile, capture, answers, bounds>>

\* The operator turns the chart to another symbol or interval, or back.
Touch ==
    /\ touches < MaxTouches
    /\ touches' = touches + 1
    /\ \/ chart' = [chart EXCEPT !.symbol = IF @ = "DXY" THEN "XAUUSD" ELSE "DXY"]
       \/ \E t \in Required \ {chart.timeframe} : chart' = [chart EXCEPT !.timeframe = t, !.header = t]
    /\ UNCHANGED <<time, dispatch, store, probeFile, capture, answers, deliveries>>

Pass ==
    /\ time < MaxTime
    /\ time' = time + 1
    /\ UNCHANGED <<dispatch, store, probeFile, chart, capture, answers, touches, deliveries>>

Consumer ==
    \/ \E e \in Events, retry \in 0 .. MaxRetries :
         \/ Refuse(e, retry) \/ AnswerAgain(e, retry)
         \/ \E requested \in 0 .. time, p \in Profiles, pin \in TabPins :
              Accept(e, retry, requested, p, pin)
    \/ Begin \/ Probe \/ Preflight \/ Switch \/ SwitchFails
    \/ Observe \/ InspectFails \/ StabilizationTimeout
    \/ Screenshot \/ ScreenshotFails \/ Finalize \/ CompileRequest \/ WriteBundle
    \/ RecordAttempt \/ Answer \/ Stop

DispatchNext == Consumer \/ HeaderFollows \/ Touch \/ Pass

DispatchSpec == DispatchInit /\ [][DispatchNext]_dispatchVars

----------------------------------------------------------------------------
Completed == dispatch # Never /\ dispatch.status = "COMPLETED"

Ledger == INSTANCE WriteOnce WITH
    Keys <- {"dispatch"}, Nothing <- Never,
    value <- [k \in {"dispatch"} |-> IF Completed THEN dispatch.result ELSE Never],
    served <- [k \in {"dispatch"} |-> answers]

\* A dispatch completes once.  However often it is delivered, retried or cut
\* short, every caller is told of the same attempt.
OneCaptureCompletes == Ledger!Spec

\* The attempt that a completed dispatch names is complete on disk: a picture
\* of every timeframe under a manifest that says the chart was put back, and
\* beside it every file of the bundle of the dispatched event, none of them
\* torn by a stop, however the attempts before it ended.
CompletedHasBundle ==
    Completed =>
        LET dir == store[dispatch.result] IN
        /\ ~dir.torn /\ dir.bundle = BundleFiles(dispatch.event, dir.manifest)
        /\ dir.manifest.status = "COMPLETE" /\ dir.manifest.restored
        /\ {i.timeframe : i \in dir.manifest.artifacts} = Required
        /\ ManifestFailure(dir) = "OK"

\* A picture shows the interval and the symbol it is filed under, unless the
\* operator touched the chart after it was verified: a header that is slow to
\* follow is never photographed.
PicturesMatch ==
    \A a \in Attempts : \A i \in store[a].images :
        i.touched \/ (i.shows = i.timeframe /\ i.symbol = "XAUUSD")
=============================================================================
