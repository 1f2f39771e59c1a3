----------------------------- MODULE ChartChecks -----------------------------
(***************************************************************************)
(* The checks of a Project A capture (capture/project_a: profile.py,       *)
(* input_boundary.py, preflight.py, cdp.py, compiler.py, replay.py).  Each *)
(* is the list of refusals of its function in the order of the code.       *)
(* Hash comparisons, schema checks and parsed texts are one Boolean each.  *)
(***************************************************************************)
EXTENDS Integers, FiniteSets, Checks

CONSTANTS
    Timeframes,   \* REQUIRED_TIMEFRAMES, in capture order
    Duration      \* TIMEFRAME_SECONDS in clock units: timeframe -> length

Base == "1m"
Required == {Timeframes[i] : i \in DOMAIN Timeframes}

\* CaptureProfile.validate, and the gate in front of the real browser.
ProfileFailure(p) ==
    FirstFailure(<<
        <<p.symbol # "XAUUSD" \/ ~p.enabled, "WRONG_SYMBOL">>,
        <<p.feed # "ICMARKETS", "WRONG_FEED">>,
        <<~p.local, "PORT_MISMATCH">>,
        <<p.base # Base, "WRONG_TIMEFRAME">>,
        <<p.timeframes # Timeframes, "MISSING_TIMEFRAME">>,
        <<p.aliases = {}, "WRONG_SYMBOL">>,
        <<\E a \in p.aliases : a # <<p.feed, p.symbol>>, "WRONG_FEED">>,
        <<p.charts # 1, "WRONG_LAYOUT">> >>)

ActivationFailure(p) ==
    FirstFailure(<<
        <<ProfileFailure(p) # "OK", "PROFILE_REFUSED">>,
        <<~p.active, "RUNTIME_ACTIVATION_DISABLED">> >>)

----------------------------------------------------------------------------
\* The canonical event and its analysis adapter.

\* _validate_canonical_lineage
LineageFailure(e) ==
    FirstFailure(<<
        <<~e.schema, "SOURCE_INVALID">>,
        <<\/ ~e.hashes \/ e.setup = "none" \/ e.correlation = "none"
          \/ e.status # "ACCEPTED" \/ ~e.dispatchable \/ e.mutating
          \/ e.duplicate \/ e.provenance # "TRUSTED_INGRESS" \/ ~e.execution,
          "CANONICAL_LINEAGE_INVALID">> >>)

\* _validate_analysis_adapter: every number of the adapter is one of the event.
AdapterFailure(a, e) ==
    FirstFailure(<<
        <<~a.fields, "ADAPTER_LINEAGE_INVALID">>,
        <<a.enabled \/ a.family # "PROJECT_A_SESSION_2_CAPTURE_ADAPTER", "ADAPTER_LINEAGE_INVALID">>,
        <<a.source # e.id, "ADAPTER_LINEAGE_INVALID">>,
        <<~a.analysis, "COMPILATION_INPUT_MISSING">>,
        <<~a.instrument, "ADAPTER_LINEAGE_INVALID">>,
        <<a.evidence # e.evidence, "ADAPTER_LINEAGE_INVALID">>,
        <<a.bar # e.trigger, "ADAPTER_LINEAGE_INVALID">> >>)

\* validate_analysis_ready
AnalysisReadyFailure(e) ==
    FirstFailure(<<
        <<LineageFailure(e) # "OK", "CANONICAL_LINEAGE_INVALID">>,
        <<e.class # "ANALYSIS_READY", "SOURCE_INVALID">>,
        <<e.type \notin {"SNR_REJECTION_READY", "SNR_BREAK_READY"}, "SOURCE_INVALID">>,
        <<e.symbol # "XAUUSD", "WRONG_SYMBOL">>,
        <<e.base # Base, "WRONG_TIMEFRAME">>,
        <<e.received < e.occurred \/ e.canonicalized < e.received, "CANONICAL_LINEAGE_INVALID">>,
        <<AdapterFailure(e.adapter, e) # "OK", "ADAPTER_LINEAGE_INVALID">>,
        <<e.adapter.expires <= e.occurred, "SOURCE_INVALID">> >>)

HasExpired(e, at) == at >= e.adapter.expires

\* ensure_capture_chronology
ChronologyFailure(e, at) ==
    FirstFailure(<<
        <<at < e.canonicalized, "SOURCE_INVALID">>,
        <<e.adapter.bar > at, "SOURCE_INVALID">>,
        <<HasExpired(e, at), "SOURCE_EXPIRED">> >>)

----------------------------------------------------------------------------
\* The browser.

\* WindowsCdpProbe.inspect
ProbeFailure(endpoint) ==
    FirstFailure(<<
        <<~endpoint.windows, "UNSAFE_BINDING">>,
        <<~endpoint.attested, "MCP_UNAVAILABLE">>,
        <<Cardinality(endpoint.owners) > 1, "WRONG_PROCESS">> >>)

\* verify_endpoint
EndpointFailure(endpoint, process) ==
    FirstFailure(<<
        <<endpoint.owners = {} \/ ~endpoint.answers, "PORT_UNAVAILABLE">>,
        <<~endpoint.loopback, "UNSAFE_BINDING">>,
        <<endpoint.owners # {process}, "WRONG_PROCESS">>,
        <<~endpoint.version, "MCP_UNAVAILABLE">> >>)

\* select_pinned_target
PinFailure(p, pin, targets) ==
    LET pages == {t \in targets : t.type = "page" /\ t.url = p.url}
        pinned == {t \in targets : t.id = pin.id}
    IN FirstFailure(<<
        <<pin.url # p.url \/ pin.layout # p.layout, "WRONG_TAB">>,
        <<Cardinality(pages) > 1, "TAB_AMBIGUOUS">>,
        <<pinned = {}, "TAB_NOT_FOUND">>,
        <<Cardinality(pinned) > 1, "TAB_AMBIGUOUS">>,
        <<pinned \cap pages = {}, "WRONG_TAB">> >>)

\* CdpDriver.__enter__, once it is connected
EntryFailure(p, pin, targets) ==
    LET pages == {t \in targets : t.type = "page" /\ t.url = p.url}
    IN FirstFailure(<<
        <<ActivationFailure(p) # "OK", "RUNTIME_ACTIVATION_DISABLED">>,
        <<pin.url # p.url \/ pin.layout # p.layout, "WRONG_TAB">>,
        <<pages = {}, "TAB_NOT_FOUND">>,
        <<Cardinality(pages) > 1, "TAB_AMBIGUOUS">> >>)

\* resolve_header_identity: of each kind, the one value that the visible
\* candidates of the chart header agree on.
HeaderValues(header, kind) ==
    {c.value : c \in {d \in header.candidates : d.visible /\ d.kind \in {kind, "combined"}}}

HeaderStatus(header) ==
    LET counts == {Cardinality(HeaderValues(header, k)) : k \in {"symbol", "feed", "timeframe"}}
    IN IF header.regions # 1 THEN IF header.regions > 1 THEN "AMBIGUOUS" ELSE "MISSING"
       ELSE IF \E n \in counts : n > 1 THEN "AMBIGUOUS"
       ELSE IF counts = {1} THEN "OK" ELSE "MISSING"

\* Mutant: a header that names anything will do.
HeaderPresent(header, kind, value) == header.regions = 1 /\ HeaderValues(header, kind) # {}

HeaderNames(header, kind, value) == header.regions = 1 /\ HeaderValues(header, kind) = {value}

SymbolFailure(p, s) ==
    FirstFailure(<<
        <<s.alias \notin p.aliases \/ s.alias[2] # p.symbol, "WRONG_SYMBOL">>,
        <<~HeaderNames(s.header, "symbol", p.symbol), "WRONG_SYMBOL">>,
        <<s.alias[1] # p.feed \/ ~HeaderNames(s.header, "feed", p.feed), "WRONG_FEED">> >>)

\* _hard_transition_identity: what no wait can heal.
IdentityFailure(p, pin, s) ==
    FirstFailure(<<
        <<Cardinality(s.targets) > 1, "TAB_AMBIGUOUS">>,
        <<s.targets = {}, "TAB_NOT_FOUND">>,
        <<pin.id \notin s.targets, "WRONG_TAB">>,
        <<~s.authenticated, "AUTH_UNUSABLE">>,
        <<s.url # p.url, "WRONG_TAB">>,
        <<s.layout # p.layout \/ s.charts # p.charts, "WRONG_LAYOUT">>,
        <<HeaderStatus(s.header) = "AMBIGUOUS", "WRONG_SYMBOL">>,
        <<SymbolFailure(p, s) # "OK", SymbolFailure(p, s)>>,
        <<s.modal, "MODAL_BLOCKING">> >>)

\* _transition_ready: the header shows the interval too.
TransitionReady(s, requested, at) ==
    /\ s.ready
    /\ s.timeframe = requested /\ HeaderNames(s.header, "timeframe", requested)
    /\ s.bar <= at
    /\ s.streaming

\* verify_chart_state
StateFailure(p, e, s, timeframe, at) ==
    FirstFailure(<<
        <<HasExpired(e, at), "SOURCE_EXPIRED">>,
        <<~s.ready, "PAGE_NOT_READY">>,
        <<~s.authenticated, "AUTH_UNUSABLE">>,
        <<s.modal, "MODAL_BLOCKING">>,
        <<~s.streaming, "STALE_CHART">>,
        <<s.url # p.url, "WRONG_TAB">>,
        <<s.layout # p.layout \/ s.charts # p.charts, "WRONG_LAYOUT">>,
        <<SymbolFailure(p, s) # "OK", SymbolFailure(p, s)>>,
        <<s.timeframe # timeframe \/ ~HeaderNames(s.header, "timeframe", timeframe),
          "WRONG_TIMEFRAME">>,
        <<~s.switchable, "MISSING_TIMEFRAME">>,
        <<s.bar + Duration[timeframe] <= e.adapter.bar, "STALE_CHART">>,
        <<s.bar > at, "STALE_CHART">> >>)

\* verify_preflight
PreflightFailure(p, pin, e, endpoint, targets, s, at) ==
    FirstFailure(<<
        <<EndpointFailure(endpoint, p.process) # "OK", "ENDPOINT_REFUSED">>,
        <<PinFailure(p, pin, targets) # "OK", "PIN_REFUSED">>,
        <<StateFailure(p, e, s, Base, at) # "OK", "STATE_REFUSED">> >>)

----------------------------------------------------------------------------
\* The manifest.

\* verify_manifest reads every artifact again.
ManifestFailure(dir) ==
    FirstFailure(<<
        <<dir.manifest.status = "NONE", "ARTIFACT_MISSING">>,
        <<dir.manifest.status = "TORN", "JSON_REFUSED">>,
        <<\E i \in dir.manifest.artifacts : i \notin dir.images, "ARTIFACT_HASH_MISMATCH">> >>)

\* compile_analysis_request and _validated_artifacts
RequestFailure(p, e, m, created) ==
    FirstFailure(<<
        <<ProfileFailure(p) # "OK", "PROFILE_REFUSED">>,
        <<AnalysisReadyFailure(e) # "OK", "SOURCE_INVALID">>,
        <<HasExpired(e, created), "SOURCE_EXPIRED">>,
        <<m.event # e.id, "CONTRACT_COMPILATION_FAILURE">>,
        <<m.status # "COMPLETE" \/ m.failed, "PARTIAL_CAPTURE">>,
        <<~m.restored, "WRONG_TIMEFRAME">>,
        <<\E i, j \in m.artifacts : i # j /\ i.timeframe = j.timeframe, "PARTIAL_CAPTURE">>,
        <<{i.timeframe : i \in m.artifacts} # Required, "MISSING_TIMEFRAME">>,
        <<HasExpired(e, m.finished), "SOURCE_EXPIRED">>,
        <<created < m.finished, "CONTRACT_COMPILATION_FAILURE">> >>)

\* release_decision: nothing is released, whatever the outcome.
ReleaseDecision(e, synthetic, at) ==
    [status |-> IF HasExpired(e, at) THEN "EXPIRED_RETAINED"
                ELSE IF synthetic THEN "SYNTHETIC_RETAINED" ELSE "RUNTIME_ACTIVATION_PENDING",
     released |-> FALSE]
=============================================================================
