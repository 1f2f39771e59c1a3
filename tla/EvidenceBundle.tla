--------------------------- MODULE EvidenceBundle ----------------------------
(***************************************************************************)
(* The request for evidence (project_a/evidence_bundle.py) and the chain   *)
(* that compiles it from the alerts (project_a/section2_pipeline.py).      *)
(* Hashes and the documents of the facts stand for themselves.             *)
(***************************************************************************)
EXTENDS NumericState, MakeSense

CONSTANT MaxAge        \* fifteen minutes, in units of source time

ASSUME AgeAssumption == MaxAge \in Nat

FullCaptureLevels == {"LIQ_RESEARCH_CAPTURE", "FULL_B_TO_A_CAPTURE"}
NoReadLevels == {"TELEMETRY_ONLY", "PREWARM_ONLY", "DIRECTION_CONFIRMATION", "ENTRY_TIMING_ONLY"}

Source(port, layout, symbol, feed, timeframes, types) ==
    [port |-> port, layout |-> layout, symbol |-> symbol, feed |-> feed,
     timeframes |-> timeframes, types |-> types]

Standard == "standard_candles"
Volume == "volume_candles"

\* SOURCE_AUTHORITY, and approved_source_identities
SourceAuthority ==
    [xau_intraday |-> Source(9333, "cpPWuLlN", "XAUUSD", "ICMARKETS", <<"1m", "5m">>, <<Volume, Standard>>),
     xau_30m_15m |-> Source(9333, "avpCVaw2", "XAUUSD", "ICMARKETS", <<"15m", "30m">>, <<Standard, Standard>>),
     xau_htf |-> Source(9333, "pNqcbOmu", "XAUUSD", "ICMARKETS", <<"4H", "D", "W">>, <<Volume, Volume, Volume>>),
     dxy_15m |-> Source(9333, "n9qjfufV", "DXY", "TVC", <<"15m">>, <<Standard>>),
     dxy_1m |-> Source(9222, "ocVwlz2C", "DXY", "TVC", <<"1m">>, <<Standard>>),
     renko |-> Source(9333, "YclFo8Ax", "XAUUSD", "ICMARKETS", <<"5s">>, <<Standard>>)]

ScreenshotRoles == {"xau_intraday", "xau_30m_15m", "xau_htf", "dxy_15m", "renko"}

\* SourceIdentity.__post_init__
IdentityFailure(s) ==
    FirstFailure(<<
        <<s.port \notin {9222, 9333}, "PORT">>,
        <<\E f \in {"layout", "symbol", "feed"} : s[f] = "", "INCOMPLETE">>,
        <<s.timeframes = <<>>, "TIMEFRAMES">>,
        <<Len(s.types) # Len(s.timeframes), "CHART_TYPES">>,
        <<~(\A i \in DOMAIN s.types : s.types[i] \in {Standard, Volume}), "CHART_TYPES">> >>)

\* _require_source
Required(sources, role) ==
    /\ role \in DOMAIN sources
    /\ IdentityFailure(sources[role]) = "OK"
    /\ sources[role] = SourceAuthority[role]

----------------------------------------------------------------------------
\* The reads and the pictures a level of request stands for: <<role, kind,
\* timeframes, required>>, none of them performed here.
PrimaryReads(level) ==
    IF level \in NoReadLevels THEN {}
    ELSE {<<"xau_intraday", kind, <<"5m">>, TRUE>> :
            kind \in {"CURRENT_FORMING_PRICE", "CLOSED_OHLC", "STANDARD_MACD", "EXPANSION_CONTEXT",
                      "SNR_HPA_CONTEXT"}}
         \cup {<<"xau_30m_15m", kind, <<"15m", "30m">>, TRUE>> : kind \in {"CLOSED_OHLC", "STANDARD_MACD"}}
         \cup IF level \notin FullCaptureLevels THEN {}
              ELSE {<<"dxy_15m", "DXY_CONTEXT", <<"15m">>, TRUE>>, <<"renko", "RENKO_STATE", <<"5s">>, TRUE>>,
                    <<"renko", "SHORT_TERM_PRICE_ACTION", <<"5s">>, TRUE>>}

SupplementalReads(level) ==
    IF level \in FullCaptureLevels THEN {<<"dxy_1m", "DXY_SUPPLEMENTAL", <<"1m">>, FALSE>>} ELSE {}

Screenshots(level) == IF level \in FullCaptureLevels THEN ScreenshotRoles ELSE {}

\* The sources the three adapters look up on the way.
RolesRead(level) ==
    {r[1] : r \in PrimaryReads(level) \cup SupplementalReads(level)} \cup Screenshots(level)

----------------------------------------------------------------------------
\* Mutant: the touch of the last minute is too old.
ValidTouchEarlier(e, now) ==
    /\ e.event = "LIQ_TOUCH" /\ e.producer_id = "LIQ_V2" /\ e.producer_revision = "9"
    /\ e.symbol = "XAUUSD" /\ e.feed = "ICMARKETS" /\ e.anchor_timeframe = "5m"
    /\ e.confirmed
    /\ {e.freshness_status, e.level_freshness_status, e.market_price_freshness_status} = {"FRESH"}
    /\ e.touch_count >= 1
    /\ now - e.source_bar_time \in 0..(MaxAge - 1)

\* decide_trigger: a fresh confirmed touch of the approved source, and no
\* other event, asks for a capture.
ValidTouch(e, now) ==
    /\ e.event = "LIQ_TOUCH" /\ e.producer_id = "LIQ_V2" /\ e.producer_revision = "9"
    /\ e.symbol = "XAUUSD" /\ e.feed = "ICMARKETS" /\ e.anchor_timeframe = "5m"
    /\ e.confirmed
    /\ {e.freshness_status, e.level_freshness_status, e.market_price_freshness_status} = {"FRESH"}
    /\ e.touch_count >= 1
    /\ now - e.source_bar_time \in 0..MaxAge

DecideTrigger(events, now) ==
    IF \E e \in events : ValidTouch(e, now)
    THEN [level |-> "LIQ_RESEARCH_CAPTURE", research |-> TRUE, capture |-> TRUE]
    ELSE [level |-> "TELEMETRY_ONLY", research |-> FALSE, capture |-> FALSE]

\* build_evidence_bundle_request: the request is named after its trigger.
Bundle(trigger, now, sources, missing, unavailable) ==
    LET decision == DecideTrigger({trigger}, now)
        level == decision.level
    IN [failure |-> IF \A r \in RolesRead(level) : Required(sources, r) THEN "OK" ELSE "SOURCE",
        trigger |-> ProducerKey(trigger), decision |-> decision,
        reads |-> PrimaryReads(level) \cup SupplementalReads(level), screenshots |-> Screenshots(level),
        missing |-> missing, unavailable |-> unavailable]

----------------------------------------------------------------------------
\* OfflineSection2Pipeline

\* _freshness_records
MissingEvidence(freshness) == {k \in DOMAIN freshness : freshness[k] = "MISSING"}
UnavailableEvidence(freshness) ==
    {k \in DOMAIN freshness : freshness[k] \in {"SOURCE_UNAVAILABLE", "CLOCK_INVALID", "MARKET_CLOSED"}}

\* The trigger is the first of the history with the id its producer gave it,
\* whichever producer that is.
TriggerOf(m, id) ==
    LET named == {i \in DOMAIN m.state.ordered : m.state.ordered[i].event_id = id}
    IN Canonical(m.state.ordered[Min(named)])

SenseOf(state, trigger, freshness) ==
    MakeSense(trigger, CurrentObservation(state, "LIQUIDITY"), state.expansions, freshness,
              "NO_STORY", FALSE)

Requests(sense, bundle) ==
    {DisabledRequest("DASH_MAKE_SENSE_AI", sense, {})}
    \cup IF sense.capture \/ sense.state \in {"A_REVIEW_REQUIRED", "WAITING_5S_ENTRY"}
         THEN {DisabledRequest("FINAL_FRESH_EYES_REVIEW", sense, bundle)} ELSE {}

Compiled(state, sense, bundle) ==
    [failure |-> bundle.failure, state |-> state, sense |-> sense, bundle |-> bundle,
     requests |-> Requests(sense, bundle), grading |-> bundle.decision.capture]

CompileSense(state, trigger, sense, now, sources, freshness) ==
    Compiled(state, sense,
             Bundle(trigger, now, sources, sense.missing \cup MissingEvidence(freshness),
                    UnavailableEvidence(freshness)))

CompileFor(state, trigger, now, sources, freshness) ==
    CompileSense(state, trigger, SenseOf(state, trigger, freshness), now, sources, freshness)

CompileFrom(m, id, now, sources, freshness) ==
    IF m.refused # "OK" THEN [failure |-> m.refused]
    ELSE CompileFor(m.state, TriggerOf(m, id), now, sources, freshness)

\* compile
Compile(alerts, id, now, sources, freshness) ==
    CompileFrom(IngestAll(alerts), id, now, sources, freshness)
=============================================================================
