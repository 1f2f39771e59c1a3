--------------------------- MODULE ProducerEvents ----------------------------
(***************************************************************************)
(* What the numeric market state takes for an event of a producer          *)
(* (project_a/numeric_state.py, up to parse_numeric_event).  An alert is a *)
(* record whose fields may be absent, or present and malformed (Bad); the  *)
(* schema is named by its family.  Prices count the smallest decimal.      *)
(***************************************************************************)
EXTENDS Integers, Checks, TLC

CONSTANT Bad

\* f @@ g, written out: the provers do not unfold the operator of TLC.
Over(f, g) == [x \in (DOMAIN f) \cup (DOMAIN g) |-> IF x \in DOMAIN f THEN f[x] ELSE g[x]]

Allowlist ==
    (<<"LIQUIDITY", "LIQ_V2">> :> "9") @@ (<<"EXPANSION", "EXP_V3">> :> "5")
    @@ (<<"EXPANSION", "EXP_SCANNER">> :> "6") @@ (<<"RENKO", "RENKO_V3_SNIPER">> :> "1")

Freshness == {"FRESH", "AGING", "STALE", "MARKET_CLOSED", "MISSING", "CLOCK_INVALID",
              "SOURCE_UNAVAILABLE", "PROVISIONAL"}

LifecycleOf == [LIQ_APPROACH |-> "APPROACH", LIQ_TOUCH |-> "HIT", LIQ_REJECT |-> "REJECT",
                LIQ_BREAK |-> "BREAK", LIQ_INVALIDATED |-> "INVALIDATED"]
StageOf == [RENKO_E1 |-> "E1", RENKO_E2 |-> "E2", RENKO_MAIN |-> "MAIN", RENKO_FIRE |-> "FIRE",
            RENKO_RESET |-> "RESET", RENKO_INVALIDATED |-> "INVALIDATED"]

EventsOf == [LIQUIDITY |-> DOMAIN LifecycleOf, RENKO |-> DOMAIN StageOf,
             EXPANSION |-> {"EXP_UP", "EXP_DOWN", "EXP_QUALITY_UPDATE", "EXP_TOO_EXTENDED"}]

Forbidden == {"price", "dir", "trade_direction", "entry_price", "stop_loss", "take_profit", "order"}
Conflicting == [LIQUIDITY |-> {"direction", "signal_price", "stage"},
                EXPANSION |-> {"side", "level_price", "signal_price", "stage", "lifecycle"},
                RENKO |-> {"side", "level_price", "market_price", "lifecycle", "grade"}]

Aliases == ("1" :> "1m") @@ ("5" :> "5m") @@ ("15" :> "15m") @@ ("30" :> "30m") @@ ("60" :> "1h")
Timeframe(t) == IF t \in DOMAIN Aliases THEN Aliases[t] ELSE t

----------------------------------------------------------------------------
\* Fields.

Given(a, f) == f \in DOMAIN a
Field(a, f) == IF Given(a, f) THEN a[f] ELSE Bad

IsText(v) == v # Bad
IsNumber(v) == IF v = Bad THEN FALSE ELSE v >= 0
IsPositive(v) == IF v = Bad THEN FALSE ELSE v > 0
IsBoolean(v) == v \in BOOLEAN
IsTime(v) == v # Bad
IsFresh(v) == v \in Freshness
IsRatio(v) == IF v = Bad THEN FALSE ELSE v \in 0..100

\* _optional_decimal and its kin; _required in front of the same checks.
May(a, f, Ok(_), code) == IF Given(a, f) /\ ~Ok(a[f]) THEN code ELSE "OK"
Must(a, f, Ok(_), code) ==
    IF ~Given(a, f) THEN "MISSING_REQUIRED_FIELD" ELSE May(a, f, Ok, code)
MustIf(needed, a, f, Ok(_), code) == IF needed THEN Must(a, f, Ok, code) ELSE May(a, f, Ok, code)

FirstRefusal(codes) == FirstFailure([i \in DOMAIN codes |-> <<codes[i] # "OK", codes[i]>>])

If(refused, code) == IF refused THEN code ELSE "OK"

----------------------------------------------------------------------------
\* _common
CommonFailure(a) ==
    LET schema == Field(a, "schema")
        producer == <<schema, Field(a, "producer_id")>>
        known == producer \in DOMAIN Allowlist
    IN FirstRefusal(<<
        If((DOMAIN a) \cap Forbidden # {}, "AMBIGUOUS_OR_ACTION_FIELD"),
        Must(a, "schema", LAMBDA v : v \in DOMAIN EventsOf, "UNSUPPORTED_SCHEMA"),
        Must(a, "producer_id", LAMBDA v : known, "UNSUPPORTED_PRODUCER"),
        Must(a, "producer_revision", LAMBDA v : known /\ v = Allowlist[producer],
             "UNSUPPORTED_PRODUCER_REVISION"),
        Must(a, "event", LAMBDA v : known /\ v \in EventsOf[schema], "UNSUPPORTED_EVENT"),
        Must(a, "source_bar_time", IsTime, "INVALID_TIMESTAMP"),
        If(known /\ (DOMAIN a) \cap Conflicting[schema] # {}, "AMBIGUOUS_OR_ACTION_FIELD"),
        Must(a, "event_id", IsText, "INVALID_TEXT"),
        Must(a, "symbol", IsText, "INVALID_TEXT"),
        Must(a, "feed", IsText, "INVALID_TEXT"),
        Must(a, "confirmed", IsBoolean, "INVALID_BOOLEAN"),
        Must(a, "freshness_status", IsFresh, "INVALID_FRESHNESS"),
        May(a, "emitted_at", IsTime, "INVALID_TIMESTAMP") >>)

----------------------------------------------------------------------------
\* Liquidity levels.

IdentityFields == {"source_family", "source_timeframe", "source_pivot_time", "source_sequence"}

\* _source_creation_identity
CreationIdentity(a) ==
    IF Given(a, "source_creation_identity") THEN a.source_creation_identity
    ELSE [f \in (DOMAIN a) \cap IdentityFields |->
            IF f = "source_timeframe" THEN Timeframe(a[f]) ELSE a[f]]

CreationFailure(a) ==
    IF Given(a, "source_creation_identity")
    THEN May(a, "source_creation_identity", IsText, "INVALID_IDENTITY")
    ELSE FirstRefusal(<<
        If(~Given(a, "source_pivot_time") /\ ~Given(a, "source_sequence"), "MISSING_IDENTITY"),
        May(a, "source_pivot_time", IsTime, "INVALID_TIMESTAMP"),
        May(a, "source_sequence", IsNumber, "INVALID_INTEGER"),
        May(a, "source_timeframe", IsText, "INVALID_TEXT"),
        May(a, "source_family", IsText, "INVALID_TEXT") >>)

AnchorTimeframe(a) ==
    Timeframe(IF Given(a, "anchor_timeframe") THEN a.anchor_timeframe ELSE Field(a, "timeframe"))

\* liquidity_identity_preimage: the price is an exact number of ticks.
OnTickGrid(a) ==
    /\ IsPositive(Field(a, "level_price")) /\ IsPositive(Field(a, "tick_size"))
    /\ a.level_price % a.tick_size = 0

\* liquidity_level_id
LevelId(a) ==
    <<a.producer_id, a.producer_revision, a.symbol, a.feed, AnchorTimeframe(a), a.side,
      CreationIdentity(a), a.tick_size, a.level_price \div a.tick_size>>

\* _canonicalize_liquidity
LiquidityFailure(a) ==
    LET plain == FirstRefusal(<<
            Must(a, "side", LAMBDA v : v \in {"ASK", "BID"}, "INVALID_SIDE"),
            If(AnchorTimeframe(a) = Bad, "INVALID_TEXT"),
            CreationFailure(a),
            Must(a, "level_price", IsPositive, "NUMBER_OUT_OF_RANGE"),
            Must(a, "market_price", IsPositive, "NUMBER_OUT_OF_RANGE"),
            Must(a, "tick_size", IsPositive, "NUMBER_OUT_OF_RANGE"),
            If(~OnTickGrid(a), "PRICE_NOT_ON_TICK_GRID") >>)
    IN IF plain # "OK" THEN plain
       ELSE FirstRefusal(<<
            If(Given(a, "level_id") /\ Field(a, "level_id") # LevelId(a), "LEVEL_ID_MISMATCH"),
            Must(a, "grade", LAMBDA v : v \in {"PRIME", "VALID", "WEAK"}, "INVALID_GRADE"),
            Must(a, "lifecycle", LAMBDA v : v = LifecycleOf[a.event], "LIFECYCLE_EVENT_MISMATCH"),
            Must(a, "created_at_source", IsTime, "INVALID_TIMESTAMP"),
            Must(a, "level_version", IsText, "INVALID_TEXT"),
            Must(a, "mtf_confluence", IsNumber, "INTEGER_OUT_OF_RANGE"),
            Must(a, "touch_count", IsNumber, "INTEGER_OUT_OF_RANGE"),
            May(a, "level_freshness_status", IsFresh, "INVALID_FRESHNESS"),
            May(a, "market_price_freshness_status", IsFresh, "INVALID_FRESHNESS"),
            May(a, "confirmed_5m_atr14", IsPositive, "NUMBER_OUT_OF_RANGE"),
            MustIf(Given(a, "confirmed_5m_atr14"), a, "atr_confirmed", IsBoolean, "INVALID_BOOLEAN"),
            MustIf(Given(a, "confirmed_5m_atr14"), a, "atr_freshness_status", IsFresh,
                   "INVALID_FRESHNESS") >>)

NoAtr == [confirmed_5m_atr14 |-> 0, atr_confirmed |-> FALSE, atr_freshness_status |-> "MISSING"]

CanonicalLiquidity(a) ==
    LET told == Over(IF Given(a, "confirmed_5m_atr14") THEN a ELSE Over(NoAtr, a),
                     [level_freshness_status |-> a.freshness_status,
                      market_price_freshness_status |-> a.freshness_status])
    IN Over([anchor_timeframe |-> AnchorTimeframe(a), level |-> LevelId(a)], told)

----------------------------------------------------------------------------
\* _canonicalize_expansion: the scanner must bring what its quality rests on.
ExpansionFailure(a) ==
    LET directional == a.event \in {"EXP_UP", "EXP_DOWN"}
    IN FirstRefusal(<<
        Must(a, "direction", LAMBDA v : v \in {"UP", "DOWN"}, "INVALID_MOVEMENT_DIRECTION"),
        If(directional /\ a.event # (IF Field(a, "direction") = "UP" THEN "EXP_UP" ELSE "EXP_DOWN"),
           "DIRECTION_EVENT_MISMATCH"),
        May(a, "quality", LAMBDA v : v \in {"CLEAN", "WEAK"}, "INVALID_QUALITY"),
        MustIf(directional, a, "path_efficiency", IsRatio, "NUMBER_OUT_OF_RANGE"),
        MustIf(~directional, a, "body_quality", IsRatio, "NUMBER_OUT_OF_RANGE"),
        MustIf(~directional, a, "opposing_bars", IsNumber, "INVALID_INTEGER"),
        MustIf(~directional, a, "too_extended", IsBoolean, "INVALID_BOOLEAN"),
        Must(a, "timeframe", IsText, "INVALID_TEXT"),
        Must(a, "start_price", IsPositive, "NUMBER_OUT_OF_RANGE"),
        Must(a, "market_price", IsPositive, "NUMBER_OUT_OF_RANGE"),
        Must(a, "displacement", IsNumber, "NUMBER_OUT_OF_RANGE"),
        Must(a, "atr", IsPositive, "NUMBER_OUT_OF_RANGE"),
        Must(a, "atr_multiple", IsNumber, "NUMBER_OUT_OF_RANGE"),
        Must(a, "age_bars", IsNumber, "INVALID_INTEGER") >>)

\* _canonicalize_renko: the cycle has two names.
CycleId(a) == IF Given(a, "cycle_id") THEN a.cycle_id ELSE Field(a, "cycle_identity")
HasCycle(a) == Given(a, "cycle_id") \/ Given(a, "cycle_identity")

\* A power is a text or a number from zero up: Bad is what is neither.
SuppliedStage(a, stage) ==
    CASE Field(a, "stage") = "SNIPER_FIRE" -> "FIRE"
      [] Field(a, "stage") = "NONE" /\ stage \in {"RESET", "INVALIDATED"} -> stage
      [] OTHER -> Field(a, "stage")

RenkoFailure(a) ==
    LET stage == StageOf[a.event]
        ends == stage \in {"RESET", "INVALIDATED"}
        fires == stage = "FIRE"
    IN FirstRefusal(<<
        Must(a, "stage", LAMBDA v : SuppliedStage(a, stage) = stage, "STAGE_EVENT_MISMATCH"),
        Must(a, "direction", LAMBDA v : v \in {"UP", "DOWN"} \/ (ends /\ v = "NONE"),
             "INVALID_MOVEMENT_DIRECTION"),
        Must(a, "timeframe", IsText, "INVALID_TEXT"),
        Must(a, "event_sequence", IsNumber, "INVALID_INTEGER"),
        If(HasCycle(a) /\ ~IsText(CycleId(a)), "INVALID_TEXT"),
        MustIf(~ends, a, "signal_price", IsPositive, "NUMBER_OUT_OF_RANGE"),
        May(a, "e1_age_bars", IsNumber, "INVALID_INTEGER"),
        May(a, "e2_age_bars", IsNumber, "INVALID_INTEGER"),
        May(a, "main_age_bars", IsNumber, "INVALID_INTEGER"),
        If(fires, Must(a, "score", IsRatio, "NUMBER_OUT_OF_RANGE")),
        If(fires, Must(a, "power", IsText, "NUMBER_OUT_OF_RANGE")),
        If(fires, Must(a, "mode", IsText, "INVALID_TEXT")),
        If(fires, Must(a, "transfer", IsText, "INVALID_TEXT")),
        If(fires, Must(a, "fire_reason_components", IsText, "MISSING_REQUIRED_FIELD")) >>)

----------------------------------------------------------------------------
\* parse_numeric_event
ParseFailure(a) ==
    IF CommonFailure(a) # "OK" THEN CommonFailure(a)
    ELSE CASE a.schema = "LIQUIDITY" -> LiquidityFailure(a)
           [] a.schema = "EXPANSION" -> ExpansionFailure(a)
           [] a.schema = "RENKO" -> RenkoFailure(a)

Canonical(a) ==
    CASE a.schema = "LIQUIDITY" -> CanonicalLiquidity(a)
      [] a.schema = "EXPANSION" -> Over([timeframe |-> Timeframe(a.timeframe)], a)
      [] a.schema = "RENKO" ->
            Over([timeframe |-> Timeframe(a.timeframe), stage |-> StageOf[a.event]],
                 IF HasCycle(a) THEN Over([cycle_id |-> CycleId(a)], a) ELSE a)

\* CanonicalEvent.producer_key, the preimage of canonical_event_id
ProducerKey(a) == <<a.producer_id, a.producer_revision, a.event_id>>
=============================================================================
