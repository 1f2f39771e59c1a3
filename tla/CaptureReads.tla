---------------------------- MODULE CaptureReads ----------------------------
(***************************************************************************)
(* What the read-only capture service accepts of a TradingView page and    *)
(* what it computes from it (project_a_capture_service/cdp.py, capture.py  *)
(* and plans.py).  A page is a record of what the fixed script reports;    *)
(* prices and times are small integers, and an ATR is kept as the sum of   *)
(* its true ranges.                                                        *)
(***************************************************************************)
EXTENDS Integers, FiniteSetsExt, Checks

CONSTANTS
    Limits,      \* ages in clock units: skew, bar, quote, atr, event
    AtrPeriod    \* true ranges of an ATR (14)

Account == "Jonesy_Wong"
NumericType == "standard_candles"

\* select_targets: exactly one open page per approved layout.
SelectFailure(view, targets) ==
    LET matches == {t \in targets : t.layout = view.layout}
    IN FirstFailure(<<
        <<matches = {}, "TARGET_MISSING">>,
        <<Cardinality(matches) > 1, "TARGET_AMBIGUOUS">> >>)

\* _resolve_account: the markers name the expected account and no other.
AccountFailure(markers) == FirstFailure(<< <<markers # {Account}, "ACCOUNT_MISMATCH">> >>)

ChartFailure(view, chart, now) ==
    FirstFailure(<<
        <<chart.symbol # view.symbol, "SYMBOL_MISMATCH">>,
        <<chart.timeframe \notin DOMAIN view.types, "TIMEFRAME_MISMATCH">>,
        <<chart.timeframe \in DOMAIN view.types => chart.type # view.types[chart.timeframe],
          "CHART_TYPE_MISMATCH">>,
        <<chart.bars = <<>>, "SOURCE_STALE">>,
        <<chart.current > now + Limits.skew, "SOURCE_STALE">>,
        <<chart.type = NumericType /\ now - chart.current > Limits.bar, "SOURCE_STALE">> >>)

\* validate_view: the page is the approved layout, its charts those planned.
ViewFailure(view, page, now) ==
    FirstFailure(<<
        <<~page.script, "SCRIPT_INTEGRITY_FAILURE">>,
        <<~page.ready, "STRUCTURED_READ_INCOMPLETE">>,
        <<page.layout # view.layout, "LAYOUT_MISMATCH">>,
        <<AccountFailure(page.markers) # "OK", "ACCOUNT_MISMATCH">>,
        <<Cardinality(page.charts) # Cardinality(DOMAIN view.types), "TIMEFRAME_MISMATCH">>,
        <<\E c \in page.charts : ChartFailure(view, c, now) # "OK", "CHART_REFUSED">>,
        <<{c.timeframe : c \in page.charts} # DOMAIN view.types, "TIMEFRAME_MISMATCH">> >>)

\* _state_fingerprint: what identifies a page that passed these checks.  Its
\* symbol is that of the plan, its prices do not count.
Fingerprint(page) ==
    [markers |-> page.markers, indicators |-> page.indicators,
     charts |-> {<<c.timeframe, c.type>> : c \in page.charts}]

\* What a reader of its picture sees of a page.
Identity(page) ==
    [layout |-> page.layout, symbols |-> {c.symbol : c \in page.charts},
     fingerprint |-> Fingerprint(page)]

Gap(a, b) == IF a < b THEN b - a ELSE a - b

TrueRange(bar, before) ==
    Max({bar.high - bar.low, Gap(bar.high, before.close), Gap(bar.low, before.close)})

\* _confirmed_atr14: bars newest first, one more than the true ranges.
AtrSum(bars) == MapThenSumSet(LAMBDA i : TrueRange(bars[i], bars[i + 1]), 1 .. AtrPeriod)

AtrFailure(bars) ==
    FirstFailure(<<
        <<Len(bars) <= AtrPeriod, "STRUCTURED_READ_INCOMPLETE">>,
        <<\E i \in DOMAIN bars : ~(/\ bars[i].low <= bars[i].close
                                   /\ bars[i].close <= bars[i].high), "STRUCTURED_READ_INCOMPLETE">>,
        <<\E i \in DOMAIN bars \ {1} : bars[i - 1].time <= bars[i].time, "STRUCTURED_READ_INCOMPLETE">>,
        <<Len(bars) > AtrPeriod /\ AtrSum(bars) <= 0, "STRUCTURED_READ_INCOMPLETE">> >>)

\* _quote_and_atr_fields, for a page observed at one time.
QuoteFailure(view, chart, at) ==
    LET quote == chart.quote IN
    FirstFailure(<<
        <<~quote.source, "STRUCTURED_READ_INCOMPLETE">>,
        <<quote.symbol # view.symbol, "SYMBOL_MISMATCH">>,
        <<quote.time > at + Limits.skew, "SOURCE_STALE">>,
        <<at - quote.time > Limits.quote, "SOURCE_STALE">>,
        <<quote.bid <= 0 \/ quote.ask <= 0, "STRUCTURED_READ_INCOMPLETE">>,
        <<quote.ask < quote.bid, "STRUCTURED_READ_INCOMPLETE">>,
        <<AtrFailure(chart.bars) # "OK", "STRUCTURED_READ_INCOMPLETE">>,
        <<chart.bars # <<>> /\ chart.bars[1].time # chart.closed, "STRUCTURED_READ_INCOMPLETE">>,
        <<chart.bars # <<>> /\ chart.bars[1].time > at + Limits.skew, "SOURCE_STALE">>,
        <<chart.bars # <<>> /\ at - chart.bars[1].time > Limits.atr, "SOURCE_STALE">> >>)

\* The touched side of the level decides which price the distance is from.
LevelDistance(level, quote) ==
    IF level.side = "ASK" THEN level.price - quote.ask ELSE quote.bid - level.price

\* The chart of a page from which numbers may be read, if there is one.
NumericCharts(page) == {c \in page.charts : c.type = NumericType}

\* _fields_for: the reads of a view, taken from the pages seen first.
FieldsFailure(view, page, at, level) ==
    FirstFailure(<<
        <<NumericCharts(page) = {}, "CAPTURE_PLAN_MISMATCH">>,
        <<\E c \in NumericCharts(page) : QuoteFailure(view, c, at) # "OK", "QUOTE_REFUSED">>,
        <<level.symbol # view.symbol, "SYMBOL_MISMATCH">> >>)

Fields(page, level) ==
    {[distance |-> LevelDistance(level, c.quote), spread |-> c.quote.ask - c.quote.bid,
      atr |-> AtrSum(c.bars), quoteTime |-> c.quote.time, atrTime |-> c.bars[1].time]
     : c \in NumericCharts(page)}
=============================================================================
