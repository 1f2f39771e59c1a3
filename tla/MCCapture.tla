------------------------------ MODULE MCCapture ------------------------------
(***************************************************************************)
(* The two captures share nothing, so one of them moves in each behaviour: *)
(* the capture service, or the dispatch consumer.                          *)
(***************************************************************************)
EXTENDS CaptureService, CaptureDispatch

mcLimits == [skew |-> 0, bar |-> 2, quote |-> 0, atr |-> 2, event |-> 1]

Bar(t, close) == [time |-> t, high |-> close + 1, low |-> close - 1, close |-> close]
Quote(t, bid) == [source |-> TRUE, symbol |-> "XAUUSD", time |-> t, bid |-> bid, ask |-> bid + 1]
Page(layout, symbol, indicators, quote) ==
    [script |-> TRUE, ready |-> TRUE, layout |-> layout, markers |-> {Account},
     indicators |-> indicators,
     charts |-> {[symbol |-> symbol, timeframe |-> "5m", type |-> NumericType, current |-> quote.time,
                  closed |-> 0, bars |-> <<Bar(0, 5), Bar(-1, 4)>>, quote |-> quote]}]

View(layout, quoted) ==
    [layout |-> layout, symbol |-> "XAUUSD", quoted |-> quoted, types |-> [t \in {"5m"} |-> NumericType]]
mcViews == [xau |-> View("cp", TRUE), renko |-> View("yc", FALSE)]
mcPages ==
    [xau |-> {Page("cp", "XAUUSD", {"SNR"}, Quote(0, 5)), Page("cp", "XAUUSD", {}, Quote(1, 6)),
              Page("cp", "XAUUSD", {"SNR"}, Quote(1, 6))},
     renko |-> {Page("yc", "XAUUSD", {}, Quote(0, 5))}]
mcFirstPages ==
    [xau |-> Page("cp", "XAUUSD", {"SNR"}, Quote(0, 5)), renko |-> Page("yc", "XAUUSD", {}, Quote(0, 5))]

mcRequest == [event |-> 0, plan |-> TRUE, roles |-> {"xau", "renko"},
              level |-> [side |-> "ASK", price |-> 7, symbol |-> "XAUUSD"]]
mcDocuments == {mcRequest, [mcRequest EXCEPT !.plan = FALSE]}

----------------------------------------------------------------------------
mcAdapter(id) ==
    [fields |-> TRUE, enabled |-> FALSE, family |-> "PROJECT_A_SESSION_2_CAPTURE_ADAPTER", source |-> id,
     analysis |-> TRUE, instrument |-> TRUE, evidence |-> "evidence", bar |-> 0, expires |-> 1]
mcEvent(id) ==
    [id |-> id, schema |-> TRUE, hashes |-> TRUE, setup |-> "setup", correlation |-> "correlation",
     status |-> "ACCEPTED", dispatchable |-> TRUE, mutating |-> FALSE, duplicate |-> FALSE,
     provenance |-> "TRUSTED_INGRESS", execution |-> TRUE, class |-> "ANALYSIS_READY",
     type |-> "SNR_BREAK_READY", symbol |-> "XAUUSD", base |-> "1m", occurred |-> 0, received |-> 0,
     canonicalized |-> 0, trigger |-> 0, evidence |-> "evidence", adapter |-> mcAdapter(id)]
mcEventOf == [e \in Events |-> mcEvent(e)]

mcTimeframes == <<"5s", "1m">>
mcDuration == [t \in {"5s", "1m"} |-> IF t = "5s" THEN 1 ELSE 2]
mcProfile ==
    [symbol |-> "XAUUSD", enabled |-> TRUE, feed |-> "ICMARKETS", local |-> TRUE, base |-> "1m",
     timeframes |-> mcTimeframes, aliases |-> {<<"ICMARKETS", "XAUUSD">>}, charts |-> 1, active |-> TRUE,
     url |-> "chart", layout |-> "layout", process |-> "chrome"]
mcProfileOf == [p \in Profiles |-> mcProfile]
mcTabPins == {[id |-> "tab", url |-> "chart", layout |-> "layout"]}

mcEndpoint == [windows |-> TRUE, attested |-> TRUE, owners |-> {"chrome"}, answers |-> TRUE,
               loopback |-> TRUE, version |-> TRUE]
mcEndpoints == {mcEndpoint, [mcEndpoint EXCEPT !.attested = FALSE]}

----------------------------------------------------------------------------
\* The browser shows what the views ask for, until its operator changes it.
AtViews == browser = mcFirstPages

\* The consumer is in its initial state.
Undisturbed == deliveries = 0 /\ touches = 0 /\ time = 0

\* Which caller calls and which event arrives does not matter until they are
\* compared: caller n makes call n, and event 1 is delivered first.
InTurn == \A c \in Callers : (CallAt(c, "idle") /\ calls'[c].pc = "queued") => c = made'
FirstDelivered == (deliveries = 0 /\ deliveries' = 1) => capture'.event = 1

\* A feed does not go back to an older quote.
QuotesAdvance ==
    \A r \in Roles : \A old \in browser[r].charts, new \in browser'[r].charts :
        old.quote.time <= new.quote.time

MCInit == Init /\ AtViews /\ DispatchInit

MCNext ==
    \/ Undisturbed /\ Next /\ InTurn /\ QuotesAdvance /\ UNCHANGED dispatchVars
    \/ Init /\ AtViews /\ DispatchNext /\ FirstDelivered /\ UNCHANGED captureVars

MCSpec == MCInit /\ [][MCNext]_<<captureVars, dispatchVars>>
=============================================================================
