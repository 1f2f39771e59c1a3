------------------------------ MODULE MakeSense ------------------------------
(***************************************************************************)
(* MakeSenseCompiler.compile (project_a/make_sense.py): what an event      *)
(* means for the story of a level, decided from recorded facts.  A record  *)
(* of the input that is absent is the empty set, one that is present a     *)
(* singleton.                                                              *)
(***************************************************************************)
EXTENDS Integers, Sequences, FiniteSets

HardFreshnessFailures == {"STALE", "MISSING", "CLOCK_INVALID", "SOURCE_UNAVAILABLE", "MARKET_CLOSED"}
TerminalLiquidity == {"BREAK", "INVALIDATED", "EXPIRED", "REMOVED", "STALE", "SOURCE_UNAVAILABLE"}

Compatibility == {"EXP_UP", "EXP_DOWN", "EXP_QUALITY_UPDATE", "EXP_TOO_EXTENDED", "RENKO_E1", "RENKO_E2",
                  "RENKO_MAIN", "RENKO_FIRE", "RENKO_RESET", "RENKO_INVALIDATED"}

ActiveLiquidity(liquidity) ==
    \E l \in liquidity : l.lifecycle \notin TerminalLiquidity /\ l.confirmed

ExpectedExpansion(side) == IF side = "ASK" THEN "UP" ELSE "DOWN"

\* _matching_expansion: the last confirmed movement towards the level, of
\* the same symbol and feed, not after the trigger.  Of one time, the later
\* event id.
MatchingExpansion(l, history, at) ==
    LET fits == {i \in DOMAIN history :
                   LET e == history[i]
                   IN /\ e.direction = ExpectedExpansion(l.side) /\ e.confirmed
                      /\ e.symbol = l.symbol /\ e.feed = l.feed /\ e.source_bar_time <= at}
        latest == {i \in fits : \A j \in fits : history[j].source_bar_time <= history[i].source_bar_time}
    IN {history[i] : i \in {k \in latest : \A j \in latest : history[j].event_id <= history[k].event_id}}

Hypothesis(side) == IF side = "ASK" THEN "POSSIBLE_BEARISH_REVERSAL" ELSE "POSSIBLE_BULLISH_REVERSAL"

Core == {"xau", "atr_5m", "liquidity"}
NotFresh(freshness) == {key \in Core : key \notin DOMAIN freshness \/ freshness[key] # "FRESH"}

\* The story needs an active level, a movement towards it and fresh numbers.
Evaluated(event, liquidity, expansion, freshness, review) ==
    LET ready == ActiveLiquidity(liquidity) /\ expansion # {} /\ NotFresh(freshness) = {}
    IN IF event # "LIQ_TOUCH" /\ review THEN "A_REVIEW_REQUIRED"
       ELSE IF ready THEN "B_BUILDING" ELSE "C_INSUFFICIENT"

Missing(liquidity, expansion, freshness) ==
    (IF ActiveLiquidity(liquidity) THEN {} ELSE {"active_confirmed_liquidity"})
    \cup (IF expansion # {} THEN {} ELSE {"prior_confirmed_expansion_toward_level"})
    \cup NotFresh(freshness)

\* compile: neither a capture nor a prewarm is ever asked for here.
MakeSense(trigger, liquidity, history, freshness, prior, review) ==
    LET event == trigger.event
        lifecycles == {l.lifecycle : l \in liquidity}
        expansion == IF ActiveLiquidity(liquidity)
                     THEN UNION {MatchingExpansion(l, history, trigger.source_bar_time) : l \in liquidity}
                     ELSE {}
        broken == \/ event \in {"LIQ_BREAK", "LIQ_INVALIDATED"}
                  \/ lifecycles \cap {"BREAK", "INVALIDATED", "REMOVED"} # {}
        expired == \/ event = "SETUP_EXPIRED"
                   \/ /\ prior \notin {"NO_STORY", "C_INSUFFICIENT"}
                      /\ \E key \in DOMAIN freshness : freshness[key] \in HardFreshnessFailures
        request(state, missing, hypotheses, selected) ==
            [state |-> state, research |-> event = "LIQ_TOUCH", capture |-> FALSE, prewarm |-> FALSE,
             missing |-> missing, hypotheses |-> hypotheses, selected |-> selected]
    IN CASE event \in Compatibility -> request("NO_STORY", {}, {}, {})
         [] event \notin Compatibility /\ broken -> request("INVALIDATED", {}, {}, {})
         [] event \notin Compatibility /\ ~broken /\ expired -> request("EXPIRED", {}, {}, {})
         [] OTHER ->
              request(Evaluated(event, liquidity, expansion, freshness, review),
                      Missing(liquidity, expansion, freshness),
                      IF expansion = {} THEN {} ELSE {Hypothesis(l.side) : l \in liquidity},
                      {e.event_id : e \in expansion})

\* disabled_dash_request and disabled_final_review_request: requests that
\* cannot be sent.
DisabledRequest(kind, request, bundle) ==
    [kind |-> kind, request |-> request, bundle |-> bundle, dispatch |-> FALSE, network |-> FALSE]
=============================================================================
