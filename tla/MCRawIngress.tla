---------------------------- MODULE MCRawIngress -----------------------------
(***************************************************************************)
(* One ASK level at 20 with a range of 8, a movement up and one down, and  *)
(* two receivers.  The touch comes in two forms, under a second id, and    *)
(* with another price; a rejection and a re-touch may overtake it.  One    *)
(* body is refused before any transaction.  The id of an alert is a        *)
(* number and the identities are ordered by it; the scanner and the Renko  *)
(* stage use ids of touches, one before the touch in the order of the      *)
(* history and one after it.  A touch is fresh for one unit of time: the   *)
(* early one goes stale, and the one of time 1 may come too soon.          *)
(***************************************************************************)
EXTENDS RawIngress

Rank == [EXP_SCANNER |-> 0, EXP_V3 |-> 1, LIQ_V2 |-> 2, RENKO_V3_SNIPER |-> 3]
mcHash(identity) == IF Len(identity) = 3 THEN 4 * identity[3] + Rank[identity[1]] ELSE 0

Common(schema, producer, revision, event, id, time) ==
    [schema |-> schema, producer_id |-> producer, producer_revision |-> revision, event |-> event,
     event_id |-> id, source_bar_time |-> time, symbol |-> "XAUUSD", feed |-> "ICMARKETS",
     confirmed |-> TRUE, freshness_status |-> "FRESH"]

Liquidity(event, id, time, price, touches) ==
    Common("LIQUIDITY", "LIQ_V2", "9", event, id, time) @@
    [side |-> "ASK", anchor_timeframe |-> "5", source_creation_identity |-> "pivot", level_price |-> 20,
     market_price |-> price, tick_size |-> 1, grade |-> "PRIME", lifecycle |-> LifecycleOf[event],
     created_at_source |-> 0, level_version |-> 1, mtf_confluence |-> 1, touch_count |-> touches,
     confirmed_5m_atr14 |-> 8, atr_confirmed |-> TRUE, atr_freshness_status |-> "FRESH"]

Movement(event, id, time, direction) ==
    Common("EXPANSION", "EXP_V3", "5", event, id, time) @@
    [direction |-> direction, path_efficiency |-> 80, timeframe |-> "1m", start_price |-> 15,
     market_price |-> 19, displacement |-> 4, atr |-> 2, atr_multiple |-> 2, age_bars |-> 1]

Scan(id, time, quality) ==
    Common("EXPANSION", "EXP_SCANNER", "6", "EXP_QUALITY_UPDATE", id, time) @@
    [direction |-> "UP", quality |-> quality, body_quality |-> 70, opposing_bars |-> 0, too_extended |-> FALSE,
     timeframe |-> "1m", start_price |-> 15, market_price |-> 19, displacement |-> 4, atr |-> 2,
     atr_multiple |-> 2, age_bars |-> 1]

Stage(id, time) ==
    Common("RENKO", "RENKO_V3_SNIPER", "1", "RENKO_E1", id, time) @@
    [stage |-> "E1", direction |-> "UP", timeframe |-> "5s", event_sequence |-> 1, signal_price |-> 19]

mcTouch == Liquidity("LIQ_TOUCH", 1, 0, 19, 1)

mcAlerts ==
    [touch |-> mcTouch, touchPretty |-> mcTouch, touchAgain |-> [mcTouch EXCEPT !.event_id = 2],
     touchOther |-> [mcTouch EXCEPT !.market_price = 18],
     touchTwo |-> Liquidity("LIQ_TOUCH", 3, 1, 19, 2), touchEarly |-> Liquidity("LIQ_TOUCH", 4, -1, 19, 2),
     reject |-> Liquidity("LIQ_REJECT", 5, 0, 18, 1),
     up |-> Movement("EXP_UP", 6, 0, "UP"), down |-> Movement("EXP_DOWN", 7, 1, "DOWN"),
     scan |-> Scan(1, 0, "CLEAN"), e1 |-> Stage(3, 1),
     touchZero |-> Liquidity("LIQ_TOUCH", 10, 1, 19, 0)]

mcBodies == DOMAIN mcAlerts
mcContent == [b \in mcBodies |-> [alert |-> mcAlerts[b], large |-> FALSE, repeated |-> FALSE]]

Symmetry == Permutations(Receivers) \cup Permutations(Workers)
=============================================================================
