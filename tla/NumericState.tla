---------------------------- MODULE NumericState -----------------------------
(***************************************************************************)
(* NumericMarketState (project_a/numeric_state.py): a set of alerts, and   *)
(* the state that is rebuilt from all of them, in the order of their       *)
(* source times, each time one is taken in.                                *)
(***************************************************************************)
EXTENDS ProducerEvents, FiniteSets, SequencesExt

CONSTANTS
    Hash(_),      \* the order of the texts of identities: an injection to Nat
    NoLevel

Released == "TRACKED_LEVEL_RELEASED"
Selected == "TRACKED_LEVEL_SELECTED"

ActiveLifecycles == {"IDLE", "APPROACH", "HIT"}
TerminalLifecycles ==
    {"REJECT", "BREAK", "INVALIDATED", "EXPIRED", "REMOVED", "STALE", "SOURCE_UNAVAILABLE"}
ZoneRank == [NEAR_TOUCH |-> 0, APPROACH |-> 1, FAR |-> 2]
GradeRank == [PRIME |-> 0, VALID |-> 1]
StageRank == [NONE |-> 0, E1 |-> 1, E2 |-> 2, MAIN |-> 3, FIRE |-> 4]

\* sorted(..., key = (source_bar_time, canonical_event_id))
Earlier(a, b) ==
    \/ a.source_bar_time < b.source_bar_time
    \/ a.source_bar_time = b.source_bar_time /\ Hash(ProducerKey(a)) < Hash(ProducerKey(b))

Sorted(alerts) ==
    [i \in 1..Cardinality(alerts) |->
        CHOOSE a \in alerts : Cardinality({b \in alerts : Earlier(b, a)}) = i - 1]

IsScanner(e) == e.schema = "EXPANSION" /\ e.producer_id = "EXP_SCANNER"

\* A movement that counts: the story is the direction of the last one.
Tells(e) == e.confirmed /\ e.freshness_status = "FRESH"

Story(expansions) ==
    LET told == {i \in DOMAIN expansions : Tells(expansions[i])}
    IN IF told = {} THEN "NONE" ELSE expansions[Max(told)].direction

----------------------------------------------------------------------------
\* liquidity_distance: multiplied out, so the zones end exactly at a quarter
\* and at half of the range.
Distance(e) ==
    LET signed == IF e.side = "ASK" THEN e.level_price - e.market_price
                                    ELSE e.market_price - e.level_price
        fresh == /\ e.confirmed /\ e.atr_confirmed
                 /\ {e.level_freshness_status, e.market_price_freshness_status,
                     e.atr_freshness_status} = {"FRESH"}
        atr == e.confirmed_5m_atr14
        zone == CASE signed * 4 <= atr -> "NEAR_TOUCH"
                  [] signed * 4 > atr /\ signed * 2 <= atr -> "APPROACH"
                  [] OTHER -> "FAR"
        result(status, z) == [status |-> status, zone |-> z, away |-> signed, atr |-> atr]
    IN CASE ~fresh \/ atr <= 0 -> result("UNAVAILABLE", "NONE")
         [] fresh /\ atr > 0 /\ signed < 0 -> result("CROSSED_PENDING_CLASSIFICATION", "NONE")
         [] fresh /\ atr > 0 /\ signed = 0 -> result("HIT_INTERSECTION_EVALUATION_REQUIRED", "NONE")
         [] OTHER -> result("AVAILABLE", zone)

\* _valid_lifecycle_transition
ValidTransition(previous, current) ==
    \/ previous = current
    \/ previous = "IDLE" /\ current \in {"APPROACH", "HIT", "BREAK", "INVALIDATED"}
    \/ previous = "APPROACH" /\ current \in {"HIT", "BREAK", "INVALIDATED"}
    \/ previous = "HIT" /\ current \in {"REJECT", "BREAK", "INVALIDATED"}

----------------------------------------------------------------------------
\* The state while _rebuild goes through the alerts.
Blank ==
    [failure |-> "OK", ordered |-> <<>>, levels |-> <<>>, prices |-> <<>>, expansions |-> <<>>,
     scanners |-> <<>>, told |-> "NONE", tracked |-> NoLevel, changes |-> <<>>,
     cycle |-> "NONE", stages |-> {}]

LevelKey(e) == <<e.level, e.level_version>>

Change(s, what, level, cause) == Append(s.changes, [what |-> what, level |-> level, cause |-> cause])

Release(s, cause) ==
    IF s.tracked = NoLevel THEN s
    ELSE [s EXCEPT !.tracked = NoLevel, !.changes = Change(s, Released, s.tracked, cause)]

\* The price path, and the direction of its last step.
WithPrice(s, e) ==
    IF "market_price" \notin DOMAIN e THEN s
    ELSE LET before == IF s.prices = <<>> THEN e.market_price ELSE Last(s.prices).price
             moved == CASE s.prices = <<>> -> "NONE"
                        [] s.prices # <<>> /\ e.market_price > before -> "UP"
                        [] s.prices # <<>> /\ e.market_price < before -> "DOWN"
                        [] OTHER -> "FLAT"
         IN [s EXCEPT !.prices = Append(@, [price |-> e.market_price, moved |-> moved])]

\* Mutant: the level of the old story is kept.
ObserveExpansionKeeping(s, e) ==
    [s EXCEPT !.expansions = Append(@, e), !.told = IF Tells(e) THEN e.direction ELSE @]

\* A story that turns releases the level that was tracked for the old one.
ObserveExpansion(s, e) ==
    LET turned == Tells(e) /\ s.told \notin {"NONE", e.direction}
        t == IF turned THEN Release(s, "DIRECTION_STORY_RESET") ELSE s
    IN [t EXCEPT !.expansions = Append(@, e), !.told = IF Tells(e) THEN e.direction ELSE @]

ObserveLiquidity(s, e) ==
    LET key == LevelKey(e)
        known == key \in DOMAIN s.levels
        level == [id |-> e.level, side |-> e.side, created |-> e.created_at_source, grade |-> e.grade,
                  confluence |-> e.mtf_confluence, touches |-> e.touch_count, lifecycle |-> e.lifecycle,
                  confirmed |-> e.confirmed, fresh |-> e.level_freshness_status,
                  distance |-> Distance(e),
                  since |-> IF known THEN s.levels[key].since ELSE Cardinality(DOMAIN s.levels)]
        t == [s EXCEPT !.levels = Over([k \in {key} |-> level], @)]
    IN IF known /\ ~ValidTransition(s.levels[key].lifecycle, e.lifecycle)
       THEN [s EXCEPT !.failure = "INVALID_LIFECYCLE_TRANSITION"]
       ELSE IF s.tracked = key /\ e.lifecycle \in TerminalLifecycles
       THEN Release(t, e.lifecycle)
       ELSE t

\* A new cycle, a reset and an invalidation clear the confirmed stages.
ObserveRenko(s, e) ==
    LET named == "cycle_id" \in DOMAIN e
        kept == IF named /\ s.cycle \notin {"NONE", e.cycle_id} THEN {} ELSE s.stages
    IN [s EXCEPT !.cycle = IF named THEN e.cycle_id ELSE @,
                 !.stages = CASE e.stage \in {"RESET", "INVALIDATED"} -> {}
                              [] e.stage \notin {"RESET", "INVALIDATED"} /\ Tells(e) -> kept \cup {e.stage}
                              [] OTHER -> kept]

----------------------------------------------------------------------------
\* _selection_sort_key.  The same level of two versions ties: a stable sort
\* leaves the one that was seen first in front.
Nearer(l, m) ==
    LET by == <<ZoneRank[l.distance.zone] - ZoneRank[m.distance.zone],
                GradeRank[l.grade] - GradeRank[m.grade],
                m.confluence - l.confluence,
                l.distance.away * m.distance.atr - m.distance.away * l.distance.atr,
                l.touches - m.touches,
                m.created - l.created,
                Hash(l.id) - Hash(m.id),
                l.since - m.since>>
    IN \E i \in DOMAIN by : by[i] < 0 /\ \A j \in 1..(i - 1) : by[j] = 0

Candidates(s) ==
    LET side == IF s.told = "UP" THEN "ASK" ELSE "BID"
    IN {key \in DOMAIN s.levels :
          LET l == s.levels[key]
          IN /\ l.side = side /\ l.grade \in DOMAIN GradeRank /\ l.lifecycle \in ActiveLifecycles
             /\ l.confirmed /\ l.fresh = "FRESH" /\ l.distance.status = "AVAILABLE"}

\* After every alert but a scanner's: a level is tracked as soon as the best
\* candidate of the story is not far away.
Track(s) ==
    LET found == IF s.told = "NONE" THEN {} ELSE Candidates(s)
        best == CHOOSE k \in found : \A o \in found \ {k} : Nearer(s.levels[k], s.levels[o])
    IN IF s.failure # "OK" \/ s.tracked # NoLevel \/ found = {} THEN s
       ELSE IF s.levels[best].distance.zone = "FAR" THEN s
       ELSE [s EXCEPT !.tracked = best, !.changes = Change(s, Selected, best, "NEAREST")]

Observe(s, a) ==
    LET e == Canonical(a)
        t == [WithPrice(s, e) EXCEPT !.ordered = Append(@, a)]
    IN CASE s.failure # "OK" -> s
         [] s.failure = "OK" /\ IsScanner(e) -> [t EXCEPT !.scanners = Append(@, e)]
         [] s.failure = "OK" /\ e.schema = "EXPANSION" /\ ~IsScanner(e) -> Track(ObserveExpansion(t, e))
         [] s.failure = "OK" /\ e.schema = "LIQUIDITY" -> Track(ObserveLiquidity(t, e))
         [] s.failure = "OK" /\ e.schema = "RENKO" -> Track(ObserveRenko(t, e))

----------------------------------------------------------------------------
\* The scanner only corroborates: its facts are paired with the one movement
\* of the same bar and direction, and must not contradict each other.
SameBar(e, f) ==
    \A field \in {"symbol", "feed", "timeframe", "source_bar_time", "direction"} : e[field] = f[field]

Facts(e) ==
    [f \in (DOMAIN e) \cap {"quality", "too_extended", "body_quality", "opposing_bars", "age_bars"} |-> e[f]]

Contradicted(s) ==
    \E i, j \in DOMAIN s.scanners :
        /\ SameBar(s.scanners[i], s.scanners[j]) /\ s.scanners[i].event = s.scanners[j].event
        /\ Facts(s.scanners[i]) # Facts(s.scanners[j])

PairingOf(s, scanner) ==
    IF Cardinality({i \in DOMAIN s.expansions : SameBar(scanner, s.expansions[i])}) = 1
    THEN "PAIRED_QUALITY_EVIDENCE" ELSE "UNPAIRED_QUALITY_EVIDENCE"

WithScanners(s) ==
    IF s.failure = "OK" /\ Contradicted(s) THEN [s EXCEPT !.failure = "SCANNER_EVIDENCE_CONFLICT"] ELSE s

\* The states _rebuild passes through: after none of the alerts, after one ...
Passed(ordered) ==
    LET state[i \in 0..Len(ordered)] == IF i = 0 THEN Blank ELSE Observe(state[i - 1], ordered[i])
    IN state

\* _rebuild
Rebuild(alerts) == WithScanners(Passed(Sorted(alerts))[Cardinality(alerts)])

----------------------------------------------------------------------------
\* NumericMarketState: what was ingested, the state of it, and the code of
\* the last refusal.
New == [alerts |-> {}, state |-> Blank, refused |-> "OK"]

\* The state is kept unless it failed.
Kept(m, a, s) ==
    IF s.failure = "OK" THEN [alerts |-> m.alerts \cup {a}, state |-> s, refused |-> "OK"]
    ELSE [m EXCEPT !.refused = s.failure]

\* Mutant: an alert joins the state as it is, whatever its time.
IngestAtEnd(m, a) == Kept(m, a, Observe(m.state, a))

\* ingest: a refused alert is taken out again.
Ingest(m, a) ==
    LET known == {b \in m.alerts : ProducerKey(b) = ProducerKey(a)}
    IN IF known # {} THEN [m EXCEPT !.refused = IF known = {a} THEN "OK" ELSE "EVENT_ID_CONFLICT"]
       ELSE Kept(m, a, Rebuild(m.alerts \cup {a}))

\* Alerts one after the other, up to the first that is refused.
IngestNext(m, a) == IF m.refused # "OK" THEN m ELSE Ingest(m, a)

Ingested(alerts) ==
    LET market[i \in 0..Len(alerts)] == IF i = 0 THEN New ELSE IngestNext(market[i - 1], alerts[i])
    IN market

IngestAll(alerts) == Ingested(alerts)[Len(alerts)]

\* The last alert of a family, and the one before it.
OfFamily(s, family) == SelectSeq(s.ordered, LAMBDA a : a.schema = family /\ ~IsScanner(a))

CurrentObservation(s, family) ==
    LET seen == OfFamily(s, family) IN IF seen = <<>> THEN {} ELSE {Canonical(Last(seen))}

PreviousObservation(s, family) ==
    LET seen == OfFamily(s, family)
    IN IF Len(seen) < 2 THEN {} ELSE {Canonical(seen[Len(seen) - 1])}

\* RenkoState: the highest confirmed stage.
Maturity(s) ==
    IF s.stages = {} THEN "NONE"
    ELSE CHOOSE stage \in s.stages : \A o \in s.stages : StageRank[o] <= StageRank[stage]

\* snapshot, the parts later decisions or readers rest on
Snapshot(s) ==
    [events |-> Len(s.ordered),
     lifecycles |-> [key \in DOMAIN s.levels |-> s.levels[key].lifecycle],
     tracked |-> s.tracked, changes |-> s.changes,
     movements |-> Len(s.expansions), moved |-> IF s.prices = <<>> THEN "NONE" ELSE Last(s.prices).moved,
     pairings |-> [i \in DOMAIN s.scanners |-> PairingOf(s, s.scanners[i])],
     previous |-> Cardinality(PreviousObservation(s, "LIQUIDITY")),
     renko |-> [cycle |-> s.cycle, maturity |-> Maturity(s)]]
=============================================================================
