---------------------------- MODULE RawIngressProofs ----------------------------
(***************************************************************************)
(* Proofs about the raw producer adapter and Section 2, for any bodies,    *)
(* receivers, workers and bounds.  An accepted alert is on the ledger; the *)
(* requests of a level advance and each is claimed by one worker; what     *)
(* was accepted can be rebuilt in source order; a wake carries its         *)
(* request for evidence; the tracked level follows the story of the        *)
(* movements, in the state rebuilt from any set of alerts.                 *)
(***************************************************************************)
EXTENDS RawIngress, ChecksProofs, FiniteSetTheorems

----------------------------------------------------------------------------
(* What a passed check says *)

LEMMA NothingRefused ==
    ASSUME NEW codes, DOMAIN codes \subseteq Nat, FirstRefusal(codes) = "OK"
    PROVE  \A i \in DOMAIN codes : codes[i] = "OK"
<1> DEFINE checks == [i \in DOMAIN codes |-> <<codes[i] # "OK", codes[i]>>]
<1>1. \A i \in DOMAIN checks : checks[i][1] <=> codes[i] # "OK" OBVIOUS
<1>2. \A i \in DOMAIN checks : checks[i][2] = codes[i] OBVIOUS
<1>3. DOMAIN checks = DOMAIN codes OBVIOUS
<1>4. FirstFailure(checks) = "OK" BY DEF FirstRefusal
<1> HIDE DEF checks
<1>5. \A i \in DOMAIN checks : ~checks[i][1] BY <1>1, <1>2, <1>3, <1>4, NothingFailed
<1> QED BY <1>1, <1>3, <1>5

LEMMA CommonPasses ==
    ASSUME NEW a, CommonFailure(a) = "OK"
    PROVE  /\ Given(a, "source_bar_time") /\ a.source_bar_time # Bad
           /\ Given(a, "schema") /\ a.schema \in DOMAIN EventsOf
           /\ Given(a, "producer_id") /\ <<a.schema, a.producer_id>> \in DOMAIN Allowlist
           /\ Given(a, "event") /\ a.event \in EventsOf[a.schema]
           /\ Given(a, "event_id") /\ Given(a, "producer_revision")
<1> DEFINE schema == Field(a, "schema")
           producer == <<schema, Field(a, "producer_id")>>
           known == producer \in DOMAIN Allowlist
           codes == <<
        If((DOMAIN a) \cap Forbidden # {}, "AMBIGUOUS_OR_ACTION_FIELD"),
        Must(a, "schema", LAMBDA v : v \in DOMAIN EventsOf, "UNSUPPORTED_SCHEMA"),
        Must(a, "producer_id", LAMBDA v : known, "UNSUPPORTED_PRODUCER"),
        Must(a, "producer_revision", LAMBDA v : known /\ v = Allowlist[producer],
             "UNSUPPORTED_PRODUCER_REVISION"),
        Must(a, "event", LAMBDA v : known /\ v \in EventsOf[schema], "UNSUPPORTED_EVENT"),
        Must(a, "source_bar_time", IsTime, "INVALID_TIMESTAMP"),
        If(known /\ (DOMAIN a) \cap Conflicting[schema] # {}, "AMBIGUOUS_OR_ACTION_FIELD"),
        Must(a, "event_id", IsText, "INVALID_TEXT"),
        Must(a, "symbol", IsText, "INVALID_TEXT"),
        Must(a, "feed", IsText, "INVALID_TEXT"),
        Must(a, "confirmed", IsBoolean, "INVALID_BOOLEAN"),
        Must(a, "freshness_status", IsFresh, "INVALID_FRESHNESS"),
        May(a, "emitted_at", IsTime, "INVALID_TIMESTAMP") >>
<1>1. FirstRefusal(codes) = "OK" BY Zenon DEF CommonFailure
<1>2. DOMAIN codes = 1 .. 13 OBVIOUS
<1>3. /\ codes[2] = Must(a, "schema", LAMBDA v : v \in DOMAIN EventsOf, "UNSUPPORTED_SCHEMA")
      /\ codes[3] = Must(a, "producer_id", LAMBDA v : known, "UNSUPPORTED_PRODUCER")
      /\ codes[4] = Must(a, "producer_revision", LAMBDA v : known /\ v = Allowlist[producer],
                         "UNSUPPORTED_PRODUCER_REVISION")
      /\ codes[5] = Must(a, "event", LAMBDA v : known /\ v \in EventsOf[schema], "UNSUPPORTED_EVENT")
      /\ codes[6] = Must(a, "source_bar_time", IsTime, "INVALID_TIMESTAMP")
      /\ codes[8] = Must(a, "event_id", IsText, "INVALID_TEXT")
  OBVIOUS
<1> HIDE DEF codes, known
<1>4. \A i \in 1 .. 13 : codes[i] = "OK" BY <1>1, <1>2, NothingRefused
<1>5. Given(a, "schema") /\ schema = a.schema /\ schema \in DOMAIN EventsOf
  BY <1>3, <1>4 DEF Must, May, Field
<1>6. Given(a, "producer_id") /\ producer = <<a.schema, a.producer_id>> /\ known
  BY <1>3, <1>4, <1>5 DEF Must, May, Field
<1>7. Given(a, "event") /\ a.event \in EventsOf[a.schema]
  BY <1>3, <1>4, <1>5 DEF Must, May, Field
<1>8. Given(a, "source_bar_time") /\ a.source_bar_time # Bad
  BY <1>3, <1>4 DEF Must, May, IsTime
<1>9. Given(a, "event_id") /\ Given(a, "producer_revision") BY <1>3, <1>4 DEF Must, May
<1> QED BY <1>5, <1>6, <1>7, <1>8, <1>9 DEF known
LEMMA LiquidityPasses ==
    ASSUME NEW a, LiquidityFailure(a) = "OK"
    PROVE  /\ Given(a, "side") /\ a.side \in {"ASK", "BID"}
           /\ Given(a, "lifecycle") /\ a.lifecycle = LifecycleOf[a.event]
           /\ Given(a, "level_version") /\ Given(a, "grade")
           /\ \A f \in Numbers \ {"source_bar_time"} :
                 (f = "confirmed_5m_atr14" => Given(a, f)) => Given(a, f) /\ a[f] # Bad
<1> DEFINE first == <<
            Must(a, "side", LAMBDA v : v \in {"ASK", "BID"}, "INVALID_SIDE"),
            If(AnchorTimeframe(a) = Bad, "INVALID_TEXT"),
            CreationFailure(a),
            Must(a, "level_price", IsPositive, "NUMBER_OUT_OF_RANGE"),
            Must(a, "market_price", IsPositive, "NUMBER_OUT_OF_RANGE"),
            Must(a, "tick_size", IsPositive, "NUMBER_OUT_OF_RANGE"),
            If(~OnTickGrid(a), "PRICE_NOT_ON_TICK_GRID") >>
           second == <<
            If(Given(a, "level_id") /\ Field(a, "level_id") # LevelId(a), "LEVEL_ID_MISMATCH"),
            Must(a, "grade", LAMBDA v : v \in {"PRIME", "VALID", "WEAK"}, "INVALID_GRADE"),
            Must(a, "lifecycle", LAMBDA v : v = LifecycleOf[a.event], "LIFECYCLE_EVENT_MISMATCH"),
            Must(a, "created_at_source", IsTime, "INVALID_TIMESTAMP"),
            Must(a, "level_version", IsText, "INVALID_TEXT"),
            Must(a, "mtf_confluence", IsNumber, "INTEGER_OUT_OF_RANGE"),
            Must(a, "touch_count", IsNumber, "INTEGER_OUT_OF_RANGE"),
            May(a, "level_freshness_status", IsFresh, "INVALID_FRESHNESS"),
            May(a, "market_price_freshness_status", IsFresh, "INVALID_FRESHNESS"),
            May(a, "confirmed_5m_atr14", IsPositive, "NUMBER_OUT_OF_RANGE"),
            MustIf(Given(a, "confirmed_5m_atr14"), a, "atr_confirmed", IsBoolean, "INVALID_BOOLEAN"),
            MustIf(Given(a, "confirmed_5m_atr14"), a, "atr_freshness_status", IsFresh,
                   "INVALID_FRESHNESS") >>
<1>1. FirstRefusal(first) = "OK" /\ FirstRefusal(second) = "OK" BY Zenon DEF LiquidityFailure
<1>2. DOMAIN first = 1 .. 7 /\ DOMAIN second = 1 .. 12 OBVIOUS
<1>3. /\ first[1] = Must(a, "side", LAMBDA v : v \in {"ASK", "BID"}, "INVALID_SIDE")
      /\ first[4] = Must(a, "level_price", IsPositive, "NUMBER_OUT_OF_RANGE")
      /\ first[5] = Must(a, "market_price", IsPositive, "NUMBER_OUT_OF_RANGE")
      /\ second[2] = Must(a, "grade", LAMBDA v : v \in {"PRIME", "VALID", "WEAK"}, "INVALID_GRADE")
      /\ second[3] = Must(a, "lifecycle", LAMBDA v : v = LifecycleOf[a.event], "LIFECYCLE_EVENT_MISMATCH")
      /\ second[4] = Must(a, "created_at_source", IsTime, "INVALID_TIMESTAMP")
      /\ second[5] = Must(a, "level_version", IsText, "INVALID_TEXT")
      /\ second[6] = Must(a, "mtf_confluence", IsNumber, "INTEGER_OUT_OF_RANGE")
      /\ second[7] = Must(a, "touch_count", IsNumber, "INTEGER_OUT_OF_RANGE")
      /\ second[10] = May(a, "confirmed_5m_atr14", IsPositive, "NUMBER_OUT_OF_RANGE")
  OBVIOUS
<1> HIDE DEF first, second
<1>4. /\ \A i \in 1 .. 7 : first[i] = "OK"
      /\ \A i \in 1 .. 12 : second[i] = "OK"
  BY <1>1, <1>2, NothingRefused
<1>5. Given(a, "side") /\ a.side \in {"ASK", "BID"} BY <1>3, <1>4 DEF Must, May
<1>6. /\ Given(a, "lifecycle") /\ a.lifecycle = LifecycleOf[a.event]
      /\ Given(a, "level_version") /\ Given(a, "grade")
  BY <1>3, <1>4 DEF Must, May
<1>7. /\ Given(a, "level_price") /\ a.level_price # Bad
      /\ Given(a, "market_price") /\ a.market_price # Bad
      /\ Given(a, "confirmed_5m_atr14") => a.confirmed_5m_atr14 # Bad
  BY <1>3, <1>4 DEF Must, May, IsPositive
<1>8. /\ Given(a, "created_at_source") /\ a.created_at_source # Bad
      /\ Given(a, "mtf_confluence") /\ a.mtf_confluence # Bad
      /\ Given(a, "touch_count") /\ a.touch_count # Bad
  BY <1>3, <1>4 DEF Must, May, IsNumber, IsTime
<1> QED BY <1>5, <1>6, <1>7, <1>8 DEF Numbers

LEMMA ExpansionPasses ==
    ASSUME NEW a, ExpansionFailure(a) = "OK"
    PROVE  Given(a, "direction") /\ a.direction \in {"UP", "DOWN"}
<1> DEFINE directional == a.event \in {"EXP_UP", "EXP_DOWN"}
           codes == <<
        Must(a, "direction", LAMBDA v : v \in {"UP", "DOWN"}, "INVALID_MOVEMENT_DIRECTION"),
        If(directional /\ a.event # (IF Field(a, "direction") = "UP" THEN "EXP_UP" ELSE "EXP_DOWN"),
           "DIRECTION_EVENT_MISMATCH"),
        May(a, "quality", LAMBDA v : v \in {"CLEAN", "WEAK"}, "INVALID_QUALITY"),
        MustIf(directional, a, "path_efficiency", IsRatio, "NUMBER_OUT_OF_RANGE"),
        MustIf(~directional, a, "body_quality", IsRatio, "NUMBER_OUT_OF_RANGE"),
        MustIf(~directional, a, "opposing_bars", IsNumber, "INVALID_INTEGER"),
        MustIf(~directional, a, "too_extended", IsBoolean, "INVALID_BOOLEAN"),
        Must(a, "timeframe", IsText, "INVALID_TEXT"),
        Must(a, "start_price", IsPositive, "NUMBER_OUT_OF_RANGE"),
        Must(a, "market_price", IsPositive, "NUMBER_OUT_OF_RANGE"),
        Must(a, "displacement", IsNumber, "NUMBER_OUT_OF_RANGE"),
        Must(a, "atr", IsPositive, "NUMBER_OUT_OF_RANGE"),
        Must(a, "atr_multiple", IsNumber, "NUMBER_OUT_OF_RANGE"),
        Must(a, "age_bars", IsNumber, "INVALID_INTEGER") >>
<1>1. FirstRefusal(codes) = "OK" BY Zenon DEF ExpansionFailure
<1>2. DOMAIN codes = 1 .. 14 OBVIOUS
<1>3. codes[1] = Must(a, "direction", LAMBDA v : v \in {"UP", "DOWN"}, "INVALID_MOVEMENT_DIRECTION")
  OBVIOUS
<1> HIDE DEF codes
<1>4. \A i \in 1 .. 14 : codes[i] = "OK" BY <1>1, <1>2, NothingRefused
<1> QED BY <1>3, <1>4 DEF Must, May

LEMMA BodyPasses ==
    ASSUME NEW b \in Bodies, BodyFailure(b) = "OK"
    PROVE  ParseFailure(Alert(b)) = "OK" /\ AuthorityFailure(Event(b)) = "OK"
  BY ContentAssumption DEF BodyFailure, Alert

LEMMA OverAt ==
    ASSUME NEW f, NEW g, NEW x
    PROVE  /\ DOMAIN Over(f, g) = (DOMAIN f) \cup (DOMAIN g)
           /\ x \in DOMAIN f => Over(f, g)[x] = f[x]
           /\ x \in DOMAIN g \ DOMAIN f => Over(f, g)[x] = g[x]
  BY DEF Over

\* What the state takes from an alert that parses.
Liquid(a, e) ==
    /\ a.schema = "LIQUIDITY" /\ e.schema = "LIQUIDITY"
    /\ a.side \in {"ASK", "BID"} /\ e.side = a.side
    /\ e.level = LevelId(a) /\ e.level_version = a.level_version
    /\ e.lifecycle \in ActiveLifecycles \cup TerminalLifecycles
    /\ \A f \in Numbers : e[f] \in Int

Moving(a, e) ==
    /\ a.schema = "EXPANSION" /\ e.schema = "EXPANSION"
    /\ e.direction \in {"UP", "DOWN"}

WellFormed(a) ==
    LET e == Canonical(a)
    IN /\ a.source_bar_time \in Int /\ e.source_bar_time = a.source_bar_time
       /\ a.schema \in DOMAIN EventsOf /\ e.schema = a.schema
       /\ e.event \in EventsOf[a.schema] /\ e.event_id = a.event_id /\ ProducerKey(e) = ProducerKey(a)
       /\ a.schema = "LIQUIDITY" => Liquid(a, e)
       /\ a.schema = "EXPANSION" => Moving(a, e)

LEMMA LiquidityWellFormed ==
    ASSUME NEW a, CommonFailure(a) = "OK", LiquidityFailure(a) = "OK", a.schema = "LIQUIDITY",
           \A f \in Numbers : Given(a, f) => a[f] \in Int \cup {Bad}
    PROVE  WellFormed(a)
<1> DEFINE given == IF Given(a, "confirmed_5m_atr14") THEN a ELSE Over(NoAtr, a)
           defaults == [level_freshness_status |-> a.freshness_status,
                        market_price_freshness_status |-> a.freshness_status]
           added == [anchor_timeframe |-> AnchorTimeframe(a), level |-> LevelId(a)]
           e == Over(added, Over(given, defaults))
<1>1. Canonical(a) = e BY DEF Canonical, CanonicalLiquidity
<1>2. \A f \in DOMAIN a : f \notin {"confirmed_5m_atr14", "atr_confirmed", "atr_freshness_status"} =>
         f \in DOMAIN given /\ given[f] = a[f]
  BY DEF Over, NoAtr
<1>3. /\ "confirmed_5m_atr14" \in DOMAIN given
      /\ Given(a, "confirmed_5m_atr14") => given["confirmed_5m_atr14"] = a["confirmed_5m_atr14"]
      /\ ~Given(a, "confirmed_5m_atr14") => given["confirmed_5m_atr14"] = 0
  BY DEF Over, NoAtr, Given
<1>4. \A f \in DOMAIN given : f \notin {"anchor_timeframe", "level"} => e[f] = given[f]
  <2> HIDE DEF given, defaults
  <2> QED BY DEF Over
<1>5. e["level"] = LevelId(a)
  <2> HIDE DEF given, defaults
  <2> QED BY DEF Over
<1> HIDE DEF e, given, defaults, added
<1>6. \A f \in DOMAIN a : f \notin {"confirmed_5m_atr14", "atr_confirmed", "atr_freshness_status",
                                    "anchor_timeframe", "level"} => e[f] = a[f]
  BY <1>2, <1>4
<1>7. /\ "source_bar_time" \in DOMAIN a /\ a.source_bar_time # Bad
      /\ "schema" \in DOMAIN a /\ "event" \in DOMAIN a /\ a.event \in EventsOf[a.schema]
      /\ a.schema \in DOMAIN EventsOf
      /\ {"event_id", "producer_id", "producer_revision"} \subseteq DOMAIN a
  BY CommonPasses DEF Given
<1>8. /\ "side" \in DOMAIN a /\ a.side \in {"ASK", "BID"}
      /\ "lifecycle" \in DOMAIN a /\ a.lifecycle = LifecycleOf[a.event]
      /\ "level_version" \in DOMAIN a
      /\ \A f \in Numbers \ {"source_bar_time"} :
            (f = "confirmed_5m_atr14" => Given(a, f)) => Given(a, f) /\ a[f] # Bad
  BY LiquidityPasses DEF Given
<1>9. \A f \in Numbers \ {"confirmed_5m_atr14"} : f \in DOMAIN a /\ a[f] \in Int
  <2>1. \A f \in Numbers \ {"confirmed_5m_atr14", "source_bar_time"} : Given(a, f) /\ a[f] # Bad BY <1>8
  <2> QED BY <1>7, <2>1 DEF Given
<1>10. \A f \in Numbers \ {"confirmed_5m_atr14"} : e[f] = a[f] /\ e[f] \in Int
  BY <1>6, <1>9 DEF Numbers
<1>11. e["confirmed_5m_atr14"] \in Int
  <2>1. e["confirmed_5m_atr14"] = given["confirmed_5m_atr14"] BY <1>3, <1>4
  <2>2. Given(a, "confirmed_5m_atr14") => a["confirmed_5m_atr14"] \in Int
    BY <1>8 DEF Numbers
  <2> QED BY <1>3, <2>1, <2>2
<1>12. \A f \in Numbers : e[f] \in Int BY <1>10, <1>11
<1>13. /\ e.schema = a.schema /\ e.event = a.event /\ e.event_id = a.event_id /\ e.side = a.side /\ e.lifecycle = a.lifecycle
       /\ e.level_version = a.level_version /\ e.level = LevelId(a)
  BY <1>5, <1>6, <1>7, <1>8
<1>14. a.lifecycle \in ActiveLifecycles \cup TerminalLifecycles
  BY <1>7, <1>8 DEF EventsOf, LifecycleOf, ActiveLifecycles, TerminalLifecycles
<1>15. e.source_bar_time = a.source_bar_time /\ a.source_bar_time \in Int
  BY <1>9, <1>10 DEF Numbers
<1>16. ProducerKey(e) = ProducerKey(a) BY <1>6, <1>7 DEF ProducerKey
<1> QED BY <1>1, <1>7, <1>8, <1>12, <1>13, <1>14, <1>15, <1>16 DEF WellFormed, Liquid

LEMMA ExpansionWellFormed ==
    ASSUME NEW a, CommonFailure(a) = "OK", ExpansionFailure(a) = "OK", a.schema = "EXPANSION",
           \A f \in Numbers : Given(a, f) => a[f] \in Int \cup {Bad}
    PROVE  WellFormed(a)
<1> DEFINE e == Over([timeframe |-> Timeframe(a.timeframe)], a)
<1>1. Canonical(a) = e BY DEF Canonical
<1>2. \A f \in DOMAIN a : f # "timeframe" => e[f] = a[f] BY DEF Over
<1> HIDE DEF e
<1>3. /\ "source_bar_time" \in DOMAIN a /\ a.source_bar_time # Bad
      /\ "schema" \in DOMAIN a /\ "event" \in DOMAIN a /\ a.event \in EventsOf[a.schema]
      /\ a.schema \in DOMAIN EventsOf
      /\ {"event_id", "producer_id", "producer_revision"} \subseteq DOMAIN a
  BY CommonPasses DEF Given
<1>4. "direction" \in DOMAIN a /\ a.direction \in {"UP", "DOWN"} BY ExpansionPasses DEF Given
<1>5. a.source_bar_time \in Int BY <1>3 DEF Given, Numbers
<1>6. ProducerKey(e) = ProducerKey(a) BY <1>2, <1>3 DEF ProducerKey
<1> QED BY <1>1, <1>2, <1>3, <1>4, <1>5, <1>6 DEF WellFormed, Moving

LEMMA RenkoWellFormed ==
    ASSUME NEW a, CommonFailure(a) = "OK", a.schema = "RENKO",
           \A f \in Numbers : Given(a, f) => a[f] \in Int \cup {Bad}
    PROVE  WellFormed(a)
<1> DEFINE named == IF HasCycle(a) THEN Over([cycle_id |-> CycleId(a)], a) ELSE a
           e == Over([timeframe |-> Timeframe(a.timeframe), stage |-> StageOf[a.event]], named)
<1>1. Canonical(a) = e BY DEF Canonical
<1>2. \A f \in DOMAIN a : f \notin {"timeframe", "stage", "cycle_id"} => e[f] = a[f] BY DEF Over
<1> HIDE DEF e
<1>3. /\ "source_bar_time" \in DOMAIN a /\ a.source_bar_time # Bad
      /\ "schema" \in DOMAIN a /\ "event" \in DOMAIN a /\ a.event \in EventsOf[a.schema]
      /\ a.schema \in DOMAIN EventsOf
      /\ {"event_id", "producer_id", "producer_revision"} \subseteq DOMAIN a
  BY CommonPasses DEF Given
<1>4. a.source_bar_time \in Int BY <1>3 DEF Given, Numbers
<1>5. ProducerKey(e) = ProducerKey(a) BY <1>2, <1>3 DEF ProducerKey
<1> QED BY <1>1, <1>2, <1>3, <1>4, <1>5 DEF WellFormed

LEMMA ValidWellFormed ==
    ASSUME NEW b \in Bodies, BodyFailure(b) = "OK"
    PROVE  WellFormed(Alert(b))
<1> DEFINE a == Alert(b)
<1>1. ParseFailure(a) = "OK" BY BodyPasses
<1>2. \A f \in Numbers : Given(a, f) => a[f] \in Int \cup {Bad} BY ContentAssumption
<1> HIDE DEF a
<1>3. CommonFailure(a) = "OK" BY <1>1 DEF ParseFailure
<1>4. a.schema \in {"LIQUIDITY", "EXPANSION", "RENKO"} BY <1>3, CommonPasses DEF EventsOf
<1>5. /\ a.schema = "LIQUIDITY" => LiquidityFailure(a) = "OK"
      /\ a.schema = "EXPANSION" => ExpansionFailure(a) = "OK"
  BY <1>1, <1>3 DEF ParseFailure
<1>6. WellFormed(a)
  BY <1>2, <1>3, <1>4, <1>5, LiquidityWellFormed, ExpansionWellFormed, RenkoWellFormed
<1> QED BY <1>6 DEF a

----------------------------------------------------------------------------
(* Receptions: the invariant of the transactions and of the answers *)

OnLedger(b) == \E a \in ledger : Alert(a) = Alert(b)

\* A reception that decides has a body that passed the checks; one that
\* refuses has decided on neither an acceptance nor a 200.
Receptions ==
    /\ DOMAIN receiver = Receivers
    /\ \A r \in Receivers :
          \/ receiver[r] = Idle
          \/ receiver[r].at = "deciding" /\ receiver[r].body \in Valid
          \/ /\ receiver[r].at = "refusing" /\ receiver[r].body \in Bodies
             /\ receiver[r].status \in {"CONFLICT", "REJECTED"} /\ receiver[r].http # 200

\* A receipt that answers 200 speaks of an alert of the ledger.
ReceiptsTrue == \A b \in DOMAIN receipts : HttpOf(receipts[b].status) = 200 => OnLedger(b)

\* The ledger holds valid bodies that have receipts, and each id once.
LedgerKept ==
    /\ IsFiniteSet(ledger) /\ ledger \subseteq Valid /\ ledger \subseteq DOMAIN receipts
    /\ \A a, b \in Alerts(ledger) : ProducerKey(a) = ProducerKey(b) => a = b

IngressInv == Receptions /\ ReceiptsTrue /\ LedgerKept /\ AcceptedIsOnLedger

LEMMA IngressInit ==
    ASSUME Init
    PROVE  IngressInv
<1>1. Receptions BY DEF Init, Receptions
<1>2. ReceiptsTrue BY DEF Init, ReceiptsTrue
<1>3. LedgerKept BY FS_EmptySet DEF Init, LedgerKept, Alerts
<1>4. AcceptedIsOnLedger BY DEF Init, AcceptedIsOnLedger
<1> QED BY <1>1, <1>2, <1>3, <1>4 DEF IngressInv

\* A step that leaves the receipts, the ledger and the answers.
LEMMA OnlyReceptionsMove ==
    ASSUME IngressInv, Receptions', UNCHANGED <<receipts, ledger, answers>>
    PROVE  IngressInv'
<1>1. ReceiptsTrue' BY DEF IngressInv, ReceiptsTrue, OnLedger
<1>2. LedgerKept' BY DEF IngressInv, LedgerKept
<1>3. AcceptedIsOnLedger' BY DEF IngressInv, AcceptedIsOnLedger
<1> QED BY <1>1, <1>2, <1>3 DEF IngressInv

\* A reception that ends with an answer its body deserves.
LEMMA Answered ==
    ASSUME IngressInv, NEW r \in Receivers, NEW b, NEW http, Answer(r, b, http),
           http = 200 => \E a \in ledger' : Alert(a) = Alert(b), ReceiptsTrue', LedgerKept', ledger \subseteq ledger'
    PROVE  IngressInv'
<1>1. Receptions' BY DEF IngressInv, Receptions, Answer
<1>2. AcceptedIsOnLedger'
  <2> SUFFICES ASSUME NEW a \in answers', a.http = 200
               PROVE  \E x \in ledger' : Alert(x) = Alert(a.body)
    BY DEF AcceptedIsOnLedger
  <2>1. CASE a \in answers BY <2>1 DEF IngressInv, AcceptedIsOnLedger
  <2>2. CASE a = [body |-> b, http |-> http] BY <2>2 DEF OnLedger
  <2> QED BY <2>1, <2>2 DEF Answer
<1> QED BY <1>1, <1>2 DEF IngressInv

LEMMA PostKeeps ==
    ASSUME IngressInv, NEW r \in Receivers, NEW b \in Bodies, Post(r, b)
    PROVE  IngressInv'
<1>1. UNCHANGED <<receipts, ledger>> BY DEF Post, durable
<1>2. ReceiptsTrue' /\ LedgerKept' BY <1>1 DEF IngressInv, ReceiptsTrue, LedgerKept, OnLedger
<1>3. CASE b \in DOMAIN receipts
  <2>1. Answer(r, b, HttpOf(receipts[b].status)) BY <1>3 DEF Post
  <2>2. HttpOf(receipts[b].status) = 200 => \E a \in ledger' : Alert(a) = Alert(b)
    BY <1>1, <1>3 DEF IngressInv, ReceiptsTrue, OnLedger
  <2> QED BY <1>1, <1>2, <2>1, <2>2, Answered
<1>4. CASE b \notin DOMAIN receipts
  <2>1. UNCHANGED answers BY <1>4 DEF Post
  <2>2. Receptions'
    <3>1. CASE b \in Valid BY <1>4, <3>1 DEF Post, IngressInv, Receptions
    <3>2. CASE b \notin Valid BY <1>4, <3>2 DEF Post, Refused, IngressInv, Receptions
    <3> QED BY <3>1, <3>2
  <2> QED BY <1>1, <2>1, <2>2, OnlyReceptionsMove
<1> QED BY <1>3, <1>4

LEMMA SettleKeeps ==
    ASSUME IngressInv, NEW r \in Receivers, receiver[r].at = "deciding", NEW c, Settle(r, c)
    PROVE  IngressInv'
<1> DEFINE b == receiver[r].body
           twins == {a \in Alerts(ledger) : ProducerKey(a) = ProducerKey(Alert(b))}
           duplicate == \E a \in twins : SameContent(a, Alert(b))
<1>1. b \in Valid BY DEF IngressInv, Receptions, Idle
<1>2. CASE b \in DOMAIN receipts
  <2>1. Answer(r, b, HttpOf(receipts[b].status)) /\ UNCHANGED durable BY <1>2 DEF Settle
  <2>2. UNCHANGED <<receipts, ledger>> BY <2>1 DEF durable
  <2>3. ReceiptsTrue' /\ LedgerKept' BY <2>2 DEF IngressInv, ReceiptsTrue, LedgerKept, OnLedger
  <2>4. HttpOf(receipts[b].status) = 200 => \E a \in ledger' : Alert(a) = Alert(b)
    BY <1>2, <2>2 DEF IngressInv, ReceiptsTrue, OnLedger
  <2> QED BY <2>1, <2>2, <2>3, <2>4, Answered
<1>3. CASE b \notin DOMAIN receipts /\ duplicate
  <2>1. Received(b, "DUPLICATE") /\ Answer(r, b, 200) /\ UNCHANGED ledger
    BY <1>3 DEF Settle, durable
  <2>2. \E a \in ledger' : Alert(a) = Alert(b) BY <1>3, <2>1 DEF OnLedger, Alerts, SameContent
  <2>3. ReceiptsTrue' BY <2>1, <2>2 DEF IngressInv, ReceiptsTrue, OnLedger, Received, Over
  <2>4. LedgerKept' BY <2>1 DEF IngressInv, LedgerKept, Received, Over
  <2> QED BY <2>1, <2>2, <2>3, <2>4, Answered
<1>4. CASE b \notin DOMAIN receipts /\ ~duplicate
  <2> DEFINE failure == CASE twins # {} -> "EVENT_ID_CONFLICT"
                     [] twins = {} /\ c.failure # "OK" -> c.failure
                     [] twins = {} /\ c.failure = "OK" /\ ActiveTouch(Event(b), receiver[r].seen)
                           -> TouchFailure(Event(b))
                     [] OTHER -> "OK"
         broken == twins = {} /\ Broken(c)
  <2>1. IF failure = "OK" /\ ~broken THEN Accept(r, c)
        ELSE /\ IF broken THEN Refused(r, b, "REJECTED", "PRODUCER_ADAPTER_FAILURE", 503)
                ELSE Refused(r, b, "CONFLICT", failure, 409)
             /\ UNCHANGED <<durable, answers>>
    BY <1>4 DEF Settle
  <2>2. CASE failure # "OK" \/ broken
    <3>1. /\ \/ Refused(r, b, "REJECTED", "PRODUCER_ADAPTER_FAILURE", 503)
             \/ Refused(r, b, "CONFLICT", failure, 409)
          /\ UNCHANGED <<durable, answers>>
      BY <2>1, <2>2
    <3>2. UNCHANGED <<receipts, ledger, answers>> BY <3>1 DEF durable
    <3> HIDE DEF failure
    <3>3. Receptions' BY <1>1, <3>1 DEF IngressInv, Receptions, Refused, Valid
    <3> QED BY <3>2, <3>3, OnlyReceptionsMove
  <2>3. CASE failure = "OK" /\ ~broken
    <3>1. Accept(r, c) BY <2>1, <2>3
    <3>2. twins = {} BY <2>3
    <3>3. Received(b, "ACCEPTED") /\ ledger' = ledger \cup {b} /\ Answer(r, b, 200) BY <3>1 DEF Accept
    <3> HIDE DEF failure
    <3>4. \E a \in ledger' : Alert(a) = Alert(b) BY <3>3 DEF OnLedger
    <3>5. ReceiptsTrue' BY <3>3, <3>4 DEF IngressInv, ReceiptsTrue, OnLedger, Received, Over
    <3>6. Alerts(ledger)' = Alerts(ledger) \cup {Alert(b)} BY <3>3 DEF Alerts
    <3>7. \A x, y \in Alerts(ledger)' : ProducerKey(x) = ProducerKey(y) => x = y
      BY <3>2, <3>6 DEF IngressInv, LedgerKept
    <3>8. IsFiniteSet(ledger') BY <3>3, FS_AddElement DEF IngressInv, LedgerKept
    <3>9. ledger' \subseteq Valid BY <1>1, <3>3 DEF IngressInv, LedgerKept
    <3>10. ledger' \subseteq DOMAIN receipts' BY <3>3 DEF IngressInv, LedgerKept, Received, Over
    <3>11. LedgerKept' BY <3>7, <3>8, <3>9, <3>10 DEF LedgerKept
    <3> QED BY <3>3, <3>4, <3>5, <3>11, Answered
  <2> QED BY <2>2, <2>3
<1> QED BY <1>2, <1>3, <1>4

LEMMA RefuseKeeps ==
    ASSUME IngressInv, NEW r \in Receivers, Refuse(r)
    PROVE  IngressInv'
<1> DEFINE p == receiver[r]
<1>1. /\ p.at = "refusing" /\ ledger' = ledger /\ Answer(r, p.body, p.http)
      /\ receipts' = IF p.body \in DOMAIN receipts THEN receipts
                     ELSE Over([k \in {p.body} |-> [status |-> p.status, code |-> p.code]], receipts)
  BY DEF Refuse
<1>2. p.status \in {"CONFLICT", "REJECTED"} /\ p.http # 200 BY <1>1 DEF IngressInv, Receptions, Idle
<1>3. HttpOf(p.status) # 200 BY <1>2 DEF HttpOf
<1>4. ReceiptsTrue'
  <2> SUFFICES ASSUME NEW b \in DOMAIN receipts', HttpOf(receipts'[b].status) = 200
               PROVE  OnLedger(b)'
    BY DEF ReceiptsTrue
  <2>1. b \in DOMAIN receipts /\ receipts'[b] = receipts[b] BY <1>1, <1>3 DEF Over
  <2> QED BY <1>1, <2>1 DEF IngressInv, ReceiptsTrue, OnLedger
<1>5. LedgerKept' BY <1>1 DEF IngressInv, LedgerKept, Over
<1> QED BY <1>1, <1>2, <1>4, <1>5, Answered

LEMMA IngressStep ==
    ASSUME IngressInv, [Next]_ingressVars
    PROVE  IngressInv'
<1>1. ASSUME NEW r \in Receivers, Receive(r) PROVE IngressInv'
  <2>1. ASSUME NEW b \in Bodies, Post(r, b) PROVE IngressInv' BY <2>1, PostKeeps
  <2>2. CASE Decide(r) BY <2>2, SettleKeeps DEF Decide
  <2>3. CASE Busy(r)
    <3>1. Receptions' BY <2>3 DEF Busy, Refused, IngressInv, Receptions, Valid, Idle
    <3> QED BY <2>3, <3>1, OnlyReceptionsMove DEF Busy, durable
  <2>4. CASE Refuse(r) BY <2>4, RefuseKeeps
  <2>5. CASE RefuseUnrecorded(r)
    <3>1. UNCHANGED <<receipts, ledger>> /\ Answer(r, receiver[r].body, 503)
      BY <2>5 DEF RefuseUnrecorded, durable
    <3>2. ReceiptsTrue' /\ LedgerKept' BY <3>1 DEF IngressInv, ReceiptsTrue, LedgerKept, OnLedger
    <3> QED BY <3>1, <3>2, Answered
  <2>6. CASE Stop(r)
    <3>1. Receptions' BY <2>6 DEF Stop, IngressInv, Receptions
    <3> QED BY <2>6, <3>1, OnlyReceptionsMove DEF Stop, durable
  <2> QED BY <1>1, <2>1, <2>2, <2>3, <2>4, <2>5, <2>6 DEF Receive
<1>2. ASSUME UNCHANGED <<receipts, ledger, receiver, answers>> PROVE IngressInv'
  <2>1. Receptions' BY <1>2 DEF IngressInv, Receptions
  <2> QED BY <1>2, <2>1, OnlyReceptionsMove
<1>3. ASSUME NEW w \in Workers, Work(w) PROVE IngressInv'
  <2>1. UNCHANGED <<receipts, ledger, receiver, answers>>
    BY <1>3 DEF Work, See, Claim, Finish, durable
  <2> QED BY <1>2, <2>1
<1>4. CASE Tick BY <1>2, <1>4 DEF Tick, durable
<1>5. CASE UNCHANGED ingressVars BY <1>2, <1>5 DEF ingressVars
<1> QED BY <1>1, <1>3, <1>4, <1>5 DEF Next

\* Whoever is told that an alert was accepted finds that very alert on the
\* ledger, whatever raced it.
THEOREM AcceptedAlertsAreKept == Spec => []AcceptedIsOnLedger
<1>1. Init => IngressInv BY IngressInit
<1>2. IngressInv /\ [Next]_ingressVars => IngressInv' BY IngressStep
<1>3. IngressInv => AcceptedIsOnLedger BY DEF IngressInv
<1> QED BY <1>1, <1>2, <1>3, PTL DEF Spec

----------------------------------------------------------------------------
(* Research: each touch of a level once, in turn, by one worker *)

LEMMA TouchNumbers ==
    ASSUME NEW b \in Valid, Event(b).event = "LIQ_TOUCH"
    PROVE  /\ Event(b).touch_count \in Int /\ Event(b).source_bar_time \in Int
           /\ Alert(b).schema = "LIQUIDITY"
<1>1. WellFormed(Alert(b)) BY ValidWellFormed DEF Valid
<1>2. Alert(b).schema = "LIQUIDITY"
  BY <1>1 DEF WellFormed, Event, EventsOf, LifecycleOf, StageOf
<1> QED BY <1>1, <1>2 DEF WellFormed, Liquid, Event, Numbers

Entry == [status : {"PENDING", "CLAIMED", "COMPLETED", "FAILED"}, worker : Workers \cup {Nobody}]

\* Pending, then claimed by one worker, then reported by the same.
History(said) ==
    /\ said \in Seq(Entry) /\ Len(said) \in 1 .. 3 /\ said[1].status = "PENDING"
    /\ Len(said) >= 2 => said[2].status = "CLAIMED"
    /\ Len(said) = 3 => said[3].status \in {"COMPLETED", "FAILED"} /\ said[3].worker = said[2].worker

\* A request is of a touch that the ledger keeps, and has a history; what a
\* worker saw is a request.
Recorded ==
    /\ \A q \in requests : q.body \in ledger /\ Event(q.body).event = "LIQ_TOUCH"
    /\ \A q \in requests : q.body \in DOMAIN statuses
    /\ DOMAIN statuses \subseteq ledger
    /\ \A b \in DOMAIN statuses : History(statuses[b])

WorkersKnow ==
    /\ DOMAIN worker = Workers
    /\ \A w \in Workers : worker[w] = Idle \/ worker[w].body \in DOMAIN statuses

\* A level that was requested has a last request: what a re-touch is compared
\* with is never missing.
LatestKnown == \A q \in requests : LatestOf(Event(q.body).level) # {}

ResearchInv == Recorded /\ WorkersKnow /\ LatestKnown /\ TouchesAdvance

LEMMA ResearchInit ==
    ASSUME Init
    PROVE  ResearchInv
<1>1. Recorded BY DEF Init, Recorded
<1>2. WorkersKnow BY DEF Init, WorkersKnow
<1>3. LatestKnown BY DEF Init, LatestKnown
<1>4. TouchesAdvance BY DEF Init, TouchesAdvance
<1> QED BY <1>1, <1>2, <1>3, <1>4 DEF ResearchInv

\* A step that makes no request keeps what is said of the touches.
LEMMA TouchesStay ==
    ASSUME ResearchInv, UNCHANGED requests
    PROVE  LatestKnown' /\ TouchesAdvance'
<1>1. LatestKnown' BY DEF ResearchInv, LatestKnown, LatestOf, Requested
<1>2. TouchesAdvance' BY DEF ResearchInv, TouchesAdvance
<1> QED BY <1>1, <1>2

LEMMA RequestedTouches ==
    ASSUME IngressInv, Recorded, NEW level
    PROVE  \A t \in Requested(level) :
             t.level = level /\ t.touch_count \in Int /\ t.source_bar_time \in Int
<1> SUFFICES ASSUME NEW q \in requests, Event(q.body).level = level
             PROVE  Event(q.body).touch_count \in Int /\ Event(q.body).source_bar_time \in Int
  BY DEF Requested
<1>1. q.body \in Valid /\ Event(q.body).event = "LIQ_TOUCH" BY DEF IngressInv, LedgerKept, Recorded
<1> QED BY <1>1, TouchNumbers

\* A touch that passes the test comes after every request of its level.
LEMMA NewTouchIsLast ==
    ASSUME IngressInv, ResearchInv, NEW e, e.touch_count \in Int, e.source_bar_time \in Int,
           SameEvidence(e) = {}, TouchFailure(e) = "OK"
    PROVE  \A t \in Requested(e.level) :
             t.touch_count < e.touch_count /\ t.source_bar_time < e.source_bar_time
<1> SUFFICES ASSUME NEW t \in Requested(e.level)
             PROVE  t.touch_count < e.touch_count /\ t.source_bar_time < e.source_bar_time
  OBVIOUS
<1>1. PICK q \in requests : t = Event(q.body) /\ Event(q.body).level = e.level BY DEF Requested
<1>2. PICK last : last \in LatestOf(e.level) BY <1>1 DEF ResearchInv, LatestKnown
<1>3. last \in Requested(e.level) /\ t.touch_count <= last.touch_count BY <1>2 DEF LatestOf
<1>4. Advances(e, last) BY <1>2 DEF TouchFailure
<1>5. /\ last.touch_count \in Int /\ last.source_bar_time \in Int
      /\ t.touch_count \in Int /\ t.source_bar_time \in Int /\ last.level = t.level
  BY <1>3, RequestedTouches DEF ResearchInv
<1>6. last = t \/ t.source_bar_time < last.source_bar_time
  <2> SUFFICES ASSUME last # t PROVE t.source_bar_time < last.source_bar_time OBVIOUS
  <2>1. PICK p \in requests : last = Event(p.body) BY <1>3 DEF Requested
  <2>2. /\ t.touch_count # last.touch_count
        /\ t.touch_count < last.touch_count <=> t.source_bar_time < last.source_bar_time
    BY <1>1, <1>5, <2>1 DEF ResearchInv, TouchesAdvance
  <2>3. t.touch_count < last.touch_count BY <1>3, <1>5, <2>2
  <2> QED BY <2>2, <2>3
<1> QED BY <1>3, <1>4, <1>5, <1>6 DEF Advances

\* The request of a touch that is the last of its level.
LEMMA LastTouchJoins ==
    ASSUME IngressInv, ResearchInv, NEW b \in Valid, NEW q, q.body = b,
           Event(b).event = "LIQ_TOUCH", requests' = requests \cup {q},
           \A t \in Requested(Event(b).level) :
             t.touch_count < Event(b).touch_count /\ t.source_bar_time < Event(b).source_bar_time
    PROVE  LatestKnown' /\ TouchesAdvance'
<1> DEFINE e == Event(b)
<1>1. e.touch_count \in Int /\ e.source_bar_time \in Int BY TouchNumbers
<1>2. \A level : Requested(level)' = IF e.level = level THEN Requested(level) \cup {e} ELSE Requested(level)
  BY DEF Requested
<1>3. \A level : \A t \in Requested(level) :
         t.level = level /\ t.touch_count \in Int /\ t.source_bar_time \in Int
  BY RequestedTouches DEF ResearchInv
<1>4. TouchesAdvance'
  <2> SUFFICES ASSUME NEW p \in {Event(request.body) : request \in requests'},
                      NEW o \in {Event(request.body) : request \in requests'},
                      p.level = o.level, p # o
               PROVE  /\ p.touch_count # o.touch_count
                      /\ p.touch_count < o.touch_count <=> p.source_bar_time < o.source_bar_time
    BY DEF TouchesAdvance
  <2> DEFINE before == {Event(request.body) : request \in requests}
  <2>1. (p \in before \/ p = e) /\ (o \in before \/ o = e) OBVIOUS
  <2>2. CASE p \in before /\ o \in before BY <2>2 DEF ResearchInv, TouchesAdvance
  <2>3. CASE p \in before /\ o = e
    <3>1. p \in Requested(e.level) BY <2>3 DEF Requested
    <3> QED BY <1>1, <1>3, <2>3, <3>1
  <2>4. CASE o \in before /\ p = e
    <3>1. o \in Requested(e.level) BY <2>4 DEF Requested
    <3> QED BY <1>1, <1>3, <2>4, <3>1
  <2> QED BY <2>1, <2>2, <2>3, <2>4
<1>5. LatestKnown'
  <2> SUFFICES ASSUME NEW p \in requests' PROVE LatestOf(Event(p.body).level)' # {}
    BY DEF LatestKnown
  <2> DEFINE level == Event(p.body).level
  <2>1. CASE level = e.level
    <3> HIDE DEF e
    <3>1. \A o \in Requested(level) \cup {e} : o.touch_count <= e.touch_count
      BY <1>1, <1>3, <2>1 DEF e
    <3>2. e \in LatestOf(level)' BY <1>2, <2>1, <3>1 DEF LatestOf
    <3> QED BY <3>2
  <2>2. CASE level # e.level
    <3>1. p \in requests BY <2>2
    <3>2. Requested(level)' = Requested(level) BY <1>2, <2>2
    <3>3. LatestOf(level)' = LatestOf(level) BY <3>2 DEF LatestOf
    <3> QED BY <3>1, <3>3 DEF ResearchInv, LatestKnown
  <2> QED BY <2>1, <2>2
<1> QED BY <1>4, <1>5

LEMMA AcceptKeepsResearch ==
    ASSUME IngressInv, ResearchInv, NEW r \in Receivers, NEW c, receiver[r].body \in Valid,
           receiver[r].body \notin DOMAIN receipts, Accept(r, c), worker' = worker,
           ActiveTouch(Event(receiver[r].body), receiver[r].seen) =>
               TouchFailure(Event(receiver[r].body)) = "OK"
    PROVE  ResearchInv'
<1>0. PICK b \in Valid : b = receiver[r].body OBVIOUS
<1> DEFINE e == Event(b)
           wakes == ActiveTouch(e, receiver[r].seen) /\ SameEvidence(e) = {}
<1>1. /\ ledger' = ledger \cup {b}
      /\ requests' = IF wakes THEN requests \cup {[body |-> b, bundle |-> c.bundle]} ELSE requests
      /\ statuses' = IF wakes
                     THEN Over([k \in {b} |-> <<[status |-> "PENDING", worker |-> Nobody]>>], statuses)
                     ELSE statuses
  BY <1>0 DEF Accept
<1>2. b \notin ledger BY <1>0 DEF IngressInv, LedgerKept
<1>3. CASE ~wakes
  <2>1. requests' = requests /\ statuses' = statuses BY <1>1, <1>3
  <2>2. Recorded' BY <1>1, <2>1 DEF ResearchInv, Recorded
  <2>3. WorkersKnow' BY <2>1 DEF ResearchInv, WorkersKnow
  <2> QED BY <2>1, <2>2, <2>3, TouchesStay DEF ResearchInv
<1>4. CASE wakes
  <2>1. e.event = "LIQ_TOUCH" BY <1>4 DEF ActiveTouch
  <2>2. e.touch_count \in Int /\ e.source_bar_time \in Int BY <2>1, TouchNumbers
  <2>3. TouchFailure(e) = "OK" BY <1>0, <1>4
  <2> DEFINE q == [body |-> b, bundle |-> c.bundle]
             first == <<[status |-> "PENDING", worker |-> Nobody]>>
  <2>4. requests' = requests \cup {q} /\ q.body = b BY <1>1, <1>4
  <2>5. \A t \in Requested(e.level) :
           t.touch_count < e.touch_count /\ t.source_bar_time < e.source_bar_time
    BY <1>4, <2>2, <2>3, NewTouchIsLast
  <2> HIDE DEF q
  <2>6. LatestKnown' /\ TouchesAdvance' BY <2>1, <2>4, <2>5, LastTouchJoins
  <2>7. statuses' = Over([k \in {b} |-> first], statuses) BY <1>1, <1>4
  <2>8. History(first) BY DEF History, Entry
  <2> HIDE DEF first
  <2>9. /\ DOMAIN statuses' = (DOMAIN statuses) \cup {b}
        /\ \A k \in DOMAIN statuses : k # b => statuses'[k] = statuses[k]
        /\ statuses'[b] = first
    BY <2>7 DEF Over
  <2>10. Recorded' BY <1>1, <2>1, <2>4, <2>8, <2>9 DEF ResearchInv, Recorded
  <2>11. WorkersKnow' BY <2>9 DEF ResearchInv, WorkersKnow
  <2> QED BY <2>6, <2>10, <2>11 DEF ResearchInv
<1> QED BY <1>3, <1>4

LEMMA SettleKeepsResearch ==
    ASSUME IngressInv, ResearchInv, NEW r \in Receivers, receiver[r].at = "deciding", NEW c, Settle(r, c)
    PROVE  ResearchInv'
<1> DEFINE b == receiver[r].body
           twins == {a \in Alerts(ledger) : ProducerKey(a) = ProducerKey(Alert(b))}
           duplicate == \E a \in twins : SameContent(a, Alert(b))
           touch == ActiveTouch(Event(b), receiver[r].seen)
           failure == CASE twins # {} -> "EVENT_ID_CONFLICT"
                        [] twins = {} /\ c.failure # "OK" -> c.failure
                        [] twins = {} /\ c.failure = "OK" /\ touch -> TouchFailure(Event(b))
                        [] OTHER -> "OK"
           broken == twins = {} /\ Broken(c)
<1>1. b \in Valid BY DEF IngressInv, Receptions, Idle
<1>2. worker' = worker BY DEF Settle
<1>3. ASSUME UNCHANGED <<ledger, requests, statuses>> PROVE ResearchInv'
  <2>1. Recorded' BY <1>3 DEF ResearchInv, Recorded
  <2>2. WorkersKnow' BY <1>2, <1>3 DEF ResearchInv, WorkersKnow
  <2> QED BY <1>3, <2>1, <2>2, TouchesStay DEF ResearchInv
<1>4. CASE b \in DOMAIN receipts BY <1>3, <1>4 DEF Settle, durable
<1>5. CASE b \notin DOMAIN receipts /\ duplicate BY <1>3, <1>5 DEF Settle
<1>6. CASE b \notin DOMAIN receipts /\ ~duplicate
  <2>1. IF failure = "OK" /\ ~broken THEN Accept(r, c)
        ELSE /\ IF broken THEN Refused(r, b, "REJECTED", "PRODUCER_ADAPTER_FAILURE", 503)
                ELSE Refused(r, b, "CONFLICT", failure, 409)
             /\ UNCHANGED <<durable, answers>>
    BY <1>6 DEF Settle
  <2>2. CASE failure # "OK" \/ broken BY <1>3, <2>1, <2>2 DEF durable
  <2>3. CASE failure = "OK" /\ ~broken
    <3>1. Accept(r, c) BY <2>1, <2>3
    <3>2. touch => TouchFailure(Event(b)) = "OK" BY <2>3
    <3> QED BY <1>1, <1>2, <1>6, <3>1, <3>2, AcceptKeepsResearch
  <2> QED BY <2>2, <2>3
<1> QED BY <1>4, <1>5, <1>6

LEMMA HistoryGrows ==
    ASSUME NEW said, History(said), NEW x \in Entry,
           \/ Len(said) = 1 /\ x.status = "CLAIMED"
           \/ Len(said) = 2 /\ x.status \in {"COMPLETED", "FAILED"} /\ x.worker = said[2].worker
    PROVE  History(Append(said, x))
<1> DEFINE t == Append(said, x)
<1>1. said \in Seq(Entry) /\ Len(said) \in Nat BY DEF History
<1>2. /\ t \in Seq(Entry) /\ Len(t) = Len(said) + 1
      /\ \A i \in 1 .. Len(said) : t[i] = said[i]
      /\ t[Len(said) + 1] = x
  BY <1>1
<1> HIDE DEF t
<1>3. said[1].status = "PENDING" /\ (Len(said) = 2 => said[2].status = "CLAIMED")
  BY DEF History
<1>4. CASE Len(said) = 1
  <2>1. t[1] = said[1] /\ t[2] = x /\ Len(t) = 2 BY <1>2, <1>4
  <2> QED BY <1>2, <1>3, <1>4, <2>1 DEF History, t
<1>5. CASE Len(said) = 2
  <2>1. t[1] = said[1] /\ t[2] = said[2] /\ t[3] = x /\ Len(t) = 3 BY <1>2, <1>5
  <2> QED BY <1>2, <1>3, <1>5, <2>1 DEF History, t
<1> QED BY <1>4, <1>5

LEMMA HistoryEnds ==
    ASSUME NEW said, History(said)
    PROVE  /\ Last(said).status = "PENDING" => Len(said) = 1
           /\ Last(said).status = "CLAIMED" => Len(said) = 2
<1>1. Len(said) \in 1 .. 3 BY DEF History
<1>2. Len(said) = 1 \/ Len(said) = 2 \/ Len(said) = 3 BY <1>1
<1>3. /\ Len(said) = 1 => said[1].status = "PENDING"
      /\ Len(said) = 2 => said[2].status = "CLAIMED"
      /\ Len(said) = 3 => said[3].status \in {"COMPLETED", "FAILED"}
  BY <1>2 DEF History
<1> QED BY <1>2, <1>3 DEF Last

\* A worker step: the history of one request may grow by one entry.
LEMMA WorkKeeps ==
    ASSUME IngressInv, ResearchInv, NEW w \in Workers, Work(w)
    PROVE  ResearchInv'
<1>1. UNCHANGED <<ledger, requests>> BY DEF Work, See, Claim, Finish, durable
<1>2. LatestKnown' /\ TouchesAdvance' BY <1>1, TouchesStay
<1>3. ASSUME NEW q \in requests, See(w, q) PROVE Recorded' /\ WorkersKnow'
  <2>1. statuses' = statuses /\ worker' = [worker EXCEPT ![w] = [at |-> "seen", body |-> q.body]]
    BY <1>3 DEF See, durable
  <2>2. q.body \in DOMAIN statuses BY <1>3 DEF ResearchInv, Recorded
  <2>3. Recorded' BY <1>1, <2>1 DEF ResearchInv, Recorded
  <2>4. WorkersKnow' BY <2>1, <2>2 DEF ResearchInv, WorkersKnow
  <2> QED BY <2>3, <2>4
<1>4. ASSUME NEW b \in DOMAIN statuses, NEW status \in {"CLAIMED", "COMPLETED", "FAILED"},
             Report(w, b, status),
             History(Append(statuses[b], [status |-> status, worker |-> w]))
      PROVE  Recorded' /\ DOMAIN statuses' = DOMAIN statuses
  <2>1. /\ DOMAIN statuses' = DOMAIN statuses
        /\ \A k \in DOMAIN statuses : k # b => statuses'[k] = statuses[k]
        /\ statuses'[b] = Append(statuses[b], [status |-> status, worker |-> w])
    BY <1>4 DEF Report
  <2>2. \A k \in DOMAIN statuses' : History(statuses'[k])
    BY <1>4, <2>1 DEF ResearchInv, Recorded
  <2> QED BY <1>1, <2>1, <2>2 DEF ResearchInv, Recorded
<1>5. CASE Claim(w)
  <2> DEFINE b == worker[w].body
  <2>1. b \in DOMAIN statuses BY <1>5 DEF Claim, ResearchInv, WorkersKnow, Idle
  <2>2. CASE Last(statuses[b]).status = "PENDING"
    <3>1. Report(w, b, "CLAIMED") /\ worker' = [worker EXCEPT ![w] = [at |-> "claimed", body |-> b]]
      BY <1>5, <2>2 DEF Claim
    <3>2. History(statuses[b]) BY <2>1 DEF ResearchInv, Recorded
    <3>3. Len(statuses[b]) = 1 BY <2>2, <3>2, HistoryEnds
    <3>4. [status |-> "CLAIMED", worker |-> w] \in Entry BY DEF Entry
    <3> HIDE DEF b
    <3>5. History(Append(statuses[b], [status |-> "CLAIMED", worker |-> w]))
      BY <3>2, <3>3, <3>4, HistoryGrows
    <3>6. Recorded' /\ DOMAIN statuses' = DOMAIN statuses
      BY <1>4, <2>1, <3>1, <3>5
    <3>7. WorkersKnow' BY <2>1, <3>1, <3>6 DEF ResearchInv, WorkersKnow
    <3> QED BY <1>2, <3>6, <3>7 DEF ResearchInv
  <2>3. CASE Last(statuses[b]).status # "PENDING"
    <3>1. statuses' = statuses /\ worker' = [worker EXCEPT ![w] = Idle] BY <1>5, <2>3 DEF Claim
    <3>2. Recorded' BY <1>1, <3>1 DEF ResearchInv, Recorded
    <3>3. WorkersKnow' BY <3>1 DEF ResearchInv, WorkersKnow
    <3> QED BY <1>2, <3>2, <3>3 DEF ResearchInv
  <2> QED BY <2>2, <2>3
<1>6. ASSUME NEW status \in {"COMPLETED", "FAILED"}, Finish(w, status) PROVE Recorded' /\ WorkersKnow'
  <2> DEFINE b == worker[w].body
  <2>1. b \in DOMAIN statuses BY <1>6 DEF Finish, ResearchInv, WorkersKnow, Idle
  <2>2. /\ Last(statuses[b]) = [status |-> "CLAIMED", worker |-> w]
        /\ Report(w, b, status) /\ worker' = [worker EXCEPT ![w] = Idle]
    BY <1>6 DEF Finish
  <2>3. History(statuses[b]) BY <2>1 DEF ResearchInv, Recorded
  <2> HIDE DEF b
  <2>4. Len(statuses[b]) = 2 /\ statuses[b][2].worker = w
    BY <2>2, <2>3, HistoryEnds DEF Last
  <2>5. [status |-> status, worker |-> w] \in Entry BY DEF Entry
  <2>6. History(Append(statuses[b], [status |-> status, worker |-> w]))
    BY <2>3, <2>4, <2>5, HistoryGrows
  <2>7. Recorded' /\ DOMAIN statuses' = DOMAIN statuses BY <1>4, <2>1, <2>2, <2>6
  <2>8. WorkersKnow' BY <2>2, <2>7 DEF ResearchInv, WorkersKnow
  <2> QED BY <2>7, <2>8
<1> QED BY <1>2, <1>3, <1>5, <1>6 DEF Work, ResearchInv

LEMMA ResearchStep ==
    ASSUME IngressInv, ResearchInv, [Next]_ingressVars
    PROVE  ResearchInv'
<1>1. ASSUME UNCHANGED <<ledger, requests, statuses, worker>> PROVE ResearchInv'
  <2>1. Recorded' BY <1>1 DEF ResearchInv, Recorded
  <2>2. WorkersKnow' BY <1>1 DEF ResearchInv, WorkersKnow
  <2> QED BY <1>1, <2>1, <2>2, TouchesStay DEF ResearchInv
<1>2. ASSUME NEW r \in Receivers, Receive(r) PROVE ResearchInv'
  <2>1. CASE Decide(r) BY <2>1, SettleKeepsResearch DEF Decide
  <2>2. CASE ~Decide(r)
    <3>1. UNCHANGED <<ledger, requests, statuses, worker>>
      BY <1>2, <2>2 DEF Receive, Post, Busy, Refuse, RefuseUnrecorded, Stop, durable
    <3> QED BY <1>1, <3>1
  <2> QED BY <2>1, <2>2
<1>3. ASSUME NEW w \in Workers, Work(w) PROVE ResearchInv' BY <1>3, WorkKeeps
<1>4. CASE Tick BY <1>1, <1>4 DEF Tick, durable
<1>5. CASE UNCHANGED ingressVars BY <1>1, <1>5 DEF ingressVars
<1> QED BY <1>2, <1>3, <1>4, <1>5 DEF Next

\* Touches of one level wake research in the order of their counts and their
\* times; of the workers that saw a request, one claims it and alone reports.
THEOREM TouchesWakeOnce == Spec => []OneWakePerTouch
<1>1. Init => IngressInv /\ ResearchInv BY IngressInit, ResearchInit
<1>2. IngressInv /\ ResearchInv /\ [Next]_ingressVars => IngressInv' /\ ResearchInv'
  BY IngressStep, ResearchStep
<1>3. ResearchInv => OneWakePerTouch
  <2> SUFFICES ASSUME ResearchInv PROVE OneWakePerTouch OBVIOUS
  <2>1. \A b \in DOMAIN statuses : History(statuses[b]) BY DEF ResearchInv, Recorded
  <2>2. ASSUME NEW b \in DOMAIN statuses PROVE Len(statuses[b]) <= 3
    <3>1. Len(statuses[b]) \in 1 .. 3 BY <2>1 DEF History
    <3>2. \A k \in 1 .. 3 : k <= 3 OBVIOUS
    <3> QED BY <3>1, <3>2
  <2>3. OneWorkerEach BY <2>1, <2>2 DEF OneWorkerEach, History
  <2> QED BY <2>3 DEF ResearchInv, OneWakePerTouch
<1> QED BY <1>1, <1>2, <1>3, PTL DEF Spec

----------------------------------------------------------------------------
(* The order of the alerts, and what is taken in one after the other *)

LEMMA FromZero ==
    ASSUME NEW S, 0 \in S, \A i \in Nat : i \in S => i + 1 \in S
    PROVE  Nat \subseteq S
<1> SUFFICES ASSUME Nat \ S # {} PROVE FALSE OBVIOUS
<1> DEFINE m == Min(Nat \ S)
<1>1. m \in Nat \ S /\ \A n \in Nat \ S : m <= n BY MinIsLeast
<1> HIDE DEF m
<1>2. m # 0 BY <1>1
<1>3. m - 1 \in Nat BY <1>1, <1>2
<1>4. m - 1 \in S BY <1>1, <1>3
<1>5. (m - 1) + 1 = m BY <1>1
<1> QED BY <1>1, <1>3, <1>4, <1>5

\* The number of elements below gives each element of a strict total order
\* a place of its own, and no place is empty.
LEMMA Ranked ==
    ASSUME NEW S, IsFiniteSet(S), NEW R,
           \A x \in S : <<x, x>> \notin R,
           \A x, y, z \in S : <<x, y>> \in R /\ <<y, z>> \in R => <<x, z>> \in R,
           \A x, y \in S : x # y => <<x, y>> \in R \/ <<y, x>> \in R
    PROVE  /\ \A i \in 1 .. Cardinality(S) :
                 \E x \in S : Cardinality({y \in S : <<y, x>> \in R}) = i - 1
           /\ \A x \in S : Cardinality({y \in S : <<y, x>> \in R}) + 1 \in 1 .. Cardinality(S)
           /\ \A x, z \in S :
                 Cardinality({y \in S : <<y, x>> \in R}) = Cardinality({y \in S : <<y, z>> \in R}) => x = z
<1> DEFINE Below(x) == {y \in S : <<y, x>> \in R}
           n == Cardinality(S)
           f == [x \in S |-> Cardinality(Below(x)) + 1]
<1>1. n \in Nat BY FS_CardinalityType
<1>2. \A x \in S : IsFiniteSet(Below(x)) /\ Cardinality(Below(x)) \in Nat
  <2> SUFFICES ASSUME NEW x \in S PROVE IsFiniteSet(Below(x)) /\ Cardinality(Below(x)) \in Nat OBVIOUS
  <2>1. IsFiniteSet(Below(x)) BY FS_Subset, Below(x) \in SUBSET S
  <2> QED BY <2>1, FS_CardinalityType
<1>3. ASSUME NEW x \in S PROVE Cardinality(Below(x)) < n
  <2>1. Below(x) \in SUBSET S /\ Below(x) # S OBVIOUS
  <2> HIDE DEF Below
  <2>2. Cardinality(Below(x)) <= n /\ Cardinality(Below(x)) # n BY <2>1, FS_Subset
  <2> QED BY <1>1, <1>2, <2>2
<1>4. ASSUME NEW x \in S, NEW z \in S, <<x, z>> \in R
      PROVE  Cardinality(Below(x)) < Cardinality(Below(z))
  <2>1. Below(x) \in SUBSET Below(z) /\ x \in Below(z) /\ x \notin Below(x) BY <1>4
  <2> HIDE DEF Below
  <2>2. /\ Cardinality(Below(x)) <= Cardinality(Below(z))
        /\ Cardinality(Below(x)) # Cardinality(Below(z))
    BY <1>2, <2>1, FS_Subset
  <2> QED BY <1>2, <2>2
<1>5. \A x, z \in S : Cardinality(Below(x)) = Cardinality(Below(z)) => x = z
  <2> SUFFICES ASSUME NEW x \in S, NEW z \in S, x # z
               PROVE  Cardinality(Below(x)) # Cardinality(Below(z))
    OBVIOUS
  <2>1. <<x, z>> \in R \/ <<z, x>> \in R OBVIOUS
  <2>2. Cardinality(Below(x)) < Cardinality(Below(z)) \/ Cardinality(Below(z)) < Cardinality(Below(x))
    BY <1>4, <2>1
  <2> HIDE DEF Below
  <2> QED BY <1>2, <2>2
<1> HIDE DEF Below, n
<1>6. \A x \in S : f[x] \in 1 .. n BY <1>1, <1>2, <1>3
<1>7. \A x, z \in S : f[x] = f[z] => x = z BY <1>2, <1>5
<1>8. f \in Injection(S, 1 .. n)
  <2>1. f \in [S -> 1 .. n] BY <1>6
  <2> HIDE DEF f
  <2> QED BY <1>7, <2>1 DEF Injection, IsInjective
<1>9. IsFiniteSet(1 .. n) /\ Cardinality(1 .. n) = n BY <1>1, FS_Interval
<1>10. f \in Surjection(S, 1 .. n)
  <2> HIDE DEF f
  <2> QED BY <1>8, <1>9, FS_Injection DEF n
<1>11. \A i \in 1 .. n : \E x \in S : f[x] = i
  <2> HIDE DEF f
  <2> QED BY <1>10 DEF Surjection
<1>12. \A i \in 1 .. n : \E x \in S : Cardinality(Below(x)) = i - 1
  <2> SUFFICES ASSUME NEW i \in 1 .. n PROVE \E x \in S : Cardinality(Below(x)) = i - 1 OBVIOUS
  <2>1. PICK x \in S : f[x] = i BY <1>11
  <2>2. Cardinality(Below(x)) + 1 = i BY <2>1
  <2> QED BY <1>1, <1>2, <2>2
<1>13. \A x \in S : Cardinality(Below(x)) + 1 \in 1 .. n BY <1>6
<1> QED BY <1>5, <1>12, <1>13 DEF Below, n

\* The alerts of a state: well formed, and told apart by their identities.
Orderly(alerts) ==
    /\ IsFiniteSet(alerts)
    /\ \A a \in alerts : WellFormed(a) /\ Hash(ProducerKey(a)) \in Int
    /\ \A a, b \in alerts : Hash(ProducerKey(a)) = Hash(ProducerKey(b)) => a = b

LEMMA SortedOrder ==
    ASSUME NEW alerts, Orderly(alerts)
    PROVE  /\ Cardinality(alerts) \in Nat
           /\ Sorted(alerts) \in [1 .. Cardinality(alerts) -> alerts]
           /\ \A a \in alerts : \E i \in 1 .. Cardinality(alerts) : Sorted(alerts)[i] = a
           /\ \A i, j \in 1 .. Cardinality(alerts) :
                 i < j => Earlier(Sorted(alerts)[i], Sorted(alerts)[j])
<1> DEFINE n == Cardinality(alerts)
           R == {p \in alerts \X alerts : Earlier(p[1], p[2])}
           Below(x) == {y \in alerts : Earlier(y, x)}
<1>1. \A x, y \in alerts : <<x, y>> \in R <=> Earlier(x, y) OBVIOUS
<1>2. \A x \in alerts : x.source_bar_time \in Int /\ Hash(ProducerKey(x)) \in Int
  BY DEF Orderly, WellFormed
<1>3. \A x \in alerts : ~Earlier(x, x) BY <1>2 DEF Earlier
<1>4. \A x, y, z \in alerts : Earlier(x, y) /\ Earlier(y, z) => Earlier(x, z) BY <1>2 DEF Earlier
<1>5. \A x, y \in alerts : x # y => Earlier(x, y) \/ Earlier(y, x) BY <1>2 DEF Earlier, Orderly
<1>6. \A x \in alerts : {y \in alerts : <<y, x>> \in R} = Below(x) BY <1>1
<1> HIDE DEF R
<1>7. /\ \A x \in alerts : <<x, x>> \notin R
      /\ \A x, y, z \in alerts : <<x, y>> \in R /\ <<y, z>> \in R => <<x, z>> \in R
      /\ \A x, y \in alerts : x # y => <<x, y>> \in R \/ <<y, x>> \in R
  BY <1>1, <1>3, <1>4, <1>5
<1>8. /\ \A i \in 1 .. n :
           \E x \in alerts : Cardinality({y \in alerts : <<y, x>> \in R}) = i - 1
      /\ \A x \in alerts : Cardinality({y \in alerts : <<y, x>> \in R}) + 1 \in 1 .. n
      /\ \A x, z \in alerts :
           Cardinality({y \in alerts : <<y, x>> \in R}) = Cardinality({y \in alerts : <<y, z>> \in R})
             => x = z
  BY <1>7, Ranked DEF Orderly
<1>9. /\ \A i \in 1 .. n : \E x \in alerts : Cardinality(Below(x)) = i - 1
      /\ \A x \in alerts : Cardinality(Below(x)) + 1 \in 1 .. n
      /\ \A x, z \in alerts : Cardinality(Below(x)) = Cardinality(Below(z)) => x = z
  <2>1. \A x \in alerts : Cardinality({y \in alerts : <<y, x>> \in R}) = Cardinality(Below(x)) BY <1>6
  <2> HIDE DEF Below
  <2> QED BY <1>8, <2>1
<1>10. n \in Nat /\ \A x \in alerts : Cardinality(Below(x)) \in Nat
  <2>1. \A x \in alerts : IsFiniteSet(Below(x)) BY FS_Subset DEF Orderly
  <2> HIDE DEF Below
  <2> QED BY <2>1, FS_CardinalityType DEF Orderly
<1>11. Sorted(alerts) = [i \in 1 .. n |-> CHOOSE a \in alerts : Cardinality(Below(a)) = i - 1]
  BY DEF Sorted
<1> HIDE DEF Below, n
<1>12. \A i \in 1 .. n : Sorted(alerts)[i] \in alerts /\ Cardinality(Below(Sorted(alerts)[i])) = i - 1
  BY <1>9, <1>11
<1>13. ASSUME NEW a \in alerts PROVE \E i \in 1 .. n : Sorted(alerts)[i] = a
  <2> DEFINE i == Cardinality(Below(a)) + 1
  <2>1. i \in 1 .. n BY <1>9
  <2>2. i - 1 = Cardinality(Below(a)) BY <1>10
  <2>3. Cardinality(Below(Sorted(alerts)[i])) = Cardinality(Below(a)) BY <1>12, <2>1, <2>2
  <2> QED BY <1>9, <1>12, <2>1, <2>3
<1>14. Sorted(alerts) \in [1 .. n -> alerts] BY <1>11, <1>12
<1>15. ASSUME NEW i \in 1 .. n, NEW j \in 1 .. n, i < j PROVE Earlier(Sorted(alerts)[i], Sorted(alerts)[j])
  <2> DEFINE x == Sorted(alerts)[i]
             y == Sorted(alerts)[j]
  <2>1. /\ x \in alerts /\ y \in alerts
        /\ Cardinality(Below(x)) = i - 1 /\ Cardinality(Below(y)) = j - 1
    BY <1>12
  <2> HIDE DEF x, y
  <2>2. SUFFICES ASSUME ~Earlier(x, y) PROVE FALSE BY DEF x, y
  <2>3. x # y BY <1>10, <1>15, <2>1
  <2>4. Earlier(y, x) BY <1>5, <2>1, <2>2, <2>3
  <2>5. Below(y) \subseteq Below(x) BY <1>4, <2>1, <2>4 DEF Below
  <2>6. IsFiniteSet(Below(x)) BY FS_Subset DEF Orderly, Below
  <2>7. Cardinality(Below(y)) <= Cardinality(Below(x)) BY <2>5, <2>6, FS_Subset
  <2> QED BY <1>10, <1>15, <2>1, <2>7
<1> QED BY <1>10, <1>13, <1>14, <1>15 DEF n

\* The market after each alert: the definition by recursion has a solution.
LEMMA IngestedIs ==
    ASSUME NEW s, Len(s) \in Nat
    PROVE  /\ Ingested(s)[0] = New
           /\ \A i \in 1 .. Len(s) : Ingested(s)[i] = IngestNext(Ingested(s)[i - 1], s[i])
<1> DEFINE Defined == {n \in Nat : \E f : f = [i \in 0 .. n |-> IF i = 0 THEN New ELSE IngestNext(f[i - 1], s[i])]}
<1>1. 0 \in Defined
  <2> DEFINE g == [i \in 0 .. 0 |-> New]
  <2>1. g = [i \in 0 .. 0 |-> IF i = 0 THEN New ELSE IngestNext(g[i - 1], s[i])] OBVIOUS
  <2> HIDE DEF g
  <2> QED BY <2>1
<1>2. ASSUME NEW n \in Nat, n \in Defined PROVE n + 1 \in Defined
  <2>1. PICK f : f = [i \in 0 .. n |-> IF i = 0 THEN New ELSE IngestNext(f[i - 1], s[i])] BY <1>2
  <2> DEFINE g == [i \in 0 .. n + 1 |-> IF i = n + 1 THEN IngestNext(f[n], s[n + 1]) ELSE f[i]]
  <2>2. \A i \in 0 .. n : g[i] = f[i] /\ f[i] = IF i = 0 THEN New ELSE IngestNext(f[i - 1], s[i])
    BY <2>1
  <2>3. g[n + 1] = IngestNext(f[n], s[n + 1]) OBVIOUS
  <2>4. DOMAIN g = 0 .. n + 1 /\ g = [i \in 0 .. n + 1 |-> g[i]] OBVIOUS
  <2> HIDE DEF g
  <2>5. \A i \in 0 .. n + 1 : g[i] = IF i = 0 THEN New ELSE IngestNext(g[i - 1], s[i])
    <3> SUFFICES ASSUME NEW i \in 0 .. n + 1
                 PROVE  g[i] = IF i = 0 THEN New ELSE IngestNext(g[i - 1], s[i])
      OBVIOUS
    <3>1. CASE i = 0 BY <2>2, <3>1
    <3>2. CASE i = n + 1 BY <2>2, <2>3, <3>2
    <3>3. CASE i # 0 /\ i # n + 1
      <4>1. i \in 0 .. n /\ i - 1 \in 0 .. n BY <3>3
      <4> QED BY <2>2, <3>3, <4>1
    <3> QED BY <3>1, <3>2, <3>3
  <2>6. g = [i \in 0 .. n + 1 |-> IF i = 0 THEN New ELSE IngestNext(g[i - 1], s[i])] BY <2>4, <2>5
  <2> QED BY <2>6
<1>3. Len(s) \in Defined
  <2> HIDE DEF Defined
  <2> QED BY <1>1, <1>2, FromZero
<1>4. Ingested(s) = [i \in 0 .. Len(s) |-> IF i = 0 THEN New ELSE IngestNext(Ingested(s)[i - 1], s[i])]
  <2>1. PICK f : f = [i \in 0 .. Len(s) |-> IF i = 0 THEN New ELSE IngestNext(f[i - 1], s[i])] BY <1>3
  <2>2. Ingested(s) = CHOOSE g : g = [i \in 0 .. Len(s) |-> IF i = 0 THEN New ELSE IngestNext(g[i - 1], s[i])]
    BY DEF Ingested
  <2> QED BY <2>1, <2>2
<1> HIDE DEF Defined
<1> QED BY <1>4

\* The states passed through, likewise.
LEMMA PassedIs ==
    ASSUME NEW s, Len(s) \in Nat
    PROVE  /\ Passed(s)[0] = Blank
           /\ \A i \in 1 .. Len(s) : Passed(s)[i] = Observe(Passed(s)[i - 1], s[i])
<1> DEFINE Defined == {n \in Nat : \E f : f = [i \in 0 .. n |-> IF i = 0 THEN Blank ELSE Observe(f[i - 1], s[i])]}
<1>1. 0 \in Defined
  <2> DEFINE g == [i \in 0 .. 0 |-> Blank]
  <2>1. g = [i \in 0 .. 0 |-> IF i = 0 THEN Blank ELSE Observe(g[i - 1], s[i])] OBVIOUS
  <2> HIDE DEF g
  <2> QED BY <2>1
<1>2. ASSUME NEW n \in Nat, n \in Defined PROVE n + 1 \in Defined
  <2>1. PICK f : f = [i \in 0 .. n |-> IF i = 0 THEN Blank ELSE Observe(f[i - 1], s[i])] BY <1>2
  <2> DEFINE g == [i \in 0 .. n + 1 |-> IF i = n + 1 THEN Observe(f[n], s[n + 1]) ELSE f[i]]
  <2>2. \A i \in 0 .. n : g[i] = f[i] /\ f[i] = IF i = 0 THEN Blank ELSE Observe(f[i - 1], s[i])
    BY <2>1
  <2>3. g[n + 1] = Observe(f[n], s[n + 1]) OBVIOUS
  <2>4. DOMAIN g = 0 .. n + 1 /\ g = [i \in 0 .. n + 1 |-> g[i]] OBVIOUS
  <2> HIDE DEF g
  <2>5. \A i \in 0 .. n + 1 : g[i] = IF i = 0 THEN Blank ELSE Observe(g[i - 1], s[i])
    <3> SUFFICES ASSUME NEW i \in 0 .. n + 1
                 PROVE  g[i] = IF i = 0 THEN Blank ELSE Observe(g[i - 1], s[i])
      OBVIOUS
    <3>1. CASE i = 0 BY <2>2, <3>1
    <3>2. CASE i = n + 1 BY <2>2, <2>3, <3>2
    <3>3. CASE i # 0 /\ i # n + 1
      <4>1. i \in 0 .. n /\ i - 1 \in 0 .. n BY <3>3
      <4> QED BY <2>2, <3>3, <4>1
    <3> QED BY <3>1, <3>2, <3>3
  <2>6. g = [i \in 0 .. n + 1 |-> IF i = 0 THEN Blank ELSE Observe(g[i - 1], s[i])] BY <2>4, <2>5
  <2> QED BY <2>6
<1>3. Len(s) \in Defined
  <2> HIDE DEF Defined
  <2> QED BY <1>1, <1>2, FromZero
<1>4. Passed(s) = [i \in 0 .. Len(s) |-> IF i = 0 THEN Blank ELSE Observe(Passed(s)[i - 1], s[i])]
  <2>1. PICK f : f = [i \in 0 .. Len(s) |-> IF i = 0 THEN Blank ELSE Observe(f[i - 1], s[i])] BY <1>3
  <2>2. Passed(s) = CHOOSE g : g = [i \in 0 .. Len(s) |-> IF i = 0 THEN Blank ELSE Observe(g[i - 1], s[i])]
    BY DEF Passed
  <2> QED BY <2>1, <2>2
<1> HIDE DEF Defined
<1> QED BY <1>4

\* A market that refused nothing holds the alerts so far, and its state is
\* the one rebuilt from them, which did not fail.
Holds(m, taken) ==
    /\ m.alerts = taken
    /\ taken # {} => m.state = Rebuild(taken) /\ m.state.failure = "OK"

MarketFields == {"alerts", "state", "refused"}

LEMMA IngestNextHolds ==
    ASSUME NEW m, DOMAIN m = MarketFields, NEW taken, m.refused = "OK" => Holds(m, taken), NEW a
    PROVE  /\ DOMAIN IngestNext(m, a) = MarketFields
           /\ IngestNext(m, a).refused = "OK" => Holds(IngestNext(m, a), taken \cup {a})
<1> DEFINE known == {b \in m.alerts : ProducerKey(b) = ProducerKey(a)}
           x == IngestNext(m, a)
<1>1. CASE m.refused # "OK" BY <1>1 DEF IngestNext
<1>2. CASE m.refused = "OK" /\ known # {}
  <2>1. x = [m EXCEPT !.refused = IF known = {a} THEN "OK" ELSE "EVENT_ID_CONFLICT"]
    BY <1>2 DEF IngestNext, Ingest
  <2> HIDE DEF x
  <2>2. /\ DOMAIN x = MarketFields /\ x.alerts = m.alerts /\ x.state = m.state
        /\ x.refused = IF known = {a} THEN "OK" ELSE "EVENT_ID_CONFLICT"
    BY <2>1 DEF MarketFields
  <2>3. ASSUME x.refused = "OK" PROVE Holds(x, taken \cup {a})
    <3>1. a \in m.alerts BY <2>2, <2>3
    <3>2. m.alerts = taken /\ taken \cup {a} = taken BY <1>2, <3>1 DEF Holds
    <3> QED BY <1>2, <2>2, <3>2 DEF Holds
  <2> QED BY <2>2, <2>3 DEF x
<1>3. CASE m.refused = "OK" /\ known = {}
  <2> DEFINE s == Rebuild(m.alerts \cup {a})
  <2>1. x = Kept(m, a, s) BY <1>3 DEF IngestNext, Ingest
  <2> HIDE DEF x, s
  <2>2. CASE s.failure = "OK"
    <3>1. x = [alerts |-> m.alerts \cup {a}, state |-> s, refused |-> "OK"] BY <2>1, <2>2 DEF Kept
    <3>2. DOMAIN x = MarketFields /\ x.alerts = m.alerts \cup {a} /\ x.state = s
      BY <3>1 DEF MarketFields
    <3>3. m.alerts = taken BY <1>3 DEF Holds
    <3> QED BY <2>2, <3>2, <3>3 DEF Holds, s, x
  <2>3. CASE s.failure # "OK"
    <3>1. x = [m EXCEPT !.refused = s.failure] BY <2>1, <2>3 DEF Kept
    <3>2. DOMAIN x = MarketFields /\ x.refused = s.failure BY <3>1 DEF MarketFields
    <3> QED BY <2>3, <3>2 DEF x
  <2> QED BY <2>2, <2>3
<1> QED BY <1>1, <1>2, <1>3

LEMMA IngestAllHolds ==
    ASSUME NEW A, NEW s \in Seq(A), IngestAll(s).refused = "OK"
    PROVE  Holds(IngestAll(s), {s[j] : j \in 1 .. Len(s)})
<1> DEFINE M == Ingested(s)
           Taken(i) == {s[j] : j \in 1 .. i}
           Good == {i \in Nat : i <= Len(s) =>
                      /\ DOMAIN M[i] = MarketFields
                      /\ M[i].refused = "OK" => Holds(M[i], Taken(i))}
<1>1. Len(s) \in Nat OBVIOUS
<1>2. M[0] = New /\ \A i \in 1 .. Len(s) : M[i] = IngestNext(M[i - 1], s[i]) BY <1>1, IngestedIs
<1> HIDE DEF M
<1>3. 0 \in Good
  <2>1. Taken(0) = {} OBVIOUS
  <2>2. DOMAIN New = MarketFields /\ New.alerts = {} BY DEF New, MarketFields
  <2> QED BY <1>2, <2>1, <2>2 DEF Holds
<1>4. ASSUME NEW i \in Nat, i \in Good PROVE i + 1 \in Good
  <2> SUFFICES ASSUME i + 1 <= Len(s)
               PROVE  /\ DOMAIN M[i + 1] = MarketFields
                      /\ M[i + 1].refused = "OK" => Holds(M[i + 1], Taken(i + 1))
    OBVIOUS
  <2>1. DOMAIN M[i] = MarketFields /\ (M[i].refused = "OK" => Holds(M[i], Taken(i)))
    BY <1>1, <1>4
  <2>2. M[i + 1] = IngestNext(M[i], s[i + 1]) BY <1>1, <1>2
  <2>3. Taken(i + 1) = Taken(i) \cup {s[i + 1]} OBVIOUS
  <2> HIDE DEF Taken
  <2>4. /\ DOMAIN IngestNext(M[i], s[i + 1]) = MarketFields
        /\ IngestNext(M[i], s[i + 1]).refused = "OK" =>
             Holds(IngestNext(M[i], s[i + 1]), Taken(i) \cup {s[i + 1]})
    BY <2>1, IngestNextHolds
  <2> QED BY <2>2, <2>3, <2>4
<1>5. Len(s) \in Good
  <2> HIDE DEF Good
  <2> QED BY <1>1, <1>3, <1>4, FromZero
<1> QED BY <1>1, <1>5 DEF IngestAll, M

\* What the transaction compiles: the ledger, and the alert that joins it.
Joined(b) == Append(Sorted(Alerts(ledger)), Alert(b))

LEMMA OrderlyAlerts ==
    ASSUME NEW X, IsFiniteSet(X), X \subseteq Valid,
           \A a, b \in Alerts(X) : ProducerKey(a) = ProducerKey(b) => a = b
    PROVE  Orderly(Alerts(X))
<1>1. IsFiniteSet(Alerts(X))
  <2> DEFINE f == [b \in X |-> Alert(b)]
  <2>1. f \in Surjection(X, Alerts(X)) BY DEF Alerts, Surjection
  <2> QED BY <2>1, FS_Surjection
<1>2. \A a \in Alerts(X) : WellFormed(a) /\ Hash(ProducerKey(a)) \in Int
  BY ValidWellFormed, HashAssumption DEF Alerts, Valid
<1>3. \A a, b \in Alerts(X) : Hash(ProducerKey(a)) = Hash(ProducerKey(b)) => a = b
  <2> SUFFICES ASSUME NEW a \in X, NEW b \in X,
                      Hash(ProducerKey(Alert(a))) = Hash(ProducerKey(Alert(b)))
               PROVE  Alert(a) = Alert(b)
    BY DEF Alerts
  <2>1. ProducerKey(Alert(a)) = ProducerKey(Alert(b)) BY HashAssumption DEF Valid
  <2> QED BY <2>1 DEF Alerts
<1> QED BY <1>1, <1>2, <1>3 DEF Orderly

LEMMA LedgerOrderly ==
    ASSUME IngressInv
    PROVE  Orderly(Alerts(ledger))
  BY OrderlyAlerts DEF IngressInv, LedgerKept

LEMMA JoinedHolds ==
    ASSUME IngressInv, NEW b, IngestAll(Joined(b)).refused = "OK"
    PROVE  Holds(IngestAll(Joined(b)), Alerts(ledger) \cup {Alert(b)})
<1> DEFINE L == Alerts(ledger)
           n == Cardinality(L)
           s == Sorted(L)
           t == Append(s, Alert(b))
<1>1. /\ n \in Nat /\ s \in [1 .. n -> L]
      /\ \A a \in L : \E i \in 1 .. n : s[i] = a
  BY LedgerOrderly, SortedOrder
<1> HIDE DEF L, n, s
<1>2. s \in Seq(L \cup {Alert(b)}) /\ Len(s) = n BY <1>1
<1>3. /\ t \in Seq(L \cup {Alert(b)}) /\ Len(t) = n + 1
      /\ \A i \in 1 .. n : t[i] = s[i]
      /\ t[n + 1] = Alert(b)
  BY <1>2
<1> HIDE DEF t
<1>4. {t[j] : j \in 1 .. Len(t)} = L \cup {Alert(b)} BY <1>1, <1>3
<1>5. t = Joined(b) BY DEF t, s, L, Joined
<1>6. IngestAll(t).refused = "OK" BY <1>5
<1>7. Holds(IngestAll(t), {t[j] : j \in 1 .. Len(t)}) BY ONLY <1>3, <1>6, IngestAllHolds
<1>8. Holds(IngestAll(t), L \cup {Alert(b)}) BY <1>4, <1>7
<1> QED BY <1>5, <1>8 DEF L

\* A transaction that accepts: what was compiled did not fail, and no alert of
\* the ledger has the identity of the one that joins it.
Joins(r, b, c) ==
    /\ receiver[r].at = "deciding" /\ b \in Valid /\ b = receiver[r].body /\ Accept(r, c)
    /\ c = Compile(Joined(b), Alert(b).event_id, receiver[r].seen, SourceAuthority, MissingFreshness)
    /\ c.failure = "OK"
    /\ \A a \in Alerts(ledger) : ProducerKey(a) # ProducerKey(Alert(b))

ledgerVars == <<ledger, rows, requests, triggers>>

LEMMA DecideJoins ==
    ASSUME IngressInv, NEW r \in Receivers, Decide(r)
    PROVE  UNCHANGED ledgerVars \/ \E b, c : Joins(r, b, c)
<1> DEFINE b == receiver[r].body
           c == Compile(Joined(b), Alert(b).event_id, receiver[r].seen, SourceAuthority, MissingFreshness)
           twins == {a \in Alerts(ledger) : ProducerKey(a) = ProducerKey(Alert(b))}
           duplicate == \E a \in twins : SameContent(a, Alert(b))
           touch == ActiveTouch(Event(b), receiver[r].seen)
           failure == CASE twins # {} -> "EVENT_ID_CONFLICT"
                        [] twins = {} /\ c.failure # "OK" -> c.failure
                        [] twins = {} /\ c.failure = "OK" /\ touch -> TouchFailure(Event(b))
                        [] OTHER -> "OK"
           broken == twins = {} /\ Broken(c)
<1>1. receiver[r].at = "deciding" /\ Settle(r, c) BY DEF Decide, Joined
<1>2. b \in Valid BY <1>1 DEF IngressInv, Receptions, Idle
<1> HIDE DEF c
<1>3. CASE b \in DOMAIN receipts BY <1>1, <1>3 DEF Settle, durable, ledgerVars
<1>4. CASE b \notin DOMAIN receipts /\ duplicate BY <1>1, <1>4 DEF Settle, ledgerVars
<1>5. CASE b \notin DOMAIN receipts /\ ~duplicate
  <2>1. IF failure = "OK" /\ ~broken THEN Accept(r, c)
        ELSE /\ IF broken THEN Refused(r, b, "REJECTED", "PRODUCER_ADAPTER_FAILURE", 503)
                ELSE Refused(r, b, "CONFLICT", failure, 409)
             /\ UNCHANGED <<durable, answers>>
    BY <1>1, <1>5 DEF Settle
  <2>2. CASE failure # "OK" \/ broken BY <2>1, <2>2 DEF durable, ledgerVars
  <2>3. CASE failure = "OK" /\ ~broken
    <3>1. Accept(r, c) BY <2>1, <2>3
    <3>2. twins = {} /\ c.failure = "OK" BY <2>3
    <3> HIDE DEF failure
    <3> QED BY <1>1, <1>2, <3>1, <3>2 DEF Joins, c
  <2> QED BY <2>2, <2>3
<1> QED BY <1>3, <1>4, <1>5

\* The ledger, its rows, the requests and the triggers change by a
\* transaction that accepts, and by nothing else.
LEMMA OnlyAcceptWrites ==
    ASSUME IngressInv, [Next]_ingressVars
    PROVE  UNCHANGED ledgerVars \/ \E r \in Receivers : \E b, c : Joins(r, b, c)
<1>1. ASSUME NEW r \in Receivers, Receive(r)
      PROVE  UNCHANGED ledgerVars \/ \E b, c : Joins(r, b, c)
  <2>1. CASE Decide(r) BY <2>1, DecideJoins
  <2>2. CASE ~Decide(r)
    BY <1>1, <2>2 DEF Receive, Post, Busy, Refuse, RefuseUnrecorded, Stop, durable, ledgerVars
  <2> QED BY <2>1, <2>2
<1>2. ASSUME NEW w \in Workers, Work(w) PROVE UNCHANGED ledgerVars
  BY <1>2 DEF Work, See, Claim, Finish, durable, ledgerVars
<1>3. Tick \/ UNCHANGED ingressVars => UNCHANGED ledgerVars
  BY DEF Tick, durable, ledgerVars, ingressVars
<1> QED BY <1>1, <1>2, <1>3 DEF Next

\* What it compiled from is the state rebuilt from the ledger with the alert.
LEMMA JoinedState ==
    ASSUME IngressInv, NEW r, NEW b, NEW c, Joins(r, b, c)
    PROVE  /\ Alerts(ledger)' = Alerts(ledger) \cup {Alert(b)}
           /\ Holds(IngestAll(Joined(b)), Alerts(ledger) \cup {Alert(b)})
           /\ c = CompileFor(IngestAll(Joined(b)).state, TriggerOf(IngestAll(Joined(b)), Alert(b).event_id),
                             receiver[r].seen, SourceAuthority, MissingFreshness)
<1> DEFINE m == IngestAll(Joined(b))
<1>1. c = CompileFrom(m, Alert(b).event_id, receiver[r].seen, SourceAuthority, MissingFreshness)
  BY DEF Joins, Compile
<1> HIDE DEF m
<1>2. m.refused = "OK"
  <2> SUFFICES ASSUME m.refused # "OK" PROVE FALSE OBVIOUS
  <2>1. c = [failure |-> m.refused] BY <1>1 DEF CompileFrom
  <2> QED BY <2>1 DEF Joins
<1>3. c = CompileFor(m.state, TriggerOf(m, Alert(b).event_id), receiver[r].seen, SourceAuthority,
                     MissingFreshness)
  BY <1>1, <1>2 DEF CompileFrom
<1>4. ledger' = ledger \cup {b} BY DEF Joins, Accept
<1>5. Alerts(ledger)' = Alerts(ledger) \cup {Alert(b)} BY <1>4 DEF Alerts
<1> QED BY <1>2, <1>3, <1>5, JoinedHolds DEF m

LEMMA NothingRebuilt == Rebuild({}).failure = "OK"
<1> DEFINE s == Sorted({})
<1>1. Cardinality({}) = 0 BY FS_EmptySet
<1>2. PICK n \in Nat : n = Cardinality({}) /\ s \in [1 .. n -> {}]
  BY FS_EmptySet, SortedOrder DEF Orderly
<1>3. Passed(s)[0] = Blank
  <2> HIDE DEF s
  <2>1. Len(s) = n BY <1>2
  <2> QED BY <2>1, PassedIs
<1>4. WithScanners(Blank).failure = "OK" BY DEF WithScanners, Blank, Contradicted
<1> QED BY <1>1, <1>3, <1>4 DEF Rebuild

\* Every later alert finds a ledger that replays, and each id once.
THEOREM LedgerAlwaysReplays == Spec => []LedgerReplays
<1> DEFINE Replays == Rebuild(Alerts(ledger)).failure = "OK"
<1>1. Init => IngressInv /\ Replays
  <2> SUFFICES ASSUME Init PROVE Replays BY IngressInit
  <2>1. Alerts(ledger) = {} BY DEF Init, Alerts
  <2> QED BY <2>1, NothingRebuilt
<1>2. IngressInv /\ Replays /\ [Next]_ingressVars => IngressInv' /\ Replays'
  <2> SUFFICES ASSUME IngressInv, Replays, [Next]_ingressVars PROVE Replays' BY IngressStep
  <2>1. CASE UNCHANGED ledgerVars
    <3>1. Alerts(ledger)' = Alerts(ledger) BY <2>1 DEF Alerts, ledgerVars
    <3> QED BY <3>1
  <2>2. ASSUME NEW r \in Receivers, NEW b, NEW c, Joins(r, b, c) PROVE Replays'
    <3>1. /\ Alerts(ledger)' = Alerts(ledger) \cup {Alert(b)}
          /\ Holds(IngestAll(Joined(b)), Alerts(ledger) \cup {Alert(b)})
      BY <2>2, JoinedState
    <3> QED BY <3>1 DEF Holds
  <2> QED BY <2>1, <2>2, OnlyAcceptWrites
<1>3. IngressInv /\ Replays => LedgerReplays BY DEF IngressInv, LedgerKept, LedgerReplays
<1> HIDE DEF Replays
<1> QED BY <1>1, <1>2, <1>3, PTL DEF Spec

----------------------------------------------------------------------------
(* What one alert does to the state *)

StateFields == {"failure", "ordered", "levels", "prices", "expansions", "scanners", "told", "tracked",
                "changes", "cycle", "stages"}

\* x is the state s but for these fields.
Differs(x, s, fields) ==
    DOMAIN x = StateFields /\ \A f \in StateFields \ fields : x[f] = s[f]

LEMMA ReleaseDiffers ==
    ASSUME NEW s, DOMAIN s = StateFields, NEW cause
    PROVE  Differs(Release(s, cause), s, {"tracked", "changes"})
  BY DEF Differs, Release, StateFields

LEMMA TrackDiffers ==
    ASSUME NEW s, DOMAIN s = StateFields
    PROVE  Differs(Track(s), s, {"tracked", "changes"})
  BY DEF Differs, Track, StateFields

LEMMA WithPriceDiffers ==
    ASSUME NEW s, DOMAIN s = StateFields, NEW e
    PROVE  Differs(WithPrice(s, e), s, {"prices"})
  BY DEF Differs, WithPrice, StateFields

LEMMA ExpansionDiffers ==
    ASSUME NEW s, DOMAIN s = StateFields, NEW e
    PROVE  Differs(ObserveExpansion(s, e), s, {"expansions", "told", "tracked", "changes"})
<1>1. Differs(Release(s, "DIRECTION_STORY_RESET"), s, {"tracked", "changes"}) BY ReleaseDiffers
<1> QED BY <1>1 DEF Differs, ObserveExpansion, StateFields

LEMMA LiquidityDiffers ==
    ASSUME NEW s, DOMAIN s = StateFields, NEW e
    PROVE  Differs(ObserveLiquidity(s, e), s, {"failure", "levels", "tracked", "changes"})
<1>1. ASSUME NEW level
      PROVE  Differs(Release([s EXCEPT !.levels = level], e.lifecycle), s, {"levels", "tracked", "changes"})
  <2> DEFINE t == [s EXCEPT !.levels = level]
  <2>1. Differs(t, s, {"levels"}) BY DEF Differs, StateFields
  <2> HIDE DEF t
  <2>2. Differs(Release(t, e.lifecycle), t, {"tracked", "changes"}) BY <2>1, ReleaseDiffers DEF Differs
  <2> QED BY <2>1, <2>2 DEF Differs, t
<1> QED BY <1>1 DEF Differs, ObserveLiquidity, StateFields

LEMMA RenkoDiffers ==
    ASSUME NEW s, DOMAIN s = StateFields, NEW e
    PROVE  Differs(ObserveRenko(s, e), s, {"cycle", "stages"})
  BY DEF Differs, ObserveRenko, StateFields

\* The state an alert is observed in: its price and itself are noted.
Noted(s, a) == [WithPrice(s, Canonical(a)) EXCEPT !.ordered = Append(@, a)]

LEMMA NotedDiffers ==
    ASSUME NEW s, DOMAIN s = StateFields, NEW a
    PROVE  Differs(Noted(s, a), s, {"prices", "ordered"}) /\ Noted(s, a).ordered = Append(s.ordered, a)
<1> DEFINE t == WithPrice(s, Canonical(a))
<1>1. Differs(t, s, {"prices"}) BY WithPriceDiffers
<1> HIDE DEF t
<1>2. Noted(s, a) = [t EXCEPT !.ordered = Append(@, a)] BY DEF Noted, t
<1> QED BY <1>1, <1>2 DEF Differs, StateFields

\* The four ways an alert is observed.
LEMMA ObserveCases ==
    ASSUME NEW s, NEW a, WellFormed(a)
    PROVE  LET e == Canonical(a)
               t == Noted(s, a)
           IN /\ s.failure # "OK" => Observe(s, a) = s
              /\ s.failure = "OK" /\ IsScanner(e) => Observe(s, a) = [t EXCEPT !.scanners = Append(@, e)]
              /\ s.failure = "OK" /\ a.schema = "EXPANSION" /\ ~IsScanner(e) =>
                    Observe(s, a) = Track(ObserveExpansion(t, e))
              /\ s.failure = "OK" /\ a.schema = "LIQUIDITY" => Observe(s, a) = Track(ObserveLiquidity(t, e))
              /\ s.failure = "OK" /\ a.schema = "RENKO" => Observe(s, a) = Track(ObserveRenko(t, e))
              /\ a.schema \in {"EXPANSION", "LIQUIDITY", "RENKO"}
              /\ IsScanner(e) => a.schema = "EXPANSION"
<1> DEFINE e == Canonical(a)
           t == Noted(s, a)
<1>1. a.schema \in {"EXPANSION", "LIQUIDITY", "RENKO"} /\ e.schema = a.schema
  BY DEF WellFormed, EventsOf
<1>2. IsScanner(e) => a.schema = "EXPANSION" BY <1>1 DEF IsScanner
<1>3. Observe(s, a) =
        CASE s.failure # "OK" -> s
          [] s.failure = "OK" /\ IsScanner(e) -> [t EXCEPT !.scanners = Append(@, e)]
          [] s.failure = "OK" /\ e.schema = "EXPANSION" /\ ~IsScanner(e) -> Track(ObserveExpansion(t, e))
          [] s.failure = "OK" /\ e.schema = "LIQUIDITY" -> Track(ObserveLiquidity(t, e))
          [] s.failure = "OK" /\ e.schema = "RENKO" -> Track(ObserveRenko(t, e))
  BY DEF Observe, Noted
<1> HIDE DEF e, t
<1>4. /\ s.failure # "OK" => Observe(s, a) = s
      /\ s.failure = "OK" /\ IsScanner(e) => Observe(s, a) = [t EXCEPT !.scanners = Append(@, e)]
      /\ s.failure = "OK" /\ a.schema = "EXPANSION" /\ ~IsScanner(e) =>
            Observe(s, a) = Track(ObserveExpansion(t, e))
      /\ s.failure = "OK" /\ a.schema = "LIQUIDITY" => Observe(s, a) = Track(ObserveLiquidity(t, e))
      /\ s.failure = "OK" /\ a.schema = "RENKO" => Observe(s, a) = Track(ObserveRenko(t, e))
  BY <1>1, <1>2, <1>3
<1> QED BY <1>1, <1>2, <1>4 DEF e, t

\* A failure stays; otherwise the alert is in the history.
LEMMA ObserveOrders ==
    ASSUME NEW s, DOMAIN s = StateFields, NEW a, WellFormed(a)
    PROVE  /\ DOMAIN Observe(s, a) = StateFields
           /\ Observe(s, a).failure = "OK" =>
                 s.failure = "OK" /\ Observe(s, a).ordered = Append(s.ordered, a)
<1> DEFINE e == Canonical(a)
           t == Noted(s, a)
           x == Observe(s, a)
<1>1. Differs(t, s, {"prices", "ordered"}) /\ t.ordered = Append(s.ordered, a) BY NotedDiffers
<1> HIDE DEF t
<1>2. CASE s.failure # "OK"
  <2>1. x = s BY <1>2, ObserveCases
  <2> QED BY <1>2, <2>1
<1>3. ASSUME s.failure = "OK", NEW u, Differs(u, t, StateFields \ {"ordered"}), x = Track(u)
      PROVE  DOMAIN x = StateFields /\ x.ordered = Append(s.ordered, a)
  <2>1. Differs(x, u, {"tracked", "changes"}) BY <1>3, TrackDiffers DEF Differs
  <2> HIDE DEF x
  <2> QED BY <1>1, <1>3, <2>1 DEF Differs, StateFields
<1>4. CASE s.failure = "OK" /\ IsScanner(e)
  <2>1. x = [t EXCEPT !.scanners = Append(@, e)] BY <1>4, ObserveCases DEF t
  <2> HIDE DEF x
  <2> QED BY <1>1, <1>4, <2>1 DEF Differs, StateFields, x
<1>5. CASE s.failure = "OK" /\ a.schema = "EXPANSION" /\ ~IsScanner(e)
  <2>1. x = Track(ObserveExpansion(t, e)) BY <1>5, ObserveCases DEF t
  <2>2. Differs(ObserveExpansion(t, e), t, StateFields \ {"ordered"})
    BY <1>1, ExpansionDiffers DEF Differs, StateFields
  <2> QED BY <1>3, <1>5, <2>1, <2>2
<1>6. CASE s.failure = "OK" /\ a.schema = "LIQUIDITY"
  <2>1. x = Track(ObserveLiquidity(t, e)) BY <1>6, ObserveCases DEF t
  <2>2. Differs(ObserveLiquidity(t, e), t, StateFields \ {"ordered"})
    BY <1>1, LiquidityDiffers DEF Differs, StateFields
  <2> QED BY <1>3, <1>6, <2>1, <2>2
<1>7. CASE s.failure = "OK" /\ a.schema = "RENKO"
  <2>1. x = Track(ObserveRenko(t, e)) BY <1>7, ObserveCases DEF t
  <2>2. Differs(ObserveRenko(t, e), t, StateFields \ {"ordered"})
    BY <1>1, RenkoDiffers DEF Differs, StateFields
  <2> QED BY <1>3, <1>7, <2>1, <2>2
<1> QED BY <1>2, <1>4, <1>5, <1>6, <1>7, ObserveCases

\* The history of a state that did not fail is the sorted alerts.
LEMMA PassedOrders ==
    ASSUME NEW A, NEW s \in Seq(A), \A a \in A : WellFormed(a)
    PROVE  \A i \in 0 .. Len(s) :
              /\ DOMAIN Passed(s)[i] = StateFields
              /\ Passed(s)[i].failure = "OK" =>
                    /\ Passed(s)[i].ordered \in Seq(A) /\ Len(Passed(s)[i].ordered) = i
                    /\ \A j \in 1 .. i : Passed(s)[i].ordered[j] = s[j]
<1> DEFINE P == Passed(s)
           Good == {i \in Nat : i <= Len(s) =>
                      /\ DOMAIN P[i] = StateFields
                      /\ P[i].failure = "OK" => /\ P[i].ordered \in Seq(A) /\ Len(P[i].ordered) = i
                                               /\ \A j \in 1 .. i : P[i].ordered[j] = s[j]}
<1>1. Len(s) \in Nat OBVIOUS
<1>2. P[0] = Blank /\ \A i \in 1 .. Len(s) : P[i] = Observe(P[i - 1], s[i]) BY <1>1, PassedIs
<1> HIDE DEF P
<1>3. 0 \in Good
  <2>1. DOMAIN Blank = StateFields /\ Blank.ordered = <<>> BY DEF Blank, StateFields
  <2>2. <<>> \in Seq(A) /\ Len(<<>>) = 0 OBVIOUS
  <2>3. DOMAIN P[0] = StateFields /\ P[0].ordered = <<>> BY <1>2, <2>1
  <2>4. \A j \in 1 .. 0 : P[0].ordered[j] = s[j] OBVIOUS
  <2> QED BY <2>2, <2>3, <2>4
<1>4. ASSUME NEW i \in Nat, i \in Good PROVE i + 1 \in Good
  <2> SUFFICES ASSUME i + 1 <= Len(s)
               PROVE  /\ DOMAIN P[i + 1] = StateFields
                      /\ P[i + 1].failure = "OK" =>
                           /\ P[i + 1].ordered \in Seq(A) /\ Len(P[i + 1].ordered) = i + 1
                           /\ \A j \in 1 .. i + 1 : P[i + 1].ordered[j] = s[j]
    OBVIOUS
  <2>1. /\ DOMAIN P[i] = StateFields
        /\ P[i].failure = "OK" => /\ P[i].ordered \in Seq(A) /\ Len(P[i].ordered) = i
                                  /\ \A j \in 1 .. i : P[i].ordered[j] = s[j]
    BY <1>1, <1>4
  <2>2. P[i + 1] = Observe(P[i], s[i + 1]) /\ s[i + 1] \in A BY <1>1, <1>2
  <2>3. /\ DOMAIN P[i + 1] = StateFields
        /\ P[i + 1].failure = "OK" =>
              P[i].failure = "OK" /\ P[i + 1].ordered = Append(P[i].ordered, s[i + 1])
    <3>1. DOMAIN P[i] = StateFields /\ WellFormed(s[i + 1]) BY <2>1, <2>2
    <3>2. /\ DOMAIN Observe(P[i], s[i + 1]) = StateFields
          /\ Observe(P[i], s[i + 1]).failure = "OK" =>
                P[i].failure = "OK" /\ Observe(P[i], s[i + 1]).ordered = Append(P[i].ordered, s[i + 1])
      BY ONLY <3>1, ObserveOrders
    <3> QED BY <2>2, <3>2
  <2>4. ASSUME P[i + 1].failure = "OK"
        PROVE  /\ P[i + 1].ordered \in Seq(A) /\ Len(P[i + 1].ordered) = i + 1
               /\ \A j \in 1 .. i + 1 : P[i + 1].ordered[j] = s[j]
    <3> DEFINE before == P[i].ordered
    <3>1. before \in Seq(A) /\ Len(before) = i /\ \A j \in 1 .. i : before[j] = s[j]
      BY <2>1, <2>3, <2>4
    <3>2. P[i + 1].ordered = Append(before, s[i + 1]) BY <2>3, <2>4
    <3> HIDE DEF before
    <3>3. /\ Append(before, s[i + 1]) \in Seq(A) /\ Len(Append(before, s[i + 1])) = i + 1
          /\ \A j \in 1 .. i : Append(before, s[i + 1])[j] = before[j]
          /\ Append(before, s[i + 1])[i + 1] = s[i + 1]
      BY <2>2, <3>1
    <3> QED BY <3>1, <3>2, <3>3
  <2> QED BY <2>3, <2>4
<1>5. \A i \in 0 .. Len(s) : i \in Good
  <2> HIDE DEF Good
  <2> QED BY <1>1, <1>3, <1>4, FromZero
<1> QED BY <1>5 DEF P

LEMMA RebuiltOrders ==
    ASSUME NEW alerts, Orderly(alerts), Rebuild(alerts).failure = "OK"
    PROVE  LET s == Rebuild(alerts)
           IN /\ s = Passed(Sorted(alerts))[Cardinality(alerts)]
              /\ s.ordered \in Seq(alerts)
              /\ \A a \in alerts : \E i \in DOMAIN s.ordered : s.ordered[i] = a
              /\ \A i, j \in DOMAIN s.ordered : i < j => Earlier(s.ordered[i], s.ordered[j])
<1> DEFINE n == Cardinality(alerts)
           s == Sorted(alerts)
           x == Passed(s)[n]
<1>1. /\ n \in Nat /\ s \in [1 .. n -> alerts] /\ \A a \in alerts : \E i \in 1 .. n : s[i] = a
      /\ \A i, j \in 1 .. n : i < j => Earlier(s[i], s[j])
  BY SortedOrder
<1>2. Rebuild(alerts) = WithScanners(x) BY DEF Rebuild
<1> HIDE DEF n, s
<1>3. s \in Seq(alerts) /\ Len(s) = n BY <1>1
<1>4. n \in 0 .. Len(s) /\ \A a \in alerts : WellFormed(a) BY <1>1, <1>3 DEF Orderly
<1>5. /\ DOMAIN x = StateFields
      /\ x.failure = "OK" => /\ x.ordered \in Seq(alerts) /\ Len(x.ordered) = n
                             /\ \A j \in 1 .. n : x.ordered[j] = s[j]
  BY <1>3, <1>4, PassedOrders
<1> HIDE DEF x
<1>6. x.failure = "OK" /\ Rebuild(alerts) = x
  BY <1>2, <1>5 DEF WithScanners, StateFields
<1>7. x.ordered \in Seq(alerts) /\ DOMAIN x.ordered = 1 .. n /\ \A j \in 1 .. n : x.ordered[j] = s[j]
  BY <1>5, <1>6
<1>8. \A a \in alerts : \E i \in DOMAIN x.ordered : x.ordered[i] = a BY <1>1, <1>7
<1>9. \A i, j \in DOMAIN x.ordered : i < j => Earlier(x.ordered[i], x.ordered[j]) BY <1>1, <1>7
<1> QED BY <1>6, <1>7, <1>8, <1>9 DEF x, s, n

----------------------------------------------------------------------------
(* A wake carries its capture *)

LEMMA JoinedOrderly ==
    ASSUME IngressInv, NEW r, NEW b, NEW c, Joins(r, b, c)
    PROVE  Orderly(Alerts(ledger) \cup {Alert(b)})
<1>1. Alerts(ledger \cup {b}) = Alerts(ledger) \cup {Alert(b)} BY DEF Alerts
<1>2. IsFiniteSet(ledger \cup {b}) /\ ledger \cup {b} \subseteq Valid
  BY FS_AddElement DEF IngressInv, LedgerKept, Joins
<1>3. \A x, y \in Alerts(ledger \cup {b}) : ProducerKey(x) = ProducerKey(y) => x = y
  BY <1>1 DEF IngressInv, LedgerKept, Joins
<1> QED BY <1>1, <1>2, <1>3, OrderlyAlerts

\* The trigger of the bundle is the alert that joins, or an earlier alert of
\* the ledger with its id.
LEMMA TriggerIs ==
    ASSUME IngressInv, NEW r, NEW b, NEW c, Joins(r, b, c)
    PROVE  \/ TriggerOf(IngestAll(Joined(b)), Alert(b).event_id) = Event(b)
           \/ \E a \in Alerts(ledger) :
                 /\ TriggerOf(IngestAll(Joined(b)), Alert(b).event_id) = Canonical(a)
                 /\ WellFormed(a) /\ a.event_id = Alert(b).event_id /\ Earlier(a, Alert(b))
                 /\ ProducerKey(a) # ProducerKey(Alert(b))
<1> DEFINE m == IngestAll(Joined(b))
           L == Alerts(ledger) \cup {Alert(b)}
           named == {i \in DOMAIN m.state.ordered : m.state.ordered[i].event_id = Alert(b).event_id}
           first == Min(named)
<1>1. Orderly(L) /\ m.state = Rebuild(L) /\ m.state.failure = "OK"
  BY JoinedOrderly, JoinedState DEF Holds
<1>2. /\ m.state.ordered \in Seq(L)
      /\ \E i \in DOMAIN m.state.ordered : m.state.ordered[i] = Alert(b)
      /\ \A i, j \in DOMAIN m.state.ordered : i < j => Earlier(m.state.ordered[i], m.state.ordered[j])
  <2> HIDE DEF m, L
  <2>1. Alert(b) \in L BY DEF L
  <2> QED BY <1>1, <2>1, RebuiltOrders
<1>3. TriggerOf(m, Alert(b).event_id) = Canonical(m.state.ordered[first]) BY DEF TriggerOf
<1>4. \A a \in L : WellFormed(a) /\ (a = Alert(b) \/ a \in Alerts(ledger)) BY <1>1 DEF Orderly
<1> HIDE DEF m, L, first
<1>5. DOMAIN m.state.ordered \subseteq Nat /\ \A i \in DOMAIN m.state.ordered : m.state.ordered[i] \in L
  BY <1>2
<1>6. PICK k \in named : m.state.ordered[k] = Alert(b) BY <1>2
<1>7. first \in named /\ first <= k BY <1>5, <1>6, MinIsLeast DEF first
<1>8. CASE first = k BY <1>3, <1>6, <1>8 DEF Event, m
<1>9. CASE first # k
  <2> DEFINE a == m.state.ordered[first]
  <2>1. first < k BY <1>5, <1>6, <1>7, <1>9
  <2>2. a \in L /\ a.event_id = Alert(b).event_id /\ Earlier(a, Alert(b)) BY <1>2, <1>5, <1>6, <1>7, <2>1
  <2>3. TriggerOf(m, Alert(b).event_id) = Canonical(a) BY <1>3
  <2> HIDE DEF a
  <2>4. WellFormed(a) /\ WellFormed(Alert(b)) BY <1>1, <1>4, <2>2 DEF L
  <2>5. a # Alert(b)
    <3>1. \A x, y \in L : x = y => ~Earlier(x, y)
      BY <1>1 DEF Orderly, WellFormed, Earlier
    <3> QED BY <2>2, <3>1 DEF L
  <2>6. a \in Alerts(ledger) BY <1>4, <2>2, <2>5
  <2>7. ProducerKey(a) # ProducerKey(Alert(b)) BY <2>6 DEF Joins
  <2> QED BY <2>2, <2>3, <2>4, <2>6, <2>7 DEF m
<1> QED BY <1>8, <1>9

\* The adapter's test of a touch is the bundle's.
LEMMA SameTouches ==
    ASSUME NEW e, NEW now \in Int, e.source_bar_time \in Int
    PROVE  ActiveTouch(e, now) <=> ValidTouch(e, now)
<1>1. {e.freshness_status, e.level_freshness_status, e.market_price_freshness_status} = {"FRESH"} <=>
        /\ e.freshness_status = "FRESH" /\ e.level_freshness_status = "FRESH"
        /\ e.market_price_freshness_status = "FRESH"
  OBVIOUS
<1>2. now - e.source_bar_time \in 0 .. MaxAge <=>
        0 <= now - e.source_bar_time /\ now - e.source_bar_time <= MaxAge
  BY AgeAssumption
<1> QED BY <1>1, <1>2 DEF ActiveTouch, ValidTouch

LEMMA JoinedBundle ==
    ASSUME IngressInv, NEW r, NEW b, NEW c, Joins(r, b, c), receiver[r].seen \in Int
    PROVE  \/ /\ c.bundle.trigger = ProducerKey(Alert(b))
              /\ ActiveTouch(Event(b), receiver[r].seen) =>
                    c.bundle.decision.capture /\ c.bundle.screenshots = ScreenshotRoles
              /\ c.bundle.decision.capture => ActiveTouch(Event(b), receiver[r].seen)
           \/ /\ c.bundle.trigger # ProducerKey(Alert(b))
              /\ \E a \in Alerts(ledger) :
                    /\ ProducerKey(a) = c.bundle.trigger /\ a.event_id = Alert(b).event_id
                    /\ Earlier(a, Alert(b))
<1> DEFINE now == receiver[r].seen
           m == IngestAll(Joined(b))
           e == TriggerOf(m, Alert(b).event_id)
           sense == SenseOf(m.state, e, MissingFreshness)
           bundle == Bundle(e, now, SourceAuthority, sense.missing \cup MissingEvidence(MissingFreshness),
                            UnavailableEvidence(MissingFreshness))
<1>1. c = CompileFor(m.state, e, now, SourceAuthority, MissingFreshness) BY JoinedState
<1>2. c.bundle = bundle
  <2> HIDE DEF m, e, now
  <2> QED BY <1>1 DEF CompileFor, CompileSense, Compiled
<1>3. WellFormed(Alert(b)) BY ValidWellFormed DEF Joins, Valid
<1>4. /\ bundle.trigger = ProducerKey(e) /\ bundle.decision = DecideTrigger({e}, now)
      /\ bundle.screenshots = Screenshots(DecideTrigger({e}, now).level)
  <2> HIDE DEF e, now, sense
  <2> QED BY DEF Bundle
<1>5. CASE e = Event(b)
  <2>1. ProducerKey(e) = ProducerKey(Alert(b)) /\ e.source_bar_time \in Int
    BY <1>3, <1>5 DEF WellFormed, Event
  <2> HIDE DEF bundle, e, now
  <2>2. ActiveTouch(e, now) <=> ValidTouch(e, now) BY <2>1, SameTouches DEF now
  <2>3. CASE ActiveTouch(e, now)
    <3>1. DecideTrigger({e}, now) = [level |-> "LIQ_RESEARCH_CAPTURE", research |-> TRUE, capture |-> TRUE]
      BY <2>2, <2>3 DEF DecideTrigger
    <3>2. Screenshots("LIQ_RESEARCH_CAPTURE") = ScreenshotRoles BY DEF Screenshots, FullCaptureLevels
    <3> QED BY <1>2, <1>4, <1>5, <2>1, <2>3, <3>1, <3>2 DEF now
  <2>4. CASE ~ActiveTouch(e, now)
    <3>1. DecideTrigger({e}, now).capture = FALSE BY <2>2, <2>4 DEF DecideTrigger
    <3> QED BY <1>2, <1>4, <1>5, <2>1, <2>4, <3>1 DEF now
  <2> QED BY <2>3, <2>4
<1>6. ASSUME NEW a \in Alerts(ledger), e = Canonical(a), WellFormed(a), a.event_id = Alert(b).event_id,
             Earlier(a, Alert(b)), ProducerKey(a) # ProducerKey(Alert(b))
      PROVE  /\ c.bundle.trigger # ProducerKey(Alert(b))
             /\ ProducerKey(a) = c.bundle.trigger
  <2>1. ProducerKey(e) = ProducerKey(a) BY <1>6 DEF WellFormed
  <2> HIDE DEF bundle, e
  <2> QED BY <1>2, <1>4, <1>6, <2>1
<1> HIDE DEF bundle
<1> QED BY <1>5, <1>6, TriggerIs

\* Clocks are read before they are used.
Seen ==
    /\ clock \in Nat
    /\ \A r \in Receivers : receiver[r].at = "deciding" => receiver[r].seen \in Nat

LEMMA SeenStep ==
    ASSUME IngressInv, Seen, [Next]_ingressVars
    PROVE  Seen'
<1>1. ASSUME UNCHANGED <<clock, receiver>> PROVE Seen' BY <1>1 DEF Seen
<1>2. ASSUME NEW r \in Receivers, clock' = clock, NEW p, receiver' = [receiver EXCEPT ![r] = p],
             p.at = "deciding" => p.seen \in Nat
      PROVE  Seen'
  BY <1>2 DEF Seen, IngressInv, Receptions
<1>3. ASSUME NEW r \in Receivers, NEW b, NEW http, Answer(r, b, http), clock' = clock PROVE Seen'
  BY <1>2, <1>3 DEF Answer, Idle
<1>4. ASSUME NEW r \in Receivers, NEW b, NEW status, NEW code, NEW http,
             Refused(r, b, status, code, http), clock' = clock
      PROVE  Seen'
  BY <1>2, <1>4 DEF Refused
<1>5. ASSUME NEW r \in Receivers, Receive(r) PROVE Seen'
  <2>1. ASSUME NEW b \in Bodies, Post(r, b) PROVE Seen'
    <3>1. clock' = clock BY <2>1 DEF Post
    <3>2. CASE b \in DOMAIN receipts BY <1>3, <2>1, <3>1, <3>2 DEF Post
    <3>3. CASE b \notin DOMAIN receipts /\ b \in Valid
      <4> DEFINE p == [at |-> "deciding", body |-> b, seen |-> clock]
      <4>1. receiver' = [receiver EXCEPT ![r] = p] BY <2>1, <3>3 DEF Post
      <4>2. p.seen \in Nat BY DEF Seen
      <4> HIDE DEF p
      <4> QED BY <1>2, <3>1, <4>1, <4>2
    <3>4. CASE b \notin DOMAIN receipts /\ b \notin Valid
      <4>1. PICK http : Refused(r, b, "REJECTED", BodyFailure(b), http) BY <2>1, <3>4 DEF Post
      <4> QED BY <1>4, <3>1, <4>1
    <3> QED BY <3>2, <3>3, <3>4
  <2>2. ASSUME NEW c, Settle(r, c) PROVE Seen'
    <3>1. clock' = clock BY <2>2 DEF Settle
    <3>2. \/ \E b, http : Answer(r, b, http)
          \/ \E b, status, code, http : Refused(r, b, status, code, http)
      BY <2>2 DEF Settle, Accept
    <3> QED BY <1>3, <1>4, <3>1, <3>2
  <2>3. CASE Decide(r) BY <2>2, <2>3 DEF Decide
  <2>4. CASE Busy(r) BY <1>4, <2>4 DEF Busy
  <2>5. CASE Refuse(r) BY <1>3, <2>5 DEF Refuse
  <2>6. CASE RefuseUnrecorded(r) BY <1>3, <2>6 DEF RefuseUnrecorded
  <2>7. CASE Stop(r) BY <1>2, <2>7 DEF Stop, Idle
  <2> QED BY <1>5, <2>1, <2>3, <2>4, <2>5, <2>6, <2>7 DEF Receive
<1>6. ASSUME NEW w \in Workers, Work(w) PROVE Seen' BY <1>1, <1>6 DEF Work, See, Claim, Finish
<1>7. CASE Tick BY <1>7 DEF Tick, Seen
<1>8. CASE UNCHANGED ingressVars BY <1>1, <1>8 DEF ingressVars
<1> QED BY <1>5, <1>6, <1>7, <1>8 DEF Next

\* What was requested stays requested.
LEMMA EvidenceStays ==
    ASSUME NEW e, requests \subseteq requests'
    PROVE  SameEvidence(e) \subseteq SameEvidence(e)'
  BY DEF SameEvidence, Requested

\* The ledger and the requests only grow, so what was said of a bundle stays.
LEMMA FirstStays ==
    ASSUME NEW x, ledger \subseteq ledger', ForTheFirst(x)
    PROVE  ForTheFirst(x)'
  BY DEF ForTheFirst, Alerts

LEMMA JoinedWakes ==
    ASSUME IngressInv, Seen, WakeCarriesCapture, NEW r \in Receivers, NEW b, NEW c, Joins(r, b, c)
    PROVE  WakeCarriesCapture'
<1> DEFINE e == Event(b)
           touch == ActiveTouch(e, receiver[r].seen)
           wakes == touch /\ SameEvidence(e) = {}
           q == [body |-> b, bundle |-> c.bundle]
           row == [body |-> b, state |-> Snapshot(c.state), story |-> Story(c.state.expansions),
                   sense |-> c.sense.state, bundle |-> Digest(c.bundle)]
           own == c.bundle.trigger = ProducerKey(Alert(b))
           first == \E a \in Alerts(ledger) :
                       /\ ProducerKey(a) = c.bundle.trigger /\ a.event_id = Alert(b).event_id
                       /\ Earlier(a, Alert(b))
<1>1. /\ rows' = rows \cup {row}
      /\ requests' = IF wakes THEN requests \cup {q} ELSE requests
      /\ triggers' = IF wakes \/ e.event = "RENKO_E1" THEN triggers \cup {b} ELSE triggers
      /\ ledger' = ledger \cup {b}
  BY DEF Joins, Accept
<1>2. receiver[r].seen \in Int BY DEF Joins, Seen
<1>3. \/ /\ own
         /\ touch => c.bundle.decision.capture /\ c.bundle.screenshots = ScreenshotRoles
         /\ c.bundle.decision.capture => touch
      \/ ~own /\ first
  BY <1>2, JoinedBundle
<1>4. /\ q.body = b /\ q.bundle = c.bundle /\ row.body = b
      /\ row.bundle.trigger = c.bundle.trigger /\ row.bundle.decision = c.bundle.decision
  BY DEF Digest
<1> HIDE DEF touch, q, row
<1>5. requests \subseteq requests' /\ triggers \subseteq triggers' /\ ledger \subseteq ledger' BY <1>1
<1>6. /\ ForItself(q) <=> own
      /\ ForItself(row) <=> own
      /\ first => ForTheFirst(q) /\ ForTheFirst(row)
  BY <1>4 DEF ForItself, ForTheFirst
<1> HIDE DEF own, first
<1>7. ASSUME NEW p \in requests'
      PROVE  /\ p.body \in triggers'
             /\ IF ForItself(p) THEN p.bundle.decision.capture /\ p.bundle.screenshots = ScreenshotRoles
                ELSE ForTheFirst(p)'
  <2>1. CASE p \in requests BY <1>5, <2>1, FirstStays DEF WakeCarriesCapture
  <2>2. CASE p \notin requests
    <3>1. wakes /\ p = q BY <1>1, <2>2
    <3>2. first => ForTheFirst(q)' BY <1>5, <1>6, FirstStays
    <3> QED BY <1>1, <1>3, <1>4, <1>6, <3>1, <3>2
  <2> QED BY <2>1, <2>2
<1>8. touch => SameEvidence(e)' # {}
  <2>1. CASE touch /\ SameEvidence(e) = {}
    <3>1. q \in requests' BY <1>1, <2>1
    <3>2. e \in SameEvidence(e)' BY <1>4, <3>1 DEF SameEvidence, Requested
    <3> QED BY <3>2
  <2>2. CASE SameEvidence(e) # {} BY <1>5, <2>2, EvidenceStays
  <2> QED BY <2>1, <2>2
<1>9. ASSUME NEW o \in rows'
      PROVE  IF ForItself(o) THEN o.bundle.decision.capture => SameEvidence(Event(o.body))' # {}
             ELSE ForTheFirst(o)'
  <2>1. CASE o \in rows BY <1>5, <2>1, EvidenceStays, FirstStays DEF WakeCarriesCapture
  <2>2. CASE o = row
    <3>1. first => ForTheFirst(row)' BY <1>5, <1>6, FirstStays
    <3> QED BY <1>3, <1>4, <1>6, <1>8, <2>2, <3>1
  <2> QED BY <1>1, <2>1, <2>2
<1>10. \A x : ForItself(x)' <=> ForItself(x) BY DEF ForItself
<1> QED BY <1>7, <1>9, <1>10 DEF WakeCarriesCapture

\* Every research request carries a bundle that asks for every picture, and no
\* bundle asks for a capture that nobody requested: the adapter's gate and the
\* compiler's agree in every state, and they are applied to one event unless
\* another producer's alert with the same id comes first on the ledger.
THEOREM WakesCarryCaptures == Spec => []WakeCarriesCapture
<1> DEFINE Inv == IngressInv /\ Seen /\ WakeCarriesCapture
<1>1. Init => Inv
  <2> SUFFICES ASSUME Init PROVE Seen /\ WakeCarriesCapture BY IngressInit
  <2>1. Seen BY DEF Init, Seen, Idle
  <2>2. WakeCarriesCapture BY DEF Init, WakeCarriesCapture
  <2> QED BY <2>1, <2>2
<1>2. Inv /\ [Next]_ingressVars => Inv'
  <2> SUFFICES ASSUME Inv, [Next]_ingressVars PROVE WakeCarriesCapture' BY IngressStep, SeenStep
  <2>1. CASE UNCHANGED ledgerVars
    BY <2>1 DEF WakeCarriesCapture, ForTheFirst, Alerts, SameEvidence, Requested, ledgerVars
  <2>2. ASSUME NEW r \in Receivers, NEW b, NEW c, Joins(r, b, c) PROVE WakeCarriesCapture'
    BY <2>2, JoinedWakes
  <2> QED BY <2>1, <2>2, OnlyAcceptWrites
<1>3. Inv => WakeCarriesCapture OBVIOUS
<1> HIDE DEF Inv
<1> QED BY <1>1, <1>2, <1>3, PTL DEF Spec

----------------------------------------------------------------------------
(* The tracked level follows the story *)

LEMMA AppendIs ==
    ASSUME NEW T, NEW x \in Seq(T), NEW v
    PROVE  /\ Append(x, v) \in Seq(T \cup {v}) /\ Len(Append(x, v)) = Len(x) + 1
           /\ DOMAIN Append(x, v) = 1 .. Len(x) + 1 /\ DOMAIN x = 1 .. Len(x) /\ Len(x) \in Nat
           /\ \A i \in 1 .. Len(x) : Append(x, v)[i] = x[i]
           /\ Append(x, v)[Len(x) + 1] = v
<1>1. x \in Seq(T \cup {v}) OBVIOUS
<1> QED BY <1>1

SideOf(told) == IF told = "UP" THEN "ASK" ELSE "BID"

\* A level comes from an alert of A; its key holds its side.
Known(l, key, A) ==
    /\ \E a \in A : a.schema = "LIQUIDITY" /\ LevelKey(Canonical(a)) = key
    /\ key # NoLevel
    /\ l.side = key[1][6] /\ l.side \in {"ASK", "BID"}
    /\ l.created \in Int /\ l.confluence \in Int /\ l.touches \in Int /\ Hash(l.id) \in Int
    /\ l.lifecycle \in ActiveLifecycles \cup TerminalLifecycles
    /\ l.distance.status = "AVAILABLE" =>
          /\ l.distance.zone \in DOMAIN ZoneRank
          /\ l.distance.away \in Int /\ l.distance.atr \in Int /\ l.distance.atr > 0

\* The levels are told apart by when they were first seen.
LevelsKnown(s, A) ==
    /\ IsFiniteSet(DOMAIN s.levels)
    /\ \A key \in DOMAIN s.levels :
          /\ Known(s.levels[key], key, A)
          /\ s.levels[key].since \in Nat /\ s.levels[key].since < Cardinality(DOMAIN s.levels)
    /\ \A key, other \in DOMAIN s.levels : s.levels[key].since = s.levels[other].since => key = other

StoryTold(s) ==
    /\ \E T : s.expansions \in Seq(T)
    /\ s.told = Story(s.expansions) /\ s.told \in {"NONE", "UP", "DOWN"}

OnSide(s) ==
    s.tracked # NoLevel =>
        /\ s.tracked \in DOMAIN s.levels /\ s.levels[s.tracked].lifecycle \in ActiveLifecycles
        /\ s.told # "NONE" /\ s.levels[s.tracked].side = SideOf(s.told)

Alternates(s) ==
    /\ \E T : s.changes \in Seq(T)
    /\ \A i \in DOMAIN s.changes : s.changes[i].what = IF i % 2 = 1 THEN Selected ELSE Released
    /\ (s.tracked # NoLevel) = (Len(s.changes) % 2 = 1)

Tracks(s, A) == LevelsKnown(s, A) /\ StoryTold(s) /\ OnSide(s) /\ Alternates(s)

\* The liquidity alerts of A name levels.
Naming(A) ==
    \A a \in A :
        /\ WellFormed(a)
        /\ a.schema = "LIQUIDITY" => Hash(LevelId(a)) \in Int /\ LevelKey(Canonical(a)) # NoLevel

TrackFields == {"levels", "expansions", "told", "tracked", "changes"}

LEMMA SameTracks ==
    ASSUME NEW s, NEW x, NEW A, \A f \in TrackFields : x[f] = s[f], Tracks(s, A)
    PROVE  Tracks(x, A)
<1>1. /\ x.levels = s.levels /\ x.expansions = s.expansions /\ x.told = s.told
      /\ x.tracked = s.tracked /\ x.changes = s.changes
  BY DEF TrackFields
<1>2. LevelsKnown(x, A) BY <1>1 DEF Tracks, LevelsKnown
<1>3. StoryTold(x) BY <1>1 DEF Tracks, StoryTold
<1>4. OnSide(x) BY <1>1 DEF Tracks, OnSide
<1>5. Alternates(x) BY <1>1 DEF Tracks, Alternates
<1> QED BY <1>2, <1>3, <1>4, <1>5 DEF Tracks

\* A change of the right kind keeps the alternation.
LEMMA ChangeAlternates ==
    ASSUME NEW s, NEW x, Alternates(s), NEW what, NEW level, NEW cause,
           x.changes = Change(s, what, level, cause),
           what = IF x.tracked # NoLevel THEN Selected ELSE Released,
           (x.tracked # NoLevel) # (s.tracked # NoLevel)
    PROVE  Alternates(x)
<1> DEFINE v == [what |-> what, level |-> level, cause |-> cause]
           z == s.changes
           y == x.changes
           n == Len(z)
<1>1. PICK T : z \in Seq(T) BY DEF Alternates
<1>2. y = Append(z, v) /\ v.what = what BY DEF Change
<1> HIDE DEF v, z, y
<1>3. /\ y \in Seq(T \cup {v}) /\ Len(y) = n + 1
      /\ DOMAIN y = 1 .. n + 1 /\ DOMAIN z = 1 .. n /\ n \in Nat
      /\ \A i \in 1 .. n : y[i] = z[i]
      /\ y[n + 1] = v
  <2>1. y = Append(z, v) BY <1>2
  <2>2. z \in Seq(T) BY <1>1
  <2> HIDE DEF n
  <2>3. n = Len(z) BY DEF n
  <2>4. /\ Append(z, v) \in Seq(T \cup {v}) /\ Len(Append(z, v)) = Len(z) + 1
        /\ DOMAIN Append(z, v) = 1 .. Len(z) + 1 /\ DOMAIN z = 1 .. Len(z) /\ Len(z) \in Nat
        /\ \A i \in 1 .. Len(z) : Append(z, v)[i] = z[i]
        /\ Append(z, v)[Len(z) + 1] = v
    BY <2>2, AppendIs
  <2> QED BY <2>1, <2>3, <2>4
<1> HIDE DEF n
<1>4. (s.tracked # NoLevel) = (n % 2 = 1) BY DEF Alternates, n, z
<1>5. (x.tracked # NoLevel) = ((n + 1) % 2 = 1)
  <2>1. (n % 2 = 1) # ((n + 1) % 2 = 1) BY <1>3
  <2> QED BY <1>4, <2>1
<1>6. v.what = IF (n + 1) % 2 = 1 THEN Selected ELSE Released BY <1>2, <1>5
<1>7. \A i \in DOMAIN y : y[i].what = IF i % 2 = 1 THEN Selected ELSE Released
  <2> SUFFICES ASSUME NEW i \in 1 .. n + 1
               PROVE  y[i].what = IF i % 2 = 1 THEN Selected ELSE Released
    BY <1>3
  <2>1. CASE i = n + 1 BY <1>3, <1>6, <2>1
  <2>2. CASE i \in 1 .. n BY <1>3, <2>2 DEF Alternates, z
  <2> QED BY <1>3, <2>1, <2>2
<1> QED BY <1>3, <1>5, <1>7 DEF Alternates, y

LEMMA ReleaseTracks ==
    ASSUME NEW s, DOMAIN s = StateFields, NEW A, NEW cause,
           LevelsKnown(s, A), StoryTold(s), Alternates(s)
    PROVE  Tracks(Release(s, cause), A) /\ Release(s, cause).tracked = NoLevel
<1> DEFINE x == Release(s, cause)
<1>1. Differs(x, s, {"tracked", "changes"}) BY ReleaseDiffers
<1>2. x.tracked = NoLevel BY DEF Release, StateFields
<1>3. s.tracked = NoLevel => x = s BY DEF Release
<1>4. s.tracked # NoLevel => x.changes = Change(s, Released, s.tracked, cause) BY DEF Release, StateFields
<1> HIDE DEF x
<1>5. x.levels = s.levels /\ x.expansions = s.expansions /\ x.told = s.told
  BY <1>1 DEF Differs, StateFields
<1>6. LevelsKnown(x, A) BY <1>5 DEF LevelsKnown
<1>7. StoryTold(x) BY <1>5 DEF StoryTold
<1>8. OnSide(x) BY <1>2 DEF OnSide
<1>9. Alternates(x) BY <1>2, <1>3, <1>4, ChangeAlternates
<1> QED BY <1>2, <1>6, <1>7, <1>8, <1>9 DEF Tracks, x

\* The story after one more movement.
LEMMA StoryGrows ==
    ASSUME NEW T, NEW x \in Seq(T), NEW e
    PROVE  Story(Append(x, e)) = IF Tells(e) THEN e.direction ELSE Story(x)
<1> DEFINE y == Append(x, e)
           n == Len(x)
           before == {i \in DOMAIN x : Tells(x[i])}
           after == {i \in DOMAIN y : Tells(y[i])}
<1>1. /\ n \in Nat /\ DOMAIN x = 1 .. n /\ DOMAIN y = 1 .. n + 1
      /\ \A i \in 1 .. n : y[i] = x[i]
      /\ y[n + 1] = e
  BY AppendIs
<1>2. /\ Story(x) = IF before = {} THEN "NONE" ELSE x[Max(before)].direction
      /\ Story(y) = IF after = {} THEN "NONE" ELSE y[Max(after)].direction
  BY DEF Story
<1> HIDE DEF n, y
<1>3. CASE Tells(e)
  <2>1. n + 1 \in after /\ \A i \in after : n + 1 >= i BY <1>1, <1>3
  <2>2. \A m \in after : m >= n + 1 => m = n + 1 BY <1>1, <2>1
  <2> HIDE DEF after
  <2>3. Max(after) = n + 1 BY <2>1, <2>2 DEF Max
  <2> QED BY <1>1, <1>2, <1>3, <2>1, <2>3 DEF y
<1>4. CASE ~Tells(e)
  <2>1. after = before BY <1>1, <1>4
  <2>2. before # {} => Max(before) \in before
    <3> SUFFICES ASSUME before # {} PROVE Max(before) \in before OBVIOUS
    <3> DEFINE turned == {n - i : i \in before}
    <3>1. turned # {} /\ turned \subseteq Nat BY <1>1
    <3>2. Min(turned) \in turned /\ \A v \in turned : Min(turned) <= v BY <3>1, MinIsLeast
    <3>3. PICK m \in before : n - m = Min(turned) BY <3>2
    <3>4. \A i \in before : m >= i
      <4> SUFFICES ASSUME NEW i \in before PROVE m >= i OBVIOUS
      <4>1. n - i \in turned OBVIOUS
      <4>2. n - m <= n - i BY <3>2, <3>3, <4>1
      <4>3. m \in 1 .. n /\ i \in 1 .. n BY <1>1
      <4> HIDE DEF before, turned
      <4> QED BY <1>1, <4>2, <4>3
    <3> HIDE DEF before, turned
    <3> QED BY <3>4 DEF Max
  <2>3. before # {} => Max(before) \in 1 .. n BY <1>1, <2>2
  <2> HIDE DEF before, after
  <2> QED BY <1>1, <1>2, <1>4, <2>1, <2>3 DEF y
<1> QED BY <1>3, <1>4

LEMMA ExpansionTracks ==
    ASSUME NEW s, DOMAIN s = StateFields, NEW A, Tracks(s, A), NEW e, e.direction \in {"UP", "DOWN"}
    PROVE  Tracks(ObserveExpansion(s, e), A)
<1> DEFINE turned == Tells(e) /\ s.told \notin {"NONE", e.direction}
           t == IF turned THEN Release(s, "DIRECTION_STORY_RESET") ELSE s
           x == ObserveExpansion(s, e)
<1>1. x = [t EXCEPT !.expansions = Append(@, e), !.told = IF Tells(e) THEN e.direction ELSE @]
  BY DEF ObserveExpansion
<1>2. Tracks(t, A) /\ Differs(t, s, {"tracked", "changes"}) /\ (turned => t.tracked = NoLevel)
  <2>1. CASE turned BY <2>1, ReleaseTracks, ReleaseDiffers DEF Tracks
  <2>2. CASE ~turned BY <2>2 DEF Differs
  <2> QED BY <2>1, <2>2
<1>3. ~turned => t = s OBVIOUS
<1> HIDE DEF t, x
<1>4. /\ x.expansions = Append(t.expansions, e)
      /\ x.told = IF Tells(e) THEN e.direction ELSE t.told
      /\ x.levels = t.levels /\ x.tracked = t.tracked /\ x.changes = t.changes
  BY <1>1, <1>2 DEF Differs, StateFields
<1>5. LevelsKnown(x, A) BY <1>2, <1>4 DEF Tracks, LevelsKnown
<1>6. Alternates(x) BY <1>2, <1>4 DEF Tracks, Alternates
<1>7. StoryTold(x)
  <2>1. PICK T : t.expansions \in Seq(T) BY <1>2 DEF Tracks, StoryTold
  <2>2. x.expansions \in Seq(T \cup {e}) BY <1>4, <2>1, AppendIs
  <2>3. Story(x.expansions) = IF Tells(e) THEN e.direction ELSE Story(t.expansions)
    BY <1>4, <2>1, StoryGrows
  <2>4. t.told = Story(t.expansions) /\ t.told \in {"NONE", "UP", "DOWN"} BY <1>2 DEF Tracks, StoryTold
  <2> QED BY <1>4, <2>2, <2>3, <2>4 DEF StoryTold
<1>8. OnSide(x)
  <2> SUFFICES ASSUME x.tracked # NoLevel
               PROVE  /\ x.tracked \in DOMAIN x.levels
                      /\ x.levels[x.tracked].lifecycle \in ActiveLifecycles
                      /\ x.told # "NONE" /\ x.levels[x.tracked].side = SideOf(x.told)
    BY DEF OnSide
  <2>1. ~turned /\ t = s BY <1>2, <1>3, <1>4
  <2>2. /\ t.tracked \in DOMAIN t.levels /\ t.levels[t.tracked].lifecycle \in ActiveLifecycles
        /\ t.told # "NONE" /\ t.levels[t.tracked].side = SideOf(t.told)
    BY <1>2, <1>4 DEF Tracks, OnSide
  <2>3. x.told = t.told BY <1>4, <2>1, <2>2
  <2> QED BY <1>4, <2>2, <2>3
<1> QED BY <1>5, <1>6, <1>7, <1>8 DEF Tracks, x

\* A distance that is available has a range and a zone.
LEMMA DistanceMeasured ==
    ASSUME NEW e, e.level_price \in Int, e.market_price \in Int, e.confirmed_5m_atr14 \in Int,
           Distance(e).status = "AVAILABLE"
    PROVE  /\ Distance(e).zone \in DOMAIN ZoneRank
           /\ Distance(e).away \in Int /\ Distance(e).atr \in Int /\ Distance(e).atr > 0
<1> DEFINE signed == IF e.side = "ASK" THEN e.level_price - e.market_price
                                       ELSE e.market_price - e.level_price
           fresh == /\ e.confirmed /\ e.atr_confirmed
                    /\ {e.level_freshness_status, e.market_price_freshness_status,
                        e.atr_freshness_status} = {"FRESH"}
           atr == e.confirmed_5m_atr14
           zone == CASE signed * 4 <= atr -> "NEAR_TOUCH"
                     [] signed * 4 > atr /\ signed * 2 <= atr -> "APPROACH"
                     [] OTHER -> "FAR"
           result(status, z) == [status |-> status, zone |-> z, away |-> signed, atr |-> atr]
<1>1. Distance(e) =
        CASE ~fresh \/ atr <= 0 -> result("UNAVAILABLE", "NONE")
          [] fresh /\ atr > 0 /\ signed < 0 -> result("CROSSED_PENDING_CLASSIFICATION", "NONE")
          [] fresh /\ atr > 0 /\ signed = 0 -> result("HIT_INTERSECTION_EVALUATION_REQUIRED", "NONE")
          [] OTHER -> result("AVAILABLE", zone)
  BY DEF Distance
<1>2. signed \in Int /\ atr \in Int OBVIOUS
<1>3. zone \in {"NEAR_TOUCH", "APPROACH", "FAR"}
  <2> HIDE DEF signed, atr
  <2> QED BY <1>2
<1> HIDE DEF signed, fresh, atr, zone
<1>4. Distance(e) = result("AVAILABLE", zone) /\ atr > 0 BY <1>1, <1>2
<1> QED BY <1>2, <1>3, <1>4 DEF ZoneRank

\* What a liquidity alert makes of its level.
LEMMA LevelIsKnown ==
    ASSUME NEW A, Naming(A), NEW a \in A, a.schema = "LIQUIDITY", NEW since,
           NEW l, l = LET e == Canonical(a)
                      IN [id |-> e.level, side |-> e.side, created |-> e.created_at_source, grade |-> e.grade,
                          confluence |-> e.mtf_confluence, touches |-> e.touch_count,
                          lifecycle |-> e.lifecycle, confirmed |-> e.confirmed,
                          fresh |-> e.level_freshness_status, distance |-> Distance(e), since |-> since]
    PROVE  Known(l, LevelKey(Canonical(a)), A)
<1> DEFINE e == Canonical(a)
           key == LevelKey(e)
<1>1. Liquid(a, e) /\ Hash(LevelId(a)) \in Int /\ key # NoLevel BY DEF Naming, WellFormed
<1>2. /\ l.id = e.level /\ l.side = e.side /\ l.created = e.created_at_source
      /\ l.confluence = e.mtf_confluence /\ l.touches = e.touch_count /\ l.lifecycle = e.lifecycle
      /\ l.distance = Distance(e)
  <2> HIDE DEF e
  <2> QED BY DEF e
<1> HIDE DEF e
<1>3. /\ e.created_at_source \in Int /\ e.mtf_confluence \in Int /\ e.touch_count \in Int
      /\ e.level_price \in Int /\ e.market_price \in Int /\ e.confirmed_5m_atr14 \in Int
  BY <1>1 DEF Liquid, Numbers
<1>4. key[1][6] = e.side /\ e.side \in {"ASK", "BID"} BY <1>1 DEF Liquid, LevelKey, LevelId
<1>5. e.lifecycle \in ActiveLifecycles \cup TerminalLifecycles /\ e.level = LevelId(a) BY <1>1 DEF Liquid
<1>6. Distance(e).status = "AVAILABLE" =>
        /\ Distance(e).zone \in DOMAIN ZoneRank
        /\ Distance(e).away \in Int /\ Distance(e).atr \in Int /\ Distance(e).atr > 0
  BY <1>3, DistanceMeasured
<1> HIDE DEF key
<1> QED BY <1>1, <1>2, <1>3, <1>4, <1>5, <1>6 DEF Known, key, e

\* A level joins the levels, or takes the place of its older self.
LEMMA LevelJoins ==
    ASSUME NEW s, NEW x, NEW A, LevelsKnown(s, A), NEW key, NEW level, Known(level, key, A),
           DOMAIN x.levels = (DOMAIN s.levels) \cup {key}, x.levels[key] = level,
           \A k \in DOMAIN s.levels : k # key => x.levels[k] = s.levels[k],
           level.since = IF key \in DOMAIN s.levels THEN s.levels[key].since
                         ELSE Cardinality(DOMAIN s.levels)
    PROVE  LevelsKnown(x, A)
<1> DEFINE old == DOMAIN s.levels
           new == DOMAIN x.levels
<1>1. /\ new = old \cup {key} /\ x.levels[key] = level
      /\ \A k \in old : k # key => x.levels[k] = s.levels[k]
  OBVIOUS
<1>2. IsFiniteSet(old) /\ Cardinality(old) \in Nat BY FS_CardinalityType DEF LevelsKnown
<1>3. /\ IsFiniteSet(new)
      /\ Cardinality(new) = IF key \in old THEN Cardinality(old) ELSE Cardinality(old) + 1
  BY <1>1, <1>2, FS_AddElement
<1>4. \A k \in old : /\ Known(s.levels[k], k, A)
                     /\ s.levels[k].since \in Nat /\ s.levels[k].since < Cardinality(old)
  BY DEF LevelsKnown
<1>5. \A k, o \in old : s.levels[k].since = s.levels[o].since => k = o BY DEF LevelsKnown
<1>6. level.since = IF key \in old THEN s.levels[key].since ELSE Cardinality(old) OBVIOUS
<1> HIDE DEF old, new
<1>7. \A k \in new :
         /\ Known(x.levels[k], k, A)
         /\ x.levels[k].since \in Nat /\ x.levels[k].since < Cardinality(new)
  <2> SUFFICES ASSUME NEW k \in new
               PROVE  /\ Known(x.levels[k], k, A)
                      /\ x.levels[k].since \in Nat /\ x.levels[k].since < Cardinality(new)
    OBVIOUS
  <2>1. CASE k = key BY <1>1, <1>2, <1>3, <1>4, <1>6, <2>1
  <2>2. CASE k # key BY <1>1, <1>2, <1>3, <1>4, <2>2
  <2> QED BY <2>1, <2>2
<1>8. ASSUME NEW k \in new, NEW o \in new, x.levels[k].since = x.levels[o].since PROVE k = o
  <2>1. CASE k # key /\ o # key BY <1>1, <1>5, <1>8, <2>1
  <2>2. CASE k = key /\ o # key BY <1>1, <1>2, <1>4, <1>5, <1>6, <1>8, <2>2
  <2>3. CASE k # key /\ o = key BY <1>1, <1>2, <1>4, <1>5, <1>6, <1>8, <2>3
  <2> QED BY <2>1, <2>2, <2>3
<1> QED BY <1>3, <1>7, <1>8 DEF LevelsKnown, new

LEMMA LiquidityTracks ==
    ASSUME NEW s, DOMAIN s = StateFields, s.failure = "OK", NEW A, Naming(A), Tracks(s, A),
           NEW a \in A, a.schema = "LIQUIDITY", ObserveLiquidity(s, Canonical(a)).failure = "OK"
    PROVE  Tracks(ObserveLiquidity(s, Canonical(a)), A)
<1> DEFINE e == Canonical(a)
           key == LevelKey(e)
           known == key \in DOMAIN s.levels
           level == [id |-> e.level, side |-> e.side, created |-> e.created_at_source, grade |-> e.grade,
                     confluence |-> e.mtf_confluence, touches |-> e.touch_count, lifecycle |-> e.lifecycle,
                     confirmed |-> e.confirmed, fresh |-> e.level_freshness_status,
                     distance |-> Distance(e),
                     since |-> IF known THEN s.levels[key].since ELSE Cardinality(DOMAIN s.levels)]
           t == [s EXCEPT !.levels = Over([k \in {key} |-> level], @)]
           x == ObserveLiquidity(s, e)
<1>1. Known(level, key, A) BY LevelIsKnown
<1>2. /\ level.lifecycle = e.lifecycle
      /\ level.since = IF known THEN s.levels[key].since ELSE Cardinality(DOMAIN s.levels)
  <2> HIDE DEF e, key, known
  <2> QED OBVIOUS
<1>3. x = IF known /\ ~ValidTransition(s.levels[key].lifecycle, e.lifecycle)
          THEN [s EXCEPT !.failure = "INVALID_LIFECYCLE_TRANSITION"]
          ELSE IF s.tracked = key /\ e.lifecycle \in TerminalLifecycles
          THEN Release(t, e.lifecycle)
          ELSE t
  BY DEF ObserveLiquidity
<1> HIDE DEF level, key, e, x
<1>4. x = IF s.tracked = key /\ e.lifecycle \in TerminalLifecycles THEN Release(t, e.lifecycle) ELSE t
  <2> SUFFICES ASSUME known /\ ~ValidTransition(s.levels[key].lifecycle, e.lifecycle) PROVE FALSE
    BY <1>3
  <2>1. x = [s EXCEPT !.failure = "INVALID_LIFECYCLE_TRANSITION"] BY <1>3
  <2>2. x.failure = "INVALID_LIFECYCLE_TRANSITION" BY <2>1 DEF StateFields
  <2> QED BY <2>2 DEF x, e
<1>5. /\ DOMAIN t = StateFields
      /\ DOMAIN t.levels = (DOMAIN s.levels) \cup {key} /\ t.levels[key] = level
      /\ \A k \in DOMAIN s.levels : k # key => t.levels[k] = s.levels[k]
      /\ t.expansions = s.expansions /\ t.told = s.told /\ t.tracked = s.tracked
      /\ t.changes = s.changes
  BY DEF StateFields, Over
<1> HIDE DEF t
<1>6. LevelsKnown(t, A)
  <2>1. LevelsKnown(s, A) BY DEF Tracks
  <2> QED BY <1>1, <1>2, <1>5, <2>1, LevelJoins
<1>7. StoryTold(t) BY <1>5 DEF Tracks, StoryTold
<1>8. Alternates(t) BY <1>5 DEF Tracks, Alternates
<1>9. CASE s.tracked = key /\ e.lifecycle \in TerminalLifecycles
  <2>1. Tracks(Release(t, e.lifecycle), A) BY <1>5, <1>6, <1>7, <1>8, ReleaseTracks
  <2> QED BY <1>4, <1>9, <2>1 DEF x, e
<1>10. CASE ~(s.tracked = key /\ e.lifecycle \in TerminalLifecycles)
  <2>1. ASSUME t.tracked # NoLevel
        PROVE  /\ t.tracked \in DOMAIN t.levels /\ t.levels[t.tracked].lifecycle \in ActiveLifecycles
               /\ t.told # "NONE" /\ t.levels[t.tracked].side = SideOf(t.told)
    <3>1. /\ s.tracked \in DOMAIN s.levels /\ s.levels[s.tracked].lifecycle \in ActiveLifecycles
          /\ s.told # "NONE" /\ s.levels[s.tracked].side = SideOf(s.told)
      BY <1>5, <2>1 DEF Tracks, OnSide
    <3>2. CASE s.tracked # key BY <1>5, <3>1, <3>2
    <3>3. CASE s.tracked = key
      <4>1. level.lifecycle \in ActiveLifecycles BY <1>1, <1>2, <1>10, <3>3 DEF Known
      <4>2. level.side = s.levels[key].side
        <5>1. Known(s.levels[key], key, A) BY <3>1, <3>3 DEF Tracks, LevelsKnown
        <5> QED BY <1>1, <5>1 DEF Known
      <4> QED BY <1>5, <3>1, <3>3, <4>1, <4>2
    <3> QED BY <3>2, <3>3
  <2>2. OnSide(t) BY <2>1 DEF OnSide
  <2> QED BY <1>4, <1>6, <1>7, <1>8, <1>10, <2>2 DEF Tracks, x, e
<1> QED BY <1>9, <1>10

----------------------------------------------------------------------------
(* The nearest candidate exists *)

\* What the sort key compares.
Compared(l, m) ==
    <<ZoneRank[l.distance.zone] - ZoneRank[m.distance.zone],
      GradeRank[l.grade] - GradeRank[m.grade],
      m.confluence - l.confluence,
      l.distance.away * m.distance.atr - m.distance.away * l.distance.atr,
      l.touches - m.touches,
      m.created - l.created,
      Hash(l.id) - Hash(m.id),
      l.since - m.since>>

First(by) == \E i \in 1 .. 8 : by[i] < 0 /\ \A j \in 1 .. (i - 1) : by[j] = 0

LEMMA NearerIsFirst ==
    ASSUME NEW l, NEW m
    PROVE  DOMAIN Compared(l, m) = 1 .. 8 /\ Nearer(l, m) = First(Compared(l, m))
<1> DEFINE by == Compared(l, m)
<1>1. Nearer(l, m) = (\E i \in DOMAIN by : by[i] < 0 /\ \A j \in 1 .. (i - 1) : by[j] = 0)
  BY DEF Nearer, Compared
<1>2. DOMAIN by = 1 .. 8 BY DEF Compared
<1> HIDE DEF by
<1>3. Nearer(l, m) = First(by) BY <1>1, <1>2 DEF First
<1> QED BY <1>2, <1>3 DEF by

\* The comparison of three by place: d of the first two, f of the last two.
LEMMA FirstComposes ==
    ASSUME NEW d, NEW f, NEW g,
           \A i \in 1 .. 8 : d[i] \in Int /\ f[i] \in Int /\ g[i] \in Int,
           \A i \in 1 .. 8 : d[i] = 0 /\ f[i] = 0 => g[i] = 0,
           \A i \in 1 .. 8 : d[i] <= 0 /\ f[i] <= 0 /\ (d[i] < 0 \/ f[i] < 0) => g[i] < 0,
           First(d), First(f)
    PROVE  First(g)
<1>1. PICK i \in 1 .. 8 : d[i] < 0 /\ \A k \in 1 .. (i - 1) : d[k] = 0 BY DEF First
<1>2. PICK j \in 1 .. 8 : f[j] < 0 /\ \A k \in 1 .. (j - 1) : f[k] = 0 BY DEF First
<1>3. ASSUME NEW n \in 1 .. 8, d[n] <= 0, f[n] <= 0, d[n] < 0 \/ f[n] < 0,
             \A k \in 1 .. (n - 1) : d[k] = 0 /\ f[k] = 0
      PROVE  First(g)
  <2>1. g[n] < 0 BY <1>3
  <2>2. \A k \in 1 .. (n - 1) : k \in 1 .. 8 OBVIOUS
  <2>3. \A k \in 1 .. (n - 1) : g[k] = 0 BY <1>3, <2>2
  <2> QED BY <2>1, <2>3 DEF First
<1>4. CASE i < j
  <2>1. f[i] = 0 /\ \A k \in 1 .. (i - 1) : k \in 1 .. (j - 1) BY <1>2, <1>4
  <2> QED BY <1>1, <1>2, <1>3, <2>1
<1>5. CASE i = j BY <1>1, <1>2, <1>3, <1>5
<1>6. CASE j < i
  <2>1. d[j] = 0 /\ \A k \in 1 .. (j - 1) : k \in 1 .. (i - 1) BY <1>1, <1>6
  <2> QED BY <1>1, <1>2, <1>3, <2>1
<1> QED BY <1>4, <1>5, <1>6

LEMMA FirstDecides ==
    ASSUME NEW d, NEW f, \A i \in 1 .. 8 : d[i] \in Int /\ f[i] = -d[i], d[8] # 0
    PROVE  First(d) \/ First(f)
<1> DEFINE told == {i \in 1 .. 8 : d[i] # 0}
           n == Min(told)
<1>1. told # {} /\ told \subseteq Nat OBVIOUS
<1>2. n \in told /\ \A i \in told : n <= i BY <1>1, MinIsLeast
<1> HIDE DEF n
<1>3. n \in 1 .. 8 /\ d[n] # 0 BY <1>2
<1>4. \A k \in 1 .. (n - 1) : k \in 1 .. 8 /\ d[k] = 0 BY <1>2, <1>3
<1>5. \A k \in 1 .. (n - 1) : f[k] = 0 BY <1>4
<1>6. CASE d[n] < 0 BY <1>3, <1>4, <1>6 DEF First
<1>7. CASE d[n] > 0
  <2>1. f[n] < 0 BY <1>3, <1>7
  <2> QED BY <1>3, <1>5, <2>1 DEF First
<1> QED BY <1>3, <1>6, <1>7

\* The comparison of quotients by cross products composes.
LEMMA QuotientsCompose ==
    ASSUME NEW a \in Int, NEW b \in Int, NEW c \in Int, NEW u \in Int, NEW v \in Int, NEW w \in Int,
           u > 0, v > 0, w > 0
    PROVE  /\ a * v - b * u = 0 /\ b * w - c * v = 0 => a * w - c * u = 0
           /\ /\ a * v - b * u <= 0 /\ b * w - c * v <= 0
              /\ a * v - b * u < 0 \/ b * w - c * v < 0
              => a * w - c * u < 0
<1> DEFINE d == a * v - b * u
           f == b * w - c * v
           g == a * w - c * u
<1>1. d \in Int /\ f \in Int /\ g \in Int OBVIOUS
<1>2. v * g = w * d + u * f OBVIOUS
<1> HIDE DEF d, f, g
<1>3. ASSUME d = 0, f = 0 PROVE g = 0
  <2>1. v * g = 0 BY <1>2, <1>3
  <2> QED BY <1>1, <2>1
<1>4. ASSUME d <= 0, f <= 0, d < 0 \/ f < 0 PROVE g < 0
  <2>1. w * d <= 0 /\ (d < 0 => w * d < 0) BY <1>1, <1>4
  <2>2. u * f <= 0 /\ (f < 0 => u * f < 0) BY <1>1, <1>4
  <2>3. w * d \in Int /\ u * f \in Int BY <1>1
  <2>4. v * g < 0 BY <1>2, <1>4, <2>1, <2>2, <2>3
  <2> QED BY <1>1, <2>4
<1> QED BY <1>3, <1>4 DEF d, f, g

\* A level that can be compared.
Comparable(l) ==
    /\ l.distance.zone \in DOMAIN ZoneRank /\ l.grade \in DOMAIN GradeRank
    /\ l.distance.away \in Int /\ l.distance.atr \in Int /\ l.distance.atr > 0
    /\ l.confluence \in Int /\ l.touches \in Int /\ l.created \in Int /\ Hash(l.id) \in Int
    /\ l.since \in Int

LEMMA ComparedPlaces ==
    ASSUME NEW l, NEW m, Comparable(l), Comparable(m)
    PROVE  \A i \in 1 .. 8 : Compared(l, m)[i] \in Int /\ Compared(m, l)[i] = -Compared(l, m)[i]
<1>1. \A z \in DOMAIN ZoneRank : ZoneRank[z] \in Int BY DEF ZoneRank
<1>2. \A z \in DOMAIN GradeRank : GradeRank[z] \in Int BY DEF GradeRank
<1> SUFFICES ASSUME NEW i \in 1 .. 8
             PROVE  Compared(l, m)[i] \in Int /\ Compared(m, l)[i] = -Compared(l, m)[i]
  OBVIOUS
<1>3. CASE i = 1 BY <1>1, <1>3 DEF Compared, Comparable
<1>4. CASE i = 2 BY <1>2, <1>4 DEF Compared, Comparable
<1>5. CASE i = 3 BY <1>5 DEF Compared, Comparable
<1>6. CASE i = 4 BY <1>6 DEF Compared, Comparable
<1>7. CASE i = 5 BY <1>7 DEF Compared, Comparable
<1>8. CASE i = 6 BY <1>8 DEF Compared, Comparable
<1>9. CASE i = 7 BY <1>9 DEF Compared, Comparable
<1>10. CASE i = 8 BY <1>10 DEF Compared, Comparable
<1> QED BY <1>3, <1>4, <1>5, <1>6, <1>7, <1>8, <1>9, <1>10

LEMMA ComparedCompose ==
    ASSUME NEW l, NEW m, NEW n, Comparable(l), Comparable(m), Comparable(n), NEW i \in 1 .. 8
    PROVE  LET d == Compared(l, m)[i]
               f == Compared(m, n)[i]
               g == Compared(l, n)[i]
           IN /\ d = 0 /\ f = 0 => g = 0
              /\ d <= 0 /\ f <= 0 /\ (d < 0 \/ f < 0) => g < 0
<1> DEFINE d == Compared(l, m)[i]
           f == Compared(m, n)[i]
           g == Compared(l, n)[i]
<1>1. CASE i = 4
  <2> DEFINE a == l.distance.away
             u == l.distance.atr
             b == m.distance.away
             v == m.distance.atr
             c == n.distance.away
             w == n.distance.atr
  <2>1. d = a * v - b * u /\ f = b * w - c * v /\ g = a * w - c * u BY <1>1 DEF Compared
  <2>2. /\ a \in Int /\ b \in Int /\ c \in Int /\ u \in Int /\ v \in Int /\ w \in Int
        /\ u > 0 /\ v > 0 /\ w > 0
    BY DEF Comparable
  <2> HIDE DEF d, f, g, a, b, c, u, v, w
  <2>3. /\ a * v - b * u = 0 /\ b * w - c * v = 0 => a * w - c * u = 0
        /\ /\ a * v - b * u <= 0 /\ b * w - c * v <= 0
           /\ a * v - b * u < 0 \/ b * w - c * v < 0
           => a * w - c * u < 0
    BY ONLY <2>2, QuotientsCompose
  <2>4. /\ d = 0 /\ f = 0 => g = 0
        /\ d <= 0 /\ f <= 0 /\ (d < 0 \/ f < 0) => g < 0
    BY ONLY <2>1, <2>3
  <2> QED BY <2>4 DEF d, f, g
<1>2. CASE i # 4
  <2>1. d \in Int /\ f \in Int /\ g \in Int BY ComparedPlaces
  <2>2. g = d + f
    <3>1. \A z \in DOMAIN ZoneRank : ZoneRank[z] \in Int BY DEF ZoneRank
    <3>2. \A z \in DOMAIN GradeRank : GradeRank[z] \in Int BY DEF GradeRank
    <3>3. CASE i = 1 BY <3>1, <3>3 DEF Compared, Comparable
    <3>4. CASE i = 2 BY <3>2, <3>4 DEF Compared, Comparable
    <3>5. CASE i = 3 BY <3>5 DEF Compared, Comparable
    <3>6. CASE i = 5 BY <3>6 DEF Compared, Comparable
    <3>7. CASE i = 6 BY <3>7 DEF Compared, Comparable
    <3>8. CASE i = 7 BY <3>8 DEF Compared, Comparable
    <3>9. CASE i = 8 BY <3>9 DEF Compared, Comparable
    <3> QED BY <1>2, <3>3, <3>4, <3>5, <3>6, <3>7, <3>8, <3>9
  <2> HIDE DEF d, f, g
  <2>3. /\ d = 0 /\ f = 0 => g = 0
        /\ d <= 0 /\ f <= 0 /\ (d < 0 \/ f < 0) => g < 0
    BY <2>1, <2>2
  <2> QED BY <2>3 DEF d, f, g
<1> QED BY <1>1, <1>2

LEMMA NearestExists ==
    ASSUME NEW found, IsFiniteSet(found), found # {}, NEW levels, \A k \in found : Comparable(levels[k]),
           \A k, o \in found : levels[k].since = levels[o].since => k = o
    PROVE  \E k \in found : \A o \in found \ {k} : Nearer(levels[k], levels[o])
<1> DEFINE R == {p \in found \X found : Nearer(levels[p[1]], levels[p[2]])}
<1>1. \A x, y \in found : <<x, y>> \in R <=> Nearer(levels[x], levels[y]) OBVIOUS
<1> HIDE DEF R
<1>2. \A x, y \in found : <<x, y>> \in R <=> First(Compared(levels[x], levels[y]))
  BY <1>1, NearerIsFirst
<1>3. \A x \in found : <<x, x>> \notin R
  <2> SUFFICES ASSUME NEW x \in found, First(Compared(levels[x], levels[x])) PROVE FALSE BY <1>2
  <2> DEFINE d == Compared(levels[x], levels[x])
  <2>1. \A i \in 1 .. 8 : d[i] \in Int /\ d[i] = -d[i] BY ComparedPlaces
  <2> HIDE DEF d
  <2>2. \A i \in 1 .. 8 : d[i] = 0 BY <2>1
  <2>3. First(d) BY DEF d
  <2> QED BY <2>2, <2>3 DEF First
<1>4. ASSUME NEW x \in found, NEW y \in found, NEW z \in found, <<x, y>> \in R, <<y, z>> \in R
      PROVE  <<x, z>> \in R
  <2> DEFINE d == Compared(levels[x], levels[y])
             f == Compared(levels[y], levels[z])
             g == Compared(levels[x], levels[z])
  <2>1. First(d) /\ First(f) BY <1>2, <1>4
  <2>2. \A i \in 1 .. 8 : d[i] \in Int /\ f[i] \in Int /\ g[i] \in Int BY ComparedPlaces
  <2>3. \A i \in 1 .. 8 : /\ d[i] = 0 /\ f[i] = 0 => g[i] = 0
                          /\ d[i] <= 0 /\ f[i] <= 0 /\ (d[i] < 0 \/ f[i] < 0) => g[i] < 0
    BY ComparedCompose
  <2> HIDE DEF d, f, g
  <2>4. First(g) BY <2>1, <2>2, <2>3, FirstComposes
  <2> QED BY <1>2, <2>4 DEF g
<1>5. ASSUME NEW x \in found, NEW y \in found, x # y PROVE <<x, y>> \in R \/ <<y, x>> \in R
  <2> DEFINE d == Compared(levels[x], levels[y])
             f == Compared(levels[y], levels[x])
  <2>1. \A i \in 1 .. 8 : d[i] \in Int /\ f[i] = -d[i] BY ComparedPlaces
  <2>2. d[8] = levels[x].since - levels[y].since BY DEF Compared
  <2>3. levels[x].since # levels[y].since /\ levels[x].since \in Int /\ levels[y].since \in Int
    BY <1>5 DEF Comparable
  <2> HIDE DEF d, f
  <2>4. d[8] # 0 BY <2>2, <2>3
  <2>5. First(d) \/ First(f) BY <2>1, <2>4, FirstDecides
  <2> QED BY <1>2, <2>5 DEF d, f
<1>6. \A i \in 1 .. Cardinality(found) :
         \E x \in found : Cardinality({y \in found : <<y, x>> \in R}) = i - 1
  <2>1. \A x, y, z \in found : <<x, y>> \in R /\ <<y, z>> \in R => <<x, z>> \in R BY <1>4
  <2>2. \A x, y \in found : x # y => <<x, y>> \in R \/ <<y, x>> \in R BY <1>5
  <2>3. IsFiniteSet(found) OBVIOUS
  <2>4. /\ \A i \in 1 .. Cardinality(found) :
             \E x \in found : Cardinality({y \in found : <<y, x>> \in R}) = i - 1
        /\ \A x \in found : Cardinality({y \in found : <<y, x>> \in R}) + 1 \in 1 .. Cardinality(found)
        /\ \A x, z \in found :
             Cardinality({y \in found : <<y, x>> \in R}) = Cardinality({y \in found : <<y, z>> \in R})
               => x = z
    BY ONLY <1>3, <2>1, <2>2, <2>3, Ranked
  <2> QED BY <2>4
<1>7. Cardinality(found) \in Nat /\ Cardinality(found) # 0 BY FS_CardinalityType, FS_EmptySet
<1>8. PICK x \in found : Cardinality({y \in found : <<y, x>> \in R}) = 0
  <2>1. 1 \in 1 .. Cardinality(found) BY <1>7
  <2>2. PICK i \in 1 .. Cardinality(found) : i = 1 BY <2>1
  <2>3. \E x \in found : Cardinality({y \in found : <<y, x>> \in R}) = i - 1 BY <1>6
  <2>4. i - 1 = 0 BY <2>2
  <2> QED BY <2>3, <2>4
<1>9. {y \in found : <<y, x>> \in R} = {}
  <2>1. IsFiniteSet({y \in found : <<y, x>> \in R}) BY FS_Subset
  <2> QED BY <1>8, <2>1, FS_EmptySet
<1>10. \A o \in found \ {x} : <<x, o>> \in R BY <1>5, <1>9
<1> QED BY <1>1, <1>10

LEMMA CandidatesCompare ==
    ASSUME NEW s, NEW A, LevelsKnown(s, A)
    PROVE  /\ IsFiniteSet(Candidates(s)) /\ Candidates(s) \subseteq DOMAIN s.levels
           /\ \A k \in Candidates(s) :
                 /\ Comparable(s.levels[k]) /\ s.levels[k].side = SideOf(s.told)
                 /\ s.levels[k].lifecycle \in ActiveLifecycles
<1> DEFINE found == Candidates(s)
<1>1. found \subseteq DOMAIN s.levels BY DEF Candidates
<1>2. IsFiniteSet(found)
  <2> HIDE DEF found
  <2> QED BY <1>1, FS_Subset DEF LevelsKnown
<1>3. \A k \in found :
         LET l == s.levels[k]
         IN /\ l.side = SideOf(s.told) /\ l.grade \in DOMAIN GradeRank /\ l.lifecycle \in ActiveLifecycles
            /\ l.distance.status = "AVAILABLE"
  BY DEF Candidates, SideOf
<1> HIDE DEF found
<1>4. \A k \in found : Comparable(s.levels[k])
  BY <1>1, <1>3 DEF LevelsKnown, Known, Comparable
<1> QED BY <1>1, <1>2, <1>3, <1>4 DEF found

LEMMA TrackTracks ==
    ASSUME NEW s, DOMAIN s = StateFields, NEW A, Tracks(s, A)
    PROVE  Tracks(Track(s), A)
<1> DEFINE found == IF s.told = "NONE" THEN {} ELSE Candidates(s)
           best == CHOOSE k \in found : \A o \in found \ {k} : Nearer(s.levels[k], s.levels[o])
           x == Track(s)
<1>1. x = IF s.failure # "OK" \/ s.tracked # NoLevel \/ found = {} THEN s
          ELSE IF s.levels[best].distance.zone = "FAR" THEN s
          ELSE [s EXCEPT !.tracked = best, !.changes = Change(s, Selected, best, "NEAREST")]
  BY DEF Track
<1>2. found # {} => /\ best \in found /\ found = Candidates(s) /\ s.told # "NONE"
  <2> SUFFICES ASSUME found # {} PROVE best \in found OBVIOUS
  <2>1. IsFiniteSet(found) /\ \A k \in found : Comparable(s.levels[k]) /\ k \in DOMAIN s.levels
    BY CandidatesCompare DEF Tracks
  <2>2. \A k, o \in found : s.levels[k].since = s.levels[o].since => k = o
    BY <2>1 DEF Tracks, LevelsKnown
  <2> HIDE DEF found
  <2>3. \E k \in found : \A o \in found \ {k} : Nearer(s.levels[k], s.levels[o])
    BY <2>1, <2>2, NearestExists
  <2> QED BY <2>3
<1>3. found # {} => /\ best \in DOMAIN s.levels /\ s.levels[best].side = SideOf(s.told)
                    /\ s.levels[best].lifecycle \in ActiveLifecycles
  <2> HIDE DEF best
  <2> QED BY <1>2, CandidatesCompare DEF Tracks
<1> HIDE DEF best, x, found
<1>4. CASE x = s BY <1>4 DEF x
<1>5. CASE x # s
  <2>1. /\ s.tracked = NoLevel /\ found # {}
        /\ x = [s EXCEPT !.tracked = best, !.changes = Change(s, Selected, best, "NEAREST")]
    BY <1>1, <1>5
  <2>2. /\ x.tracked = best /\ x.changes = Change(s, Selected, best, "NEAREST")
        /\ x.levels = s.levels /\ x.expansions = s.expansions /\ x.told = s.told
    BY <2>1 DEF StateFields
  <2>3. best # NoLevel BY <1>3, <2>1 DEF Tracks, LevelsKnown, Known
  <2>4. LevelsKnown(x, A) BY <2>2 DEF Tracks, LevelsKnown
  <2>5. StoryTold(x) BY <2>2 DEF Tracks, StoryTold
  <2>6. OnSide(x) BY <1>2, <1>3, <2>1, <2>2 DEF OnSide
  <2>7. Alternates(x)
    <3>1. Alternates(s) BY DEF Tracks
    <3> QED BY <2>1, <2>2, <2>3, <3>1, ChangeAlternates
  <2> QED BY <2>4, <2>5, <2>6, <2>7 DEF Tracks, x
<1> QED BY <1>4, <1>5

LEMMA BlankTracks ==
    ASSUME NEW A
    PROVE  Tracks(Blank, A)
<1>1. /\ Blank.levels = <<>> /\ Blank.expansions = <<>> /\ Blank.told = "NONE"
      /\ Blank.tracked = NoLevel /\ Blank.changes = <<>>
  BY DEF Blank
<1>2. DOMAIN <<>> = {} /\ <<>> \in Seq({}) /\ Len(<<>>) = 0 OBVIOUS
<1>3. LevelsKnown(Blank, A) BY <1>1, <1>2, FS_EmptySet DEF LevelsKnown
<1>4. StoryTold(Blank) BY <1>1, <1>2 DEF StoryTold, Story
<1>5. OnSide(Blank) BY <1>1 DEF OnSide
<1>6. Alternates(Blank) BY <1>1, <1>2 DEF Alternates
<1> QED BY <1>3, <1>4, <1>5, <1>6 DEF Tracks

\* An alert that fails nothing keeps the level on the side of the story.
LEMMA ObserveTracks ==
    ASSUME NEW s, DOMAIN s = StateFields, NEW A, Naming(A), NEW a \in A,
           s.failure = "OK", Tracks(s, A), Observe(s, a).failure = "OK"
    PROVE  Tracks(Observe(s, a), A)
<1> DEFINE e == Canonical(a)
           t == Noted(s, a)
           x == Observe(s, a)
<1>1. WellFormed(a) BY DEF Naming
<1>2. Differs(t, s, {"prices", "ordered"}) BY NotedDiffers
<1> HIDE DEF t
<1>3. /\ DOMAIN t = StateFields /\ t.failure = "OK"
      /\ \A f \in TrackFields : t[f] = s[f]
  BY <1>2 DEF Differs, StateFields, TrackFields
<1>4. Tracks(t, A)
  <2>1. \A f \in TrackFields : t[f] = s[f] BY <1>3
  <2> QED BY <2>1, SameTracks
<1>5. /\ IsScanner(e) => x = [t EXCEPT !.scanners = Append(@, e)]
      /\ a.schema = "EXPANSION" /\ ~IsScanner(e) => x = Track(ObserveExpansion(t, e))
      /\ a.schema = "LIQUIDITY" => x = Track(ObserveLiquidity(t, e))
      /\ a.schema = "RENKO" => x = Track(ObserveRenko(t, e))
      /\ a.schema \in {"EXPANSION", "LIQUIDITY", "RENKO"}
  BY <1>1, ObserveCases DEF t
<1> HIDE DEF x
<1>6. CASE IsScanner(e)
  <2>1. x = [t EXCEPT !.scanners = Append(@, e)] BY <1>5, <1>6
  <2>2. \A f \in TrackFields : x[f] = t[f] BY <1>3, <2>1 DEF TrackFields, StateFields
  <2>3. Tracks(x, A) BY <1>4, <2>2, SameTracks
  <2> QED BY <2>3 DEF x
<1>7. CASE a.schema = "EXPANSION" /\ ~IsScanner(e)
  <2> DEFINE u == ObserveExpansion(t, e)
  <2>1. e.direction \in {"UP", "DOWN"} BY <1>1, <1>7 DEF WellFormed, Moving
  <2> HIDE DEF e
  <2>2. Tracks(u, A) BY <1>3, <1>4, <2>1, ExpansionTracks
  <2>3. DOMAIN u = StateFields BY <1>3, ExpansionDiffers DEF Differs
  <2> HIDE DEF u
  <2>4. x = Track(u) BY <1>5, <1>7 DEF u
  <2>5. Tracks(Track(u), A) BY <2>2, <2>3, TrackTracks
  <2> QED BY <2>4, <2>5 DEF x
<1>8. CASE a.schema = "LIQUIDITY"
  <2> DEFINE u == ObserveLiquidity(t, e)
  <2>1. DOMAIN u = StateFields BY <1>3, LiquidityDiffers DEF Differs
  <2>2. x = Track(u) BY <1>5, <1>8
  <2>3. u.failure = "OK"
    <3> HIDE DEF u
    <3>1. Differs(Track(u), u, {"tracked", "changes"}) BY <2>1, TrackDiffers
    <3> QED BY <2>2, <3>1 DEF Differs, StateFields, x
  <2>4. Tracks(u, A) BY <1>3, <1>4, <1>8, <2>3, LiquidityTracks
  <2> HIDE DEF u
  <2>5. Tracks(Track(u), A) BY <2>1, <2>4, TrackTracks
  <2> QED BY <2>2, <2>5 DEF x
<1>9. CASE a.schema = "RENKO"
  <2> DEFINE u == ObserveRenko(t, e)
  <2> HIDE DEF e
  <2>1. Differs(u, t, {"cycle", "stages"}) BY <1>3, RenkoDiffers
  <2> HIDE DEF u
  <2>2. DOMAIN u = StateFields /\ \A f \in TrackFields : u[f] = t[f]
    BY <2>1 DEF Differs, StateFields, TrackFields
  <2>3. Tracks(u, A) BY <1>4, <2>2, SameTracks
  <2>4. x = Track(u) BY <1>5, <1>9 DEF u
  <2>5. Tracks(Track(u), A) BY <2>2, <2>3, TrackTracks
  <2> QED BY <2>4, <2>5 DEF x
<1> QED BY <1>5, <1>6, <1>7, <1>8, <1>9

LEMMA PassedTracks ==
    ASSUME NEW A, Naming(A), NEW s \in Seq(A)
    PROVE  \A i \in 0 .. Len(s) : Passed(s)[i].failure = "OK" => Tracks(Passed(s)[i], A)
<1> DEFINE P == Passed(s)
           Good == {i \in Nat : i <= Len(s) => (P[i].failure = "OK" => Tracks(P[i], A))}
<1>1. Len(s) \in Nat OBVIOUS
<1>2. P[0] = Blank /\ \A i \in 1 .. Len(s) : P[i] = Observe(P[i - 1], s[i]) BY <1>1, PassedIs
<1>3. \A i \in 0 .. Len(s) : DOMAIN P[i] = StateFields
  <2>1. \A a \in A : WellFormed(a) BY DEF Naming
  <2> QED BY <2>1, PassedOrders
<1> HIDE DEF P
<1>4. 0 \in Good BY <1>2, BlankTracks
<1>5. ASSUME NEW i \in Nat, i \in Good PROVE i + 1 \in Good
  <2> SUFFICES ASSUME i + 1 <= Len(s), P[i + 1].failure = "OK" PROVE Tracks(P[i + 1], A)
    OBVIOUS
  <2> DEFINE t == P[i]
             a == s[i + 1]
  <2>1. t.failure = "OK" => Tracks(t, A) BY <1>1, <1>5
  <2>2. P[i + 1] = Observe(t, a) /\ a \in A /\ DOMAIN t = StateFields BY <1>1, <1>2, <1>3
  <2> HIDE DEF t, a
  <2>3. WellFormed(a) BY <2>2 DEF Naming
  <2>4. t.failure = "OK"
    <3>1. Observe(t, a).failure = "OK" BY <2>2
    <3> QED BY <2>2, <2>3, <3>1, ObserveOrders
  <2>5. Tracks(Observe(t, a), A)
    <3>1. Observe(t, a).failure = "OK" BY <2>2
    <3> QED BY <2>1, <2>2, <2>4, <3>1, ObserveTracks
  <2> QED BY <2>2, <2>5
<1>6. \A i \in 0 .. Len(s) : i \in Good
  <2> HIDE DEF Good
  <2> QED BY <1>1, <1>4, <1>5, FromZero
<1> QED BY <1>6 DEF P

LEMMA RebuiltTracks ==
    ASSUME NEW alerts, Orderly(alerts), Naming(alerts), Rebuild(alerts).failure = "OK"
    PROVE  Tracks(Rebuild(alerts), alerts)
<1> DEFINE n == Cardinality(alerts)
           s == Sorted(alerts)
<1>1. n \in Nat /\ s \in [1 .. n -> alerts] BY SortedOrder
<1>2. Rebuild(alerts) = Passed(s)[n] BY RebuiltOrders
<1> HIDE DEF n, s
<1>3. s \in Seq(alerts) /\ Len(s) = n BY <1>1
<1>4. n \in 0 .. Len(s) BY <1>1, <1>3
<1>5. Tracks(Passed(s)[n], alerts) BY <1>2, <1>3, <1>4, PassedTracks
<1> QED BY <1>2, <1>5

LEMMA JoinedTracks ==
    ASSUME IngressInv, NEW r, NEW b, NEW c, Joins(r, b, c)
    PROVE  /\ Naming(Alerts(ledger) \cup {Alert(b)})
           /\ Tracks(c.state, Alerts(ledger) \cup {Alert(b)})
<1> DEFINE m == IngestAll(Joined(b))
           L == Alerts(ledger) \cup {Alert(b)}
<1>1. Orderly(L) /\ m.state = Rebuild(L) /\ m.state.failure = "OK"
  BY JoinedOrderly, JoinedState DEF Holds
<1>2. c.state = m.state
  <2> HIDE DEF m
  <2>1. c = CompileFor(m.state, TriggerOf(m, Alert(b).event_id), receiver[r].seen, SourceAuthority,
                       MissingFreshness)
    BY JoinedState DEF m
  <2> QED BY <2>1 DEF CompileFor, CompileSense, Compiled
<1>3. Naming(L)
  <2>1. ledger \cup {b} \subseteq Valid BY DEF IngressInv, LedgerKept, Joins
  <2>2. ASSUME NEW x \in Valid
        PROVE  /\ WellFormed(Alert(x))
               /\ Alert(x).schema = "LIQUIDITY" =>
                    Hash(LevelId(Alert(x))) \in Int /\ LevelKey(Canonical(Alert(x))) # NoLevel
    BY ValidWellFormed, LevelAssumption DEF Valid, Event
  <2> QED BY <2>1, <2>2 DEF Naming, Alerts
<1> HIDE DEF m, L
<1>4. Tracks(Rebuild(L), L) BY <1>1, <1>3, RebuiltTracks
<1> QED BY <1>1, <1>2, <1>3, <1>4 DEF L

\* The key of a level holds the side of every alert that names it.
LEMMA KeyHoldsSide == \A a : WellFormed(a) /\ a.schema = "LIQUIDITY" => LevelKey(Canonical(a))[1][6] = a.side
  BY DEF WellFormed, Liquid, LevelKey, LevelId

\* What a row tells of the state that was tracked.
LEMMA SnapshotFollows ==
    ASSUME NEW s, NEW A, Naming(A), Tracks(s, A)
    PROVE  LET x == Snapshot(s)
           IN /\ x.tracked # NoLevel =>
                    /\ x.lifecycles[x.tracked] \in ActiveLifecycles
                    /\ \E a \in A : /\ a.schema = "LIQUIDITY" /\ LevelKey(Canonical(a)) = x.tracked
                                    /\ ExpectedExpansion(a.side) = Story(s.expansions)
              /\ \A i \in DOMAIN x.changes :
                    x.changes[i].what = IF i % 2 = 1 THEN Selected ELSE Released
              /\ (x.tracked # NoLevel) = (Len(x.changes) % 2 = 1)
<1> DEFINE x == Snapshot(s)
<1>1. /\ x.tracked = s.tracked /\ x.changes = s.changes
      /\ x.lifecycles = [key \in DOMAIN s.levels |-> s.levels[key].lifecycle]
  BY DEF Snapshot
<1> HIDE DEF x
<1>2. ASSUME s.tracked # NoLevel
      PROVE  /\ x.lifecycles[x.tracked] \in ActiveLifecycles
             /\ \E a \in A : /\ a.schema = "LIQUIDITY" /\ LevelKey(Canonical(a)) = x.tracked
                             /\ ExpectedExpansion(a.side) = Story(s.expansions)
  <2>1. /\ s.tracked \in DOMAIN s.levels /\ s.levels[s.tracked].lifecycle \in ActiveLifecycles
        /\ s.told # "NONE" /\ s.levels[s.tracked].side = SideOf(s.told)
    BY <1>2 DEF Tracks, OnSide
  <2>2. s.told = Story(s.expansions) /\ s.told \in {"UP", "DOWN"} BY <2>1 DEF Tracks, StoryTold
  <2>3. Known(s.levels[s.tracked], s.tracked, A) BY <2>1 DEF Tracks, LevelsKnown
  <2>4. PICK a \in A : a.schema = "LIQUIDITY" /\ LevelKey(Canonical(a)) = s.tracked
    BY <2>3 DEF Known
  <2>5. a.side = SideOf(s.told)
    <3>1. WellFormed(a) BY DEF Naming
    <3> QED BY <2>1, <2>3, <2>4, <3>1, KeyHoldsSide DEF Known
  <2>6. ExpectedExpansion(a.side) = s.told BY <2>2, <2>5 DEF ExpectedExpansion, SideOf
  <2> QED BY <1>1, <2>1, <2>2, <2>4, <2>6
<1>3. /\ \A i \in DOMAIN s.changes : s.changes[i].what = IF i % 2 = 1 THEN Selected ELSE Released
      /\ (s.tracked # NoLevel) = (Len(s.changes) % 2 = 1)
  BY DEF Tracks, Alternates
<1> QED BY <1>1, <1>2, <1>3 DEF x

\* In every row of the history a tracked level is alive and on the side the
\* story of that moment points to, and selections and releases alternate.
THEOREM StoryIsFollowed == Spec => []TrackedFollowsStory
<1> DEFINE Inv == IngressInv /\ TrackedFollowsStory
<1>1. Init => Inv
  <2> SUFFICES ASSUME Init PROVE TrackedFollowsStory BY IngressInit
  <2> QED BY DEF Init, TrackedFollowsStory
<1>2. Inv /\ [Next]_ingressVars => Inv'
  <2> SUFFICES ASSUME Inv, [Next]_ingressVars PROVE TrackedFollowsStory' BY IngressStep
  <2>1. CASE UNCHANGED ledgerVars BY <2>1 DEF TrackedFollowsStory, ledgerVars
  <2>2. ASSUME NEW r \in Receivers, NEW b, NEW c, Joins(r, b, c) PROVE TrackedFollowsStory'
    <3> DEFINE row == [body |-> b, state |-> Snapshot(c.state), story |-> Story(c.state.expansions),
                       sense |-> c.sense.state, bundle |-> Digest(c.bundle)]
               L == Alerts(ledger) \cup {Alert(b)}
    <3>1. rows' = rows \cup {row} /\ ledger' = ledger \cup {b} BY <2>2 DEF Joins, Accept
    <3>2. row.state = Snapshot(c.state) /\ row.story = Story(c.state.expansions) OBVIOUS
    <3> HIDE DEF row
    <3>3. Naming(L) /\ Tracks(c.state, L) BY <2>2, JoinedTracks
    <3>4. \A a \in L : \E x \in ledger' : a = Alert(x) BY <3>1 DEF Alerts
    <3> DEFINE Follows(o, kept) ==
                 LET s == o.state
                 IN /\ s.tracked # NoLevel =>
                          /\ s.lifecycles[s.tracked] \in ActiveLifecycles
                          /\ \E x \in kept : /\ Alert(x).schema = "LIQUIDITY" /\ LevelKey(Event(x)) = s.tracked
                                             /\ ExpectedExpansion(Alert(x).side) = o.story
                    /\ \A i \in DOMAIN s.changes :
                          s.changes[i].what = IF i % 2 = 1 THEN Selected ELSE Released
                    /\ (s.tracked # NoLevel) = (Len(s.changes) % 2 = 1)
    <3>5. Follows(row, ledger')
      <4> DEFINE y == Snapshot(c.state)
      <4>1. /\ y.tracked # NoLevel =>
                  /\ y.lifecycles[y.tracked] \in ActiveLifecycles
                  /\ \E a \in L : /\ a.schema = "LIQUIDITY" /\ LevelKey(Canonical(a)) = y.tracked
                                  /\ ExpectedExpansion(a.side) = Story(c.state.expansions)
            /\ \A i \in DOMAIN y.changes :
                  y.changes[i].what = IF i % 2 = 1 THEN Selected ELSE Released
            /\ (y.tracked # NoLevel) = (Len(y.changes) % 2 = 1)
        BY <3>3, SnapshotFollows
      <4> HIDE DEF y, L
      <4> QED BY <3>2, <3>4, <4>1 DEF Event, y
    <3>6. \A o \in rows : Follows(o, ledger') BY <3>1 DEF TrackedFollowsStory
    <3>7. \A o \in rows' : Follows(o, ledger') BY <3>1, <3>5, <3>6
    <3> QED BY <3>7 DEF TrackedFollowsStory
  <2> QED BY <2>1, <2>2, OnlyAcceptWrites
<1>3. Inv => TrackedFollowsStory OBVIOUS
<1> HIDE DEF Inv
<1> QED BY <1>1, <1>2, <1>3, PTL DEF Spec

=============================================================================
