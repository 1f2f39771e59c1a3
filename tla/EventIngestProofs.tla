------------------------- MODULE EventIngestProofs -------------------------
(***************************************************************************)
(* Proofs about Event V1 ingest, for any number of events, setups,         *)
(* receivers, consumers and receipts.                                      *)
(***************************************************************************)
EXTENDS EventIngest, SequenceTheorems, WellFoundedInduction, TLAPS

----------------------------------------------------------------------------
(* Types *)

ReceiptRows == [event : Events, recorded : Nat, status : Statuses, outcome : Outcomes]
StateRows == [setup : Setups, receipt : Nat, state : Lifecycle, version : Nat, at : Int]

\* The receipts are rows, numbered from 1.
LEMMA ReceiptRowType ==
    ASSUME TypeOK
    PROVE  /\ receipts \in Seq(ReceiptRows)
           /\ Len(receipts) \in Nat
           /\ DOMAIN receipts = 1..Len(receipts)
           /\ \A k \in DOMAIN receipts :
                /\ receipts[k] \in ReceiptRows
                /\ receipts[k].event \in Events
                /\ receipts[k].recorded \in Nat
                /\ receipts[k].status \in Statuses
                /\ receipts[k].outcome \in Outcomes
<1>1. receipts \in Seq(ReceiptRows)
  BY DEF TypeOK, ReceiptRows
<1>2. /\ Len(receipts) \in Nat /\ DOMAIN receipts = 1..Len(receipts)
      /\ \A k \in 1..Len(receipts) : receipts[k] \in ReceiptRows
  BY <1>1, ElementOfSeq, LenProperties
<1> QED BY <1>1, <1>2 DEF ReceiptRows

\* A status written over a receipt leaves a receipt, and leaves the others.
LEMMA MarkedType ==
    ASSUME receipts \in Seq(ReceiptRows), NEW i \in DOMAIN receipts,
           NEW status \in Statuses
    PROVE  /\ Marked(i, status) \in Seq(ReceiptRows)
           /\ Len(Marked(i, status)) = Len(receipts)
           /\ \A k \in DOMAIN receipts :
                /\ Marked(i, status)[k].event = receipts[k].event
                /\ Marked(i, status)[k].recorded = receipts[k].recorded
                /\ Marked(i, status)[k].outcome = receipts[k].outcome
                /\ Marked(i, status)[k].status =
                     IF k = i /\ receipts[i].status # "CONFIRMED"
                     THEN status ELSE receipts[k].status
<1> DEFINE row == [receipts[i] EXCEPT !.status = status]
           new == [receipts EXCEPT ![i] = row]
<1>1. receipts[i] \in ReceiptRows /\ i \in 1..Len(receipts)
  BY ElementOfSeq, LenProperties
<1>2. row \in ReceiptRows /\ row.status = status
      /\ row.event = receipts[i].event /\ row.recorded = receipts[i].recorded
      /\ row.outcome = receipts[i].outcome
  BY <1>1 DEF ReceiptRows
<1>3. new \in Seq(ReceiptRows) /\ Len(new) = Len(receipts)
      /\ \A k \in 1..Len(receipts) : new[k] = IF k = i THEN row ELSE receipts[k]
  BY <1>1, <1>2, ExceptSeq, LenProperties
<1>4. Marked(i, status) = IF receipts[i].status = "CONFIRMED" THEN receipts ELSE new
  BY DEF Marked
<1>5. DOMAIN receipts = 1..Len(receipts)
  BY LenProperties
<1> HIDE DEF row, new
<1>6. CASE receipts[i].status = "CONFIRMED"
  BY <1>4, <1>6
<1>7. CASE receipts[i].status # "CONFIRMED"
  BY <1>2, <1>3, <1>4, <1>5, <1>7
<1> QED BY <1>6, <1>7

\* Recovery writes ABANDONED over stale units and leaves the rest.
LEMMA RecoverType ==
    ASSUME receipts \in Seq(ReceiptRows), RecoverReceipts
    PROVE  /\ receipts' \in Seq(ReceiptRows)
           /\ Len(receipts') = Len(receipts)
           /\ \A k \in DOMAIN receipts :
                /\ receipts'[k].event = receipts[k].event
                /\ receipts'[k].recorded = receipts[k].recorded
                /\ receipts'[k].outcome = receipts[k].outcome
                /\ \/ receipts'[k].status = receipts[k].status
                   \/ /\ receipts[k].status \in {"CLAIMED", "COMMITTED_UNCONFIRMED"}
                      /\ receipts'[k].status = "ABANDONED"
<1>1. PICK cutoff \in 1..(Len(receipts) + 1) :
        receipts' = [i \in DOMAIN receipts |->
             IF Abandoned(i, cutoff)
             THEN [receipts[i] EXCEPT !.status = "ABANDONED"] ELSE receipts[i]]
  BY DEF RecoverReceipts
<1>2. /\ DOMAIN receipts = 1..Len(receipts) /\ Len(receipts) \in Nat
      /\ \A i \in 1..Len(receipts) : receipts[i] \in ReceiptRows
  BY ElementOfSeq, LenProperties
<1>3. \A i \in 1..Len(receipts) :
        /\ [receipts[i] EXCEPT !.status = "ABANDONED"] \in ReceiptRows
        /\ [receipts[i] EXCEPT !.status = "ABANDONED"].event = receipts[i].event
        /\ [receipts[i] EXCEPT !.status = "ABANDONED"].recorded = receipts[i].recorded
        /\ [receipts[i] EXCEPT !.status = "ABANDONED"].outcome = receipts[i].outcome
        /\ [receipts[i] EXCEPT !.status = "ABANDONED"].status = "ABANDONED"
  BY <1>2 DEF ReceiptRows, Statuses
<1>4. receipts' \in [1..Len(receipts) -> ReceiptRows]
  BY <1>1, <1>2, <1>3
<1>5. receipts' \in Seq(ReceiptRows) /\ Len(receipts') = Len(receipts)
  BY <1>2, <1>4
<1>6. ASSUME NEW k \in DOMAIN receipts
      PROVE  \/ receipts'[k] = receipts[k]
             \/ /\ receipts[k].status \in {"CLAIMED", "COMMITTED_UNCONFIRMED"}
                /\ receipts'[k] = [receipts[k] EXCEPT !.status = "ABANDONED"]
  BY <1>1 DEF Abandoned
<1> QED BY <1>2, <1>3, <1>5, <1>6

\* A stored receipt is appended without a unit.
LEMMA StoreType ==
    ASSUME receipts \in Seq(ReceiptRows), NEW r, NEW e \in Events,
           NEW recorded \in Nat, Store(r, e, recorded)
    PROVE  /\ receipts' \in Seq(ReceiptRows)
           /\ Len(receipts') = Len(receipts) + 1
           /\ \A k \in DOMAIN receipts : receipts'[k] = receipts[k]
           /\ receipts'[Len(receipts) + 1] = [event |-> e, recorded |-> recorded,
                                    status |-> "NONE", outcome |-> "NONE"]
<1> DEFINE row == [event |-> e, recorded |-> recorded,
                   status |-> "NONE", outcome |-> "NONE"]
<1>1. row \in ReceiptRows
  BY DEF ReceiptRows, Statuses, Outcomes
<1>2. receipts' = Append(receipts, row)
  BY DEF Store
<1> HIDE DEF row
<1>3. QED BY <1>1, <1>2, AppendProperties, LenProperties DEF row

\* Every delivery, live or replayed, stores some event at some time.
LEMMA DeliveryStores ==
    ASSUME TypeOK, NEW r \in Receivers, Receive(r) \/ Replay(r)
    PROVE  \E e \in Events, recorded \in Nat : Store(r, e, recorded)
<1>1. Len(receipts) + 1 \in Nat
  BY ReceiptRowType
<1>2. \A j \in DOMAIN receipts : receipts[j].event \in Events /\ receipts[j].recorded \in Nat
  BY ReceiptRowType
<1> QED BY <1>1, <1>2 DEF Receive, Replay

\* What the transition table of V1 allows and leads to.  Without a state only
\* an ending is a lifecycle change, and a terminal state allows telemetry alone.
LEMMA TransitionFacts ==
    ASSUME NEW current \in Lifecycle \cup {NoSetup}, NEW type \in EventTypes,
           NEW t, t = V1Transition(current, type)
    PROVE  /\ t.allowed \in BOOLEAN
           /\ t.persist \in BOOLEAN
           /\ type \in Lifecycle => t.next = type
           /\ t.allowed => (t.dispatch <=> type \in ReadyStates)
           /\ current = NoSetup /\ type \notin Lifecycle \ Endings => t.allowed
           /\ current = NoSetup /\ type \in Lifecycle /\ t.allowed => type \in Endings
           /\ current \in TerminalStates /\ type \notin Telemetry => ~t.allowed
<1> USE DEF Telemetry, ReadyStates, Endings, Lifecycle, TerminalStates
<1>1. NoSetup \notin SetupStates
  BY NoSetupAssumption
<1>2. CASE current = NoSetup /\ type \in Endings
  <2>1. t = [allowed |-> TRUE, next |-> type, persist |-> TRUE, dispatch |-> FALSE]
    BY <1>2 DEF V1Transition
  <2>2. t.allowed /\ t.next = type /\ t.persist /\ ~t.dispatch
        /\ t.allowed \in BOOLEAN /\ t.persist \in BOOLEAN
    BY <2>1
  <2>3. type \notin ReadyStates /\ current \notin TerminalStates
    BY <1>1, <1>2 DEF SetupStates
  <2> QED BY <1>2, <2>2, <2>3
<1>3. CASE type \in Telemetry
  <2>1. t = [allowed |-> TRUE, next |-> current, persist |-> current # NoSetup,
             dispatch |-> FALSE]
    BY <1>3 DEF V1Transition, Transition
  <2>2. /\ t.allowed /\ t.persist \in BOOLEAN /\ ~t.dispatch /\ t.allowed \in BOOLEAN
    BY <2>1
  <2>3. type \notin Lifecycle /\ type \notin ReadyStates
    BY <1>3
  <2> QED BY <1>3, <2>2, <2>3
<1>4. CASE type \notin Telemetry /\ ~(current = NoSetup /\ type \in Endings)
  <2> DEFINE a == current \in Before(type)
  <2>1. t = [allowed |-> a, next |-> type, persist |-> a, dispatch |-> a /\ type \in ReadyStates]
    BY <1>4 DEF V1Transition, Transition
  <2>2. current = NoSetup /\ type \notin Lifecycle \ Endings => a
    BY <1>1, <1>4 DEF Before, EventTypes, SetupStates
  <2>3. current = NoSetup /\ type \in Lifecycle => ~a
    BY <1>1, <1>4 DEF Before, SetupStates
  <2>4. current \in TerminalStates => ~a
    BY <1>1, <1>4 DEF Before, EventTypes, SetupStates
  <2>5. a \in BOOLEAN
    OBVIOUS
  <2> HIDE DEF a
  <2>6. /\ t.allowed <=> a
        /\ t.allowed \in BOOLEAN /\ t.persist \in BOOLEAN /\ t.next = type
        /\ t.dispatch <=> (a /\ type \in ReadyStates)
    <3>1. /\ t.allowed = (current \in Before(type))
          /\ t.next = type
          /\ t.persist = (current \in Before(type))
          /\ t.dispatch = (current \in Before(type) /\ type \in ReadyStates)
      BY <2>1, SMT DEF a
    <3>2. t.allowed <=> a
      BY <3>1, Zenon DEF a
    <3>3. t.allowed \in BOOLEAN /\ t.persist \in BOOLEAN
      BY <3>1, SMT
    <3>4. t.dispatch <=> a /\ type \in ReadyStates
      BY <3>1, Zenon DEF a
    <3> QED BY <3>1, <3>2, <3>3, <3>4
  <2>7. t.allowed => (t.dispatch <=> type \in ReadyStates)
    BY <2>6
  <2> QED BY <2>2, <2>3, <2>4, <2>5, <2>6, <2>7
<1> QED BY <1>2, <1>3, <1>4

\* The state a V1 unit leads to, and what it dispatches.
LEMMA JudgementType ==
    ASSUME NEW e \in Events, NEW current \in Lifecycle \cup {NoSetup},
           NEW version \in Nat, NEW at \in Int,
           NEW d, d = Judgement(e, current, version, at)
    PROVE  /\ d.outcome \in {"ACCEPTED", "REJECTED"}
           /\ d.next \in Lifecycle \cup {NoSetup}
           /\ d.version \in Nat
           /\ d.next # NoSetup => d.outcome = "ACCEPTED"
           /\ (d.dispatch <=> d.outcome = "ACCEPTED" /\ EventType[e] \in ReadyStates)
<1> DEFINE type == EventType[e]
           t == V1Transition(current, type)
<1>1. type \in EventTypes
  BY EventsAssumption
<1>2. /\ type \in Lifecycle => t.next = type
      /\ t.allowed => (t.dispatch <=> type \in ReadyStates)
  BY <1>1, TransitionFacts
<1> HIDE DEF t
<1>3. \/ d = Rejected
      \/ /\ t.allowed
         /\ d = [outcome |-> "ACCEPTED",
                 next |-> IF t.persist /\ type \in Lifecycle THEN t.next ELSE NoSetup,
                 version |-> version + 1, dispatch |-> t.dispatch]
  BY DEF Judgement, t
<1>4. CASE d = Rejected
  BY <1>4 DEF Rejected, Duplicated
<1>5. CASE d # Rejected
  <2>1. /\ d.outcome = "ACCEPTED" /\ d.version = version + 1
        /\ d.next = IF t.persist /\ type \in Lifecycle THEN t.next ELSE NoSetup
        /\ d.dispatch = t.dispatch
    BY <1>3, <1>5
  <2>2. d.dispatch <=> type \in ReadyStates
    BY <1>2, <1>3, <1>5, <2>1
  <2> QED BY <1>2, <2>1, <2>2
<1> QED BY <1>4, <1>5

\* What a unit may decide, and from what: the four facts the properties use.
LEMMA DecisionFacts ==
    ASSUME TypeOK, NEW e \in Events, NEW d \in Decisions(e)
    PROVE  /\ d.outcome \in {"ACCEPTED", "REJECTED", "DUPLICATE"}
           /\ d.next \in Lifecycle \cup {NoSetup}
           /\ d.version \in Nat
           /\ d.next # NoSetup => d.outcome = "ACCEPTED"
           /\ (d.dispatch <=> d.outcome = "ACCEPTED" /\ EventType[e] \in ReadyStates)
           /\ d.outcome = "ACCEPTED" => ~ExactDuplicate(e) /\ ~SemanticDuplicate(e)
<1>1. CASE ExactDuplicate(e) \/ SemanticDuplicate(e)
  <2>1. d = Duplicated
    BY <1>1 DEF Decisions
  <2> QED BY <2>1 DEF Duplicated
<1>2. CASE ~(ExactDuplicate(e) \/ SemanticDuplicate(e)) /\ CurrentSetup(SetupOf[e]) = {}
  <2>1. d = Judgement(e, NoSetup, 0, OccurredAt[e])
    BY <1>2 DEF Decisions
  <2>2. OccurredAt[e] \in Int
    BY EventsAssumption
  <2> QED BY <1>2, <2>1, <2>2, JudgementType
<1>3. CASE ~(ExactDuplicate(e) \/ SemanticDuplicate(e)) /\ CurrentSetup(SetupOf[e]) # {}
  <2>1. PICK s \in CurrentSetup(SetupOf[e]) : d = Judgement(e, s.state, s.version, s.at)
    BY <1>3 DEF Decisions
  <2>2. s.state \in Lifecycle /\ s.version \in Nat /\ s.at \in Int
    BY DEF CurrentSetup, ConfirmedRows, TypeOK
  <2> QED BY <1>3, <2>1, <2>2, JudgementType
<1> QED BY <1>1, <1>2, <1>3

OutboxRows == [status : {"ABSENT", "PENDING", "PROCESSING", "DELIVERED", "FAILED", "DEAD_LETTER"},
               released : BOOLEAN, receipt : Nat, attempts : Nat, failures : Nat,
               by : Workers \cup {None}]
ReceiverRows == [pc : {"idle", "stored", "claimed", "committed", "confirmed"},
                 receipt : Nat \cup {None}]
Hands == [evidence : Evidence, attempt : Nat] \cup {None}

\* A step that keeps the reservations and the states keeps the types when what
\* it writes is typed and no receipt is dropped.
LEMMA KeepType ==
    ASSUME TypeOK, receipts' \in Seq(ReceiptRows), Len(receipts') >= Len(receipts),
           UNCHANGED <<exact, semantic, states>>,
           outbox' \in [Evidence -> OutboxRows],
           rc' \in [Receivers -> ReceiverRows],
           \A r \in Receivers : rc'[r].pc # "idle" => rc'[r].receipt \in 1..Len(receipts'),
           hand' \in [Workers -> Hands]
    PROVE  TypeOK'
<1>1. Len(receipts) \in Nat /\ Len(receipts') \in Nat /\ DOMAIN receipts' = 1..Len(receipts')
  BY ReceiptRowType, LenProperties
<1>2. states \subseteq [setup : Setups, receipt : 1..Len(receipts'),
                        state : Lifecycle, version : Nat, at : Int]
  BY <1>1 DEF TypeOK
<1>3. \A e \in Events : {exact[e], semantic[e]} \subseteq 0..Len(receipts')
  BY <1>1 DEF TypeOK
<1> QED BY <1>1, <1>2, <1>3 DEF TypeOK, ReceiptRows, OutboxRows, ReceiverRows, Hands

\* Moving or stopping a receiver keeps it with its receipt.
LEMMA MoveType ==
    ASSUME TypeOK, NEW r \in Receivers,
           \/ Stop(r)
           \/ ~At(r, "idle") /\ \E pc \in {"claimed", "committed", "confirmed"} : Move(r, pc)
    PROVE  /\ rc' \in [Receivers -> ReceiverRows]
           /\ \A q \in Receivers : rc'[q].pc # "idle" => rc'[q].receipt \in 1..Len(receipts)
           /\ \A q \in Receivers : q # r => rc'[q] = rc[q]
           /\ rc'[r].pc # "idle" => rc'[r].receipt = rc[r].receipt
<1>1. rc \in [Receivers -> ReceiverRows] /\ DOMAIN receipts = 1..Len(receipts)
      /\ \A q \in Receivers : rc[q].pc # "idle" => rc[q].receipt \in DOMAIN receipts
  BY ReceiptRowType DEF TypeOK, ReceiverRows
<1>2. CASE Stop(r)
  BY <1>1, <1>2 DEF Stop, IdleReceiver, ReceiverRows
<1>3. CASE ~At(r, "idle") /\ \E pc \in {"claimed", "committed", "confirmed"} : Move(r, pc)
  <2>1. PICK pc \in {"claimed", "committed", "confirmed"} : Move(r, pc)
    BY <1>3
  <2>2. rc' = [rc EXCEPT ![r] = [pc |-> pc, receipt |-> rc[r].receipt]]
    <3>1. rc[r] \in ReceiverRows
      BY <1>1
    <3>2. [rc[r] EXCEPT !.pc = pc] = [pc |-> pc, receipt |-> rc[r].receipt]
      BY <3>1 DEF ReceiverRows
    <3>3. rc' = [rc EXCEPT ![r] = [rc[r] EXCEPT !.pc = pc]]
      BY <2>1 DEF Move
    <3> QED BY <3>2, <3>3
  <2>3. rc[r].receipt \in 1..Len(receipts)
    BY <1>1, <1>3 DEF At
  <2> QED BY <1>1, <2>2, <2>3 DEF ReceiverRows
<1> QED BY <1>2, <1>3

\* A row that a consumer or the operator touches is still a row.
LEMMA AnsweredType ==
    ASSUME NEW row \in OutboxRows, NEW status \in {"DELIVERED", "FAILED", "DEAD_LETTER"},
           NEW failed \in {0, 1}, NEW new, new = Answered(row, status, failed)
    PROVE  /\ new \in OutboxRows
           /\ new.status = status /\ new.by = None
           /\ new.failures = row.failures + failed
           /\ new.attempts = row.attempts /\ new.receipt = row.receipt
           /\ new.released = row.released
<1>1. /\ row.released \in BOOLEAN /\ row.receipt \in Nat /\ row.attempts \in Nat
      /\ row.failures \in Nat /\ row.failures + failed \in Nat
  BY DEF OutboxRows
<1>2. new = [status |-> status, released |-> row.released, receipt |-> row.receipt,
             attempts |-> row.attempts, failures |-> row.failures + failed, by |-> None]
  BY DEF Answered, OutboxRows
<1>3. new \in OutboxRows
  BY <1>1, <1>2 DEF OutboxRows
<1> QED BY <1>2, <1>3

\* The answers of a consumer: the row it holds gets it, and no other changes.
LEMMA AnswerFacts ==
    ASSUME TypeOK, NEW w \in Workers, NEW row, Answer(w, row)
    PROVE  /\ hand[w] # None
           /\ hand[w].evidence \in Evidence /\ hand[w].attempt \in Nat
           /\ hand' = [hand EXCEPT ![w] = None]
           /\ hand' \in [Workers -> Hands]
           /\ outbox' = IF HoldsRow(w, hand[w].evidence)
                        THEN [outbox EXCEPT ![hand[w].evidence] = row] ELSE outbox
           /\ UNCHANGED <<receipts, exact, semantic, states, rc>>
<1>1. hand \in [Workers -> Hands]
  BY DEF TypeOK, Hands
<1>2. hand[w] # None
  BY DEF Answer
<1>3. hand[w] \in [evidence : Evidence, attempt : Nat]
  BY <1>1, <1>2 DEF Hands
<1>4. hand' = [hand EXCEPT ![w] = None]
  BY DEF Answer
<1>5. hand' \in [Workers -> Hands]
  BY <1>1, <1>4 DEF Hands
<1> QED BY <1>2, <1>3, <1>4, <1>5 DEF Answer

\* Whatever a consumer answers, a delivery, a failure or a dead letter, it
\* writes such a row: a failure at the limit is a dead letter.
LEMMA ConsumerAnswers ==
    ASSUME TypeOK, NEW w \in Workers, Deliver(w) \/ Fail(w)
    PROVE  \E status \in {"DELIVERED", "FAILED", "DEAD_LETTER"}, failed \in {0, 1} :
             /\ Answer(w, Answered(outbox[hand[w].evidence], status, failed))
             /\ status = "DELIVERED" => failed = 0
             /\ failed = 1 => status = IF AtLimit(hand[w].evidence)
                                       THEN "DEAD_LETTER" ELSE "FAILED"
             /\ failed = 0 => status = "DELIVERED"
BY DEF Deliver, Fail

\* The row of a dispatched readiness.
NewRow(i) == [NoRow EXCEPT !.status = "PENDING", !.receipt = i]

\* A new row is one, unclaimed and unreleased.
LEMMA NewRowType ==
    ASSUME NEW i \in Nat
    PROVE  /\ NewRow(i) \in OutboxRows
           /\ NewRow(i).status = "PENDING" /\ NewRow(i).receipt = i
           /\ ~NewRow(i).released /\ NewRow(i).attempts = 0 /\ NewRow(i).failures = 0
<1>1. NoRow \in OutboxRows /\ ~NoRow.released /\ NoRow.attempts = 0 /\ NoRow.failures = 0
  BY DEF NoRow, OutboxRows
<1> QED BY <1>1 DEF NewRow, OutboxRows

\* What the unit of receipt i for event e writes when it decides d.
CommitsAs(i, e, d) ==
    /\ i \in 1..Len(receipts) /\ e \in Events /\ ~Collides(e)
    /\ receipts' \in Seq(ReceiptRows)
    /\ Len(receipts') = Len(receipts)
    /\ \A k \in DOMAIN receipts :
         /\ receipts'[k].event = receipts[k].event
         /\ receipts'[k].recorded = receipts[k].recorded
         /\ k # i => receipts'[k] = receipts[k]
    /\ receipts'[i].status = "COMMITTED_UNCONFIRMED"
    /\ receipts'[i].outcome = d.outcome
    /\ d.dispatch => outbox[EvidenceOf[e]].status = "ABSENT"
    /\ states' = IF d.next = NoSetup THEN states
                 ELSE states \cup {[setup |-> SetupOf[e], receipt |-> i,
                        state |-> d.next, version |-> d.version, at |-> OccurredAt[e]]}
    /\ outbox' = IF d.dispatch THEN [outbox EXCEPT ![EvidenceOf[e]] = NewRow(i)] ELSE outbox
    /\ exact' = IF ExactDuplicate(e) THEN exact ELSE [exact EXCEPT ![e] = i]
    /\ semantic' = IF SemanticDuplicate(e) THEN semantic ELSE [semantic EXCEPT ![e] = i]
    /\ UNCHANGED hand

\* The step of a committing unit, with its decision made explicit.
LEMMA CommitFacts ==
    ASSUME TypeOK, NEW r \in Receivers, CommitUnit(r),
           NEW i, i = rc[r].receipt, NEW e, e = receipts[i].event
    PROVE  /\ At(r, "claimed") /\ Move(r, "committed")
           /\ \E d \in Decisions(e) : CommitsAs(i, e, d)
<1>1. i \in 1..Len(receipts) /\ receipts[i] \in ReceiptRows
      /\ receipts \in Seq(ReceiptRows) /\ DOMAIN receipts = 1..Len(receipts)
  BY ReceiptRowType DEF TypeOK, CommitUnit, At
<1>2. e \in Events
  BY <1>1 DEF ReceiptRows
<1>3. PICK d \in Decisions(e) :
        /\ d.dispatch => outbox[EvidenceOf[e]].status = "ABSENT"
        /\ states' = IF d.next = NoSetup THEN states
                     ELSE states \cup {[setup |-> SetupOf[e], receipt |-> i,
                            state |-> d.next, version |-> d.version, at |-> OccurredAt[e]]}
        /\ outbox' = IF d.dispatch
                     THEN [outbox EXCEPT ![EvidenceOf[e]] =
                            [NoRow EXCEPT !.status = "PENDING", !.receipt = i]]
                     ELSE outbox
        /\ receipts' = [receipts EXCEPT ![i].status = "COMMITTED_UNCONFIRMED",
                                        ![i].outcome = d.outcome]
  BY DEF CommitUnit
<1> DEFINE row == [receipts[i] EXCEPT !.status = "COMMITTED_UNCONFIRMED",
                                      !.outcome = d.outcome]
<1>4. receipts' = [receipts EXCEPT ![i] = row]
  BY <1>1, <1>3
<1>5. d.outcome \in Outcomes
  BY <1>2, DecisionFacts DEF Outcomes
<1>6. row \in ReceiptRows /\ row.event = e /\ row.recorded = receipts[i].recorded
      /\ row.status = "COMMITTED_UNCONFIRMED" /\ row.outcome = d.outcome
  BY <1>1, <1>5 DEF ReceiptRows, Statuses
<1> HIDE DEF row
<1>7. receipts' \in Seq(ReceiptRows) /\ Len(receipts') = Len(receipts)
      /\ \A k \in 1..Len(receipts) : receipts'[k] = IF k = i THEN row ELSE receipts[k]
  BY <1>1, <1>4, <1>6, ExceptSeq
<1>8. \A k \in DOMAIN receipts :
        /\ receipts'[k].event = receipts[k].event
        /\ receipts'[k].recorded = receipts[k].recorded
        /\ k # i => receipts'[k] = receipts[k]
  BY <1>1, <1>6, <1>7
<1>9. receipts'[i].status = "COMMITTED_UNCONFIRMED" /\ receipts'[i].outcome = d.outcome
  BY <1>1, <1>6, <1>7
<1>10. At(r, "claimed") /\ Move(r, "committed") /\ ~Collides(e) /\ UNCHANGED hand
       /\ exact' = (IF ExactDuplicate(e) THEN exact ELSE [exact EXCEPT ![e] = i])
       /\ semantic' = (IF SemanticDuplicate(e) THEN semantic ELSE [semantic EXCEPT ![e] = i])
  BY DEF CommitUnit
<1>11. CommitsAs(i, e, d)
  BY <1>1, <1>2, <1>3, <1>7, <1>8, <1>9, <1>10 DEF CommitsAs, NewRow
<1> QED BY <1>10, <1>11

\* The step of a confirmation: the receipt is confirmed and its row released.
LEMMA ConfirmFacts ==
    ASSUME TypeOK, NEW r \in Receivers, Confirm(r), NEW i, i = rc[r].receipt
    PROVE  /\ i \in 1..Len(receipts) /\ receipts[i].status = "COMMITTED_UNCONFIRMED"
           /\ receipts' \in Seq(ReceiptRows)
           /\ Len(receipts') = Len(receipts)
           /\ \A k \in DOMAIN receipts :
                /\ receipts'[k].event = receipts[k].event
                /\ receipts'[k].recorded = receipts[k].recorded
                /\ receipts'[k].outcome = receipts[k].outcome
                /\ receipts'[k].status = IF k = i THEN "CONFIRMED" ELSE receipts[k].status
           /\ outbox' \in [Evidence -> OutboxRows]
           /\ \A v \in Evidence :
                /\ outbox'[v].status = outbox[v].status
                /\ outbox'[v].receipt = outbox[v].receipt
                /\ outbox'[v].attempts = outbox[v].attempts
                /\ outbox'[v].failures = outbox[v].failures
                /\ outbox'[v].by = outbox[v].by
                /\ outbox'[v].released <=> outbox[v].released \/ outbox[v].receipt = i
           /\ At(r, "committed") /\ Move(r, "confirmed")
           /\ UNCHANGED <<exact, semantic, states, hand>>
<1>1. i \in DOMAIN receipts /\ receipts[i].status = "COMMITTED_UNCONFIRMED"
      /\ receipts \in Seq(ReceiptRows) /\ DOMAIN receipts = 1..Len(receipts)
  BY ReceiptRowType DEF TypeOK, Confirm, At, Confirmable
<1>2. receipts' = Marked(i, "CONFIRMED")
  BY <1>1 DEF Marked, Confirm
<1>3. /\ receipts' \in Seq(ReceiptRows)
      /\ Len(receipts') = Len(receipts)
      /\ \A k \in DOMAIN receipts :
           /\ receipts'[k].event = receipts[k].event
           /\ receipts'[k].recorded = receipts[k].recorded
           /\ receipts'[k].outcome = receipts[k].outcome
           /\ receipts'[k].status = IF k = i THEN "CONFIRMED" ELSE receipts[k].status
  <2>1. "CONFIRMED" \in Statuses
    BY DEF Statuses
  <2>2. /\ Marked(i, "CONFIRMED") \in Seq(ReceiptRows)
        /\ Len(Marked(i, "CONFIRMED")) = Len(receipts)
        /\ \A k \in DOMAIN receipts :
             /\ Marked(i, "CONFIRMED")[k].event = receipts[k].event
             /\ Marked(i, "CONFIRMED")[k].recorded = receipts[k].recorded
             /\ Marked(i, "CONFIRMED")[k].outcome = receipts[k].outcome
             /\ Marked(i, "CONFIRMED")[k].status =
                  IF k = i /\ receipts[i].status # "CONFIRMED"
                  THEN "CONFIRMED" ELSE receipts[k].status
    BY <1>1, <2>1, MarkedType
  <2> QED BY <1>1, <1>2, <2>2
<1>4. outbox \in [Evidence -> OutboxRows]
  BY DEF TypeOK, OutboxRows
<1>5. outbox' = [v \in Evidence |-> IF outbox[v].receipt = i
                                    THEN [outbox[v] EXCEPT !.released = TRUE] ELSE outbox[v]]
  BY DEF Confirm
<1>6. ASSUME NEW v \in Evidence
      PROVE  /\ outbox'[v] \in OutboxRows
             /\ outbox'[v].status = outbox[v].status
             /\ outbox'[v].receipt = outbox[v].receipt
             /\ outbox'[v].attempts = outbox[v].attempts
             /\ outbox'[v].failures = outbox[v].failures
             /\ outbox'[v].by = outbox[v].by
             /\ outbox'[v].released <=> outbox[v].released \/ outbox[v].receipt = i
  <2>1. outbox[v] \in OutboxRows
    BY <1>4
  <2>2. CASE outbox[v].receipt = i
    <3>1. outbox'[v] = [outbox[v] EXCEPT !.released = TRUE]
      BY <1>5, <2>2
    <3> QED BY <2>1, <2>2, <3>1 DEF OutboxRows
  <2>3. CASE outbox[v].receipt # i
    BY <1>5, <2>1, <2>3
  <2> QED BY <2>2, <2>3
<1>7. outbox' \in [Evidence -> OutboxRows]
  <2>1. DOMAIN outbox' = Evidence /\ outbox' = [v \in Evidence |-> outbox'[v]]
    BY <1>5
  <2> QED BY <1>6, <2>1
<1> QED BY <1>1, <1>3, <1>6, <1>7 DEF Confirm

\* A receiver that stops, whatever the reason, may write one status: on its own
\* receipt and never over CONFIRMED.
LEMMA FailureSteps ==
    ASSUME TypeOK, NEW r \in Receivers, NEW i, i = rc[r].receipt,
           \/ Refuse(r) \/ OpenFails(r) \/ UnitFails(r)
           \/ ConfirmFails(r) \/ Report(r) \/ CrashReceiver(r)
    PROVE  /\ i \in 1..Len(receipts) /\ ~At(r, "idle")
           /\ receipts' \in Seq(ReceiptRows)
           /\ Len(receipts') = Len(receipts)
           /\ \A k \in DOMAIN receipts :
                /\ receipts'[k].event = receipts[k].event
                /\ receipts'[k].recorded = receipts[k].recorded
                /\ receipts'[k].outcome = receipts[k].outcome
                /\ \/ receipts'[k].status = receipts[k].status
                   \/ /\ k = i /\ receipts[k].status # "CONFIRMED"
                      /\ receipts'[k].status \in
                            {"ABANDONED", "ROLLED_BACK", "COMMIT_UNKNOWN"}
           /\ UNCHANGED <<exact, semantic, states, outbox, hand>>
           /\ Stop(r)
<1>1. /\ i \in DOMAIN receipts /\ ~At(r, "idle")
      /\ receipts \in Seq(ReceiptRows) /\ DOMAIN receipts = 1..Len(receipts)
      /\ \A k \in DOMAIN receipts : receipts[k] \in ReceiptRows
  BY ReceiptRowType DEF TypeOK, Refuse, OpenFails, UnitFails, ConfirmFails,
     Report, CrashReceiver, At
<1>2. ASSUME NEW s \in {"ABANDONED", "ROLLED_BACK", "COMMIT_UNKNOWN"},
             receipts' \in {receipts, Marked(i, s)}
      PROVE  /\ receipts' \in Seq(ReceiptRows)
             /\ Len(receipts') = Len(receipts)
             /\ \A k \in DOMAIN receipts :
                  /\ receipts'[k].event = receipts[k].event
                  /\ receipts'[k].recorded = receipts[k].recorded
                  /\ receipts'[k].outcome = receipts[k].outcome
                  /\ \/ receipts'[k].status = receipts[k].status
                     \/ /\ k = i /\ receipts[k].status # "CONFIRMED"
                        /\ receipts'[k].status \in
                              {"ABANDONED", "ROLLED_BACK", "COMMIT_UNKNOWN"}
  <2>1. s \in Statuses
    BY DEF Statuses
  <2>2. /\ Marked(i, s) \in Seq(ReceiptRows)
        /\ Len(Marked(i, s)) = Len(receipts)
        /\ \A k \in DOMAIN receipts :
             /\ Marked(i, s)[k].event = receipts[k].event
             /\ Marked(i, s)[k].recorded = receipts[k].recorded
             /\ Marked(i, s)[k].outcome = receipts[k].outcome
             /\ Marked(i, s)[k].status =
                  IF k = i /\ receipts[i].status # "CONFIRMED" THEN s ELSE receipts[k].status
    BY <1>1, <2>1, MarkedType
  <2>3. CASE receipts' = receipts
    BY <1>1, <2>3
  <2>4. CASE receipts' = Marked(i, s)
    BY <2>2, <2>4
  <2> QED BY <1>2, <2>3, <2>4
<1>3. CASE Refuse(r) \/ CrashReceiver(r)
  BY <1>1, <1>3 DEF Refuse, CrashReceiver
<1>4. CASE OpenFails(r)
  BY <1>1, <1>2, <1>4 DEF OpenFails, MarkedOrNot
<1>5. CASE UnitFails(r)
  BY <1>1, <1>2, <1>5 DEF UnitFails, MarkedOrNot
<1>6. CASE ConfirmFails(r)
  BY <1>1, <1>2, <1>6 DEF ConfirmFails, MarkedOrNot
<1>7. CASE Report(r)
  BY <1>1, <1>2, <1>7 DEF Report, MarkedOrNot
<1> QED BY <1>3, <1>4, <1>5, <1>6, <1>7

\* A claim is written on the receipt of its receiver.
LEMMA BeginFacts ==
    ASSUME TypeOK, NEW r \in Receivers, NEW i, i = rc[r].receipt, Begin(r)
    PROVE  /\ i \in 1..Len(receipts) /\ At(r, "stored") /\ Move(r, "claimed")
           /\ receipts' \in Seq(ReceiptRows)
           /\ Len(receipts') = Len(receipts)
           /\ \A k \in DOMAIN receipts :
                /\ receipts'[k].event = receipts[k].event
                /\ receipts'[k].recorded = receipts[k].recorded
                /\ receipts'[k].outcome = receipts[k].outcome
                /\ receipts'[k].status = IF k = i THEN "CLAIMED" ELSE receipts[k].status
           /\ UNCHANGED <<exact, semantic, states, outbox, hand>>
<1>1. /\ i \in DOMAIN receipts /\ At(r, "stored") /\ Move(r, "claimed")
      /\ receipts \in Seq(ReceiptRows) /\ DOMAIN receipts = 1..Len(receipts)
      /\ receipts[i] \in ReceiptRows
      /\ UNCHANGED <<exact, semantic, states, outbox, hand>>
  BY ReceiptRowType DEF TypeOK, Begin, At
<1> DEFINE row == [receipts[i] EXCEPT !.status = "CLAIMED"]
<1>2. receipts' = [receipts EXCEPT ![i] = row]
  BY DEF Begin
<1>3. row \in ReceiptRows /\ row.event = receipts[i].event /\ row.status = "CLAIMED"
      /\ row.recorded = receipts[i].recorded /\ row.outcome = receipts[i].outcome
  BY <1>1 DEF ReceiptRows, Statuses
<1> HIDE DEF row
<1>4. receipts' \in Seq(ReceiptRows) /\ Len(receipts') = Len(receipts)
      /\ \A k \in 1..Len(receipts) : receipts'[k] = IF k = i THEN row ELSE receipts[k]
  BY <1>1, <1>2, <1>3, ExceptSeq
<1> QED BY <1>1, <1>3, <1>4

\* The claim of a consumer.
LEMMA ClaimFacts ==
    ASSUME TypeOK, NEW w \in Workers, NEW v \in Evidence, ClaimOutbox(w, v)
    PROVE  /\ hand[w] = None /\ Claimable(v)
           /\ outbox' \in [Evidence -> OutboxRows]
           /\ \A u \in Evidence : u # v => outbox'[u] = outbox[u]
           /\ outbox'[v].status = "PROCESSING" /\ outbox'[v].by = w
           /\ outbox'[v].attempts = outbox[v].attempts + 1
           /\ outbox'[v].failures = outbox[v].failures
           /\ outbox'[v].receipt = outbox[v].receipt
           /\ outbox'[v].released = outbox[v].released
           /\ hand' = [hand EXCEPT ![w] =
                         [evidence |-> v, attempt |-> outbox[v].attempts + 1]]
           /\ hand' \in [Workers -> Hands]
           /\ UNCHANGED <<receipts, exact, semantic, states, rc>>
<1>1. outbox \in [Evidence -> OutboxRows] /\ hand \in [Workers -> Hands]
      /\ outbox[v] \in OutboxRows
  BY DEF TypeOK, OutboxRows, Hands
<1>2. outbox[v].released \in BOOLEAN /\ outbox[v].receipt \in Nat
      /\ outbox[v].attempts + 1 \in Nat /\ outbox[v].failures \in Nat
  BY <1>1 DEF OutboxRows
<1> DEFINE row == [outbox[v] EXCEPT !.status = "PROCESSING", !.attempts = @ + 1, !.by = w]
<1>3. row \in OutboxRows
  BY <1>1, <1>2 DEF OutboxRows
<1>6. row.status = "PROCESSING" /\ row.by = w /\ row.attempts = outbox[v].attempts + 1
      /\ row.failures = outbox[v].failures /\ row.receipt = outbox[v].receipt
      /\ row.released = outbox[v].released
  BY <1>1 DEF OutboxRows
<1>7. outbox' = [outbox EXCEPT ![v] = row]
  BY DEF ClaimOutbox
<1> HIDE DEF row
<1>8. outbox' \in [Evidence -> OutboxRows] /\ outbox'[v] = row
      /\ \A u \in Evidence : u # v => outbox'[u] = outbox[u]
  BY <1>1, <1>3, <1>7
<1>9. hand' = [hand EXCEPT ![w] = [evidence |-> v, attempt |-> outbox[v].attempts + 1]]
      /\ hand[w] = None /\ Claimable(v)
      /\ UNCHANGED <<receipts, exact, semantic, states, rc>>
  BY DEF ClaimOutbox
<1>10. hand' \in [Workers -> Hands]
  BY <1>1, <1>2, <1>9 DEF Hands
<1> QED BY <1>6, <1>8, <1>9, <1>10

\* An answer reaches the row when its consumer still holds it, and changes no
\* other; the row keeps its receipt, its attempts and its release.
LEMMA AnswerSteps ==
    ASSUME TypeOK, NEW w \in Workers, Deliver(w) \/ Fail(w),
           NEW v, v = hand[w].evidence
    PROVE  /\ hand[w] # None /\ v \in Evidence /\ hand[w].attempt \in Nat
           /\ hand' = [hand EXCEPT ![w] = None]
           /\ hand' \in [Workers -> Hands]
           /\ outbox' \in [Evidence -> OutboxRows]
           /\ \A u \in Evidence :
                \/ outbox'[u] = outbox[u]
                \/ /\ u = v /\ HoldsRow(w, v)
                   /\ outbox'[u].status \in {"DELIVERED", "FAILED", "DEAD_LETTER"}
                   /\ outbox'[u].receipt = outbox[u].receipt
                   /\ outbox'[u].attempts = outbox[u].attempts
                   /\ outbox'[u].released = outbox[u].released
                   /\ \/ outbox'[u].failures = outbox[u].failures
                      \/ /\ outbox'[u].failures = outbox[u].failures + 1
                         /\ AtLimit(u) /\ outbox'[u].status = "DEAD_LETTER"
                      \/ /\ outbox'[u].failures = outbox[u].failures + 1
                         /\ ~AtLimit(u) /\ outbox'[u].status = "FAILED"
           /\ UNCHANGED <<receipts, exact, semantic, states, rc>>
<1>1. PICK status \in {"DELIVERED", "FAILED", "DEAD_LETTER"}, failed \in {0, 1} :
        /\ Answer(w, Answered(outbox[v], status, failed))
        /\ failed = 1 => status = IF AtLimit(v) THEN "DEAD_LETTER" ELSE "FAILED"
  BY ConsumerAnswers
<1> DEFINE row == Answered(outbox[v], status, failed)
<1>2. /\ hand[w] # None /\ v \in Evidence /\ hand[w].attempt \in Nat
      /\ hand' = [hand EXCEPT ![w] = None]
      /\ hand' \in [Workers -> Hands]
      /\ outbox' = IF HoldsRow(w, v) THEN [outbox EXCEPT ![v] = row] ELSE outbox
      /\ UNCHANGED <<receipts, exact, semantic, states, rc>>
  BY <1>1, AnswerFacts
<1>3. outbox \in [Evidence -> OutboxRows]
  BY DEF TypeOK, OutboxRows
<1>4. outbox[v] \in OutboxRows /\ outbox[v].failures \in Nat
  BY <1>2, <1>3 DEF OutboxRows
<1>5. /\ row \in OutboxRows
      /\ row.status = status /\ row.failures = outbox[v].failures + failed
      /\ row.attempts = outbox[v].attempts /\ row.receipt = outbox[v].receipt
      /\ row.released = outbox[v].released
  BY <1>4, AnsweredType
<1> HIDE DEF row
<1>6. outbox' \in [Evidence -> OutboxRows]
  BY <1>2, <1>3, <1>5
<1>7. \A u \in Evidence : outbox'[u] = outbox[u] \/ (u = v /\ HoldsRow(w, v) /\ outbox'[u] = row)
  BY <1>2, <1>3
<1>8. \/ row.failures = outbox[v].failures
      \/ row.failures = outbox[v].failures + 1 /\ AtLimit(v) /\ row.status = "DEAD_LETTER"
      \/ row.failures = outbox[v].failures + 1 /\ ~AtLimit(v) /\ row.status = "FAILED"
  BY <1>1, <1>4, <1>5
<1> QED BY <1>2, <1>5, <1>6, <1>7, <1>8

\* The operator recovers claims and makes failed rows due: a row keeps all but
\* its status and its holder, and only one that is claimed or failed moves.
LEMMA OutboxOperator ==
    ASSUME TypeOK, RecoverOutbox \/ \E v \in Evidence : RetryOutbox(v)
    PROVE  /\ outbox' \in [Evidence -> OutboxRows]
           /\ \A u \in Evidence :
                \/ outbox'[u] = outbox[u]
                \/ /\ \/ outbox[u].status = "PROCESSING" /\ outbox'[u].status = "FAILED"
                      \/ outbox[u].status = "FAILED" /\ outbox'[u].status = "PENDING"
                   /\ outbox'[u].receipt = outbox[u].receipt
                   /\ outbox'[u].attempts = outbox[u].attempts
                   /\ outbox'[u].failures = outbox[u].failures
                   /\ outbox'[u].released = outbox[u].released
           /\ UNCHANGED <<receipts, exact, semantic, states, rc, hand>>
<1>1. outbox \in [Evidence -> OutboxRows]
  BY DEF TypeOK, OutboxRows
<1>2. CASE RecoverOutbox
  <2>1. PICK stale \in SUBSET {v \in Evidence : outbox[v].status = "PROCESSING"} :
          outbox' = [v \in Evidence |->
             IF v \in stale THEN Answered(outbox[v], "FAILED", 0) ELSE outbox[v]]
    BY <1>2 DEF RecoverOutbox
  <2>2. ASSUME NEW u \in Evidence
        PROVE  LET row == Answered(outbox[u], "FAILED", 0)
               IN /\ row \in OutboxRows
                  /\ row.status = "FAILED" /\ row.failures = outbox[u].failures
                  /\ row.attempts = outbox[u].attempts /\ row.receipt = outbox[u].receipt
                  /\ row.released = outbox[u].released
    <3> DEFINE row == Answered(outbox[u], "FAILED", 0)
    <3>1. outbox[u] \in OutboxRows /\ outbox[u].failures \in Nat
      BY <1>1 DEF OutboxRows
    <3>2. /\ row \in OutboxRows
          /\ row.status = "FAILED" /\ row.failures = outbox[u].failures + 0
          /\ row.attempts = outbox[u].attempts /\ row.receipt = outbox[u].receipt
          /\ row.released = outbox[u].released
      BY <3>1, AnsweredType
    <3> HIDE DEF row
    <3>3. row.failures = outbox[u].failures
      BY <3>1, <3>2
    <3> QED BY <3>2, <3>3 DEF row
  <2>3. \A u \in Evidence :
          \/ outbox'[u] = outbox[u]
          \/ outbox[u].status = "PROCESSING" /\ outbox'[u] = Answered(outbox[u], "FAILED", 0)
    BY <2>1
  <2>4. outbox' \in [Evidence -> OutboxRows]
    BY <1>1, <2>1, <2>2
  <2> QED BY <1>2, <2>2, <2>3, <2>4 DEF RecoverOutbox
<1>3. CASE \E v \in Evidence : RetryOutbox(v)
  <2>1. PICK v \in Evidence : RetryOutbox(v)
    BY <1>3
  <2> DEFINE row == [outbox[v] EXCEPT !.status = "PENDING"]
  <2>2. outbox[v] \in OutboxRows
    BY <1>1
  <2>3. /\ row \in OutboxRows /\ row.status = "PENDING"
        /\ row.failures = outbox[v].failures /\ row.attempts = outbox[v].attempts
        /\ row.receipt = outbox[v].receipt /\ row.released = outbox[v].released
    BY <2>2 DEF OutboxRows
  <2>4. outbox' = [outbox EXCEPT ![v] = row] /\ outbox[v].status = "FAILED"
        /\ UNCHANGED <<receipts, exact, semantic, states, rc, hand>>
    BY <2>1 DEF RetryOutbox
  <2> HIDE DEF row
  <2>5. outbox' \in [Evidence -> OutboxRows]
        /\ \A u \in Evidence : outbox'[u] = IF u = v THEN row ELSE outbox[u]
    BY <1>1, <2>3, <2>4
  <2> QED BY <2>3, <2>4, <2>5
<1> QED BY <1>2, <1>3

\* A committing unit keeps the types.
LEMMA CommitType ==
    ASSUME TypeOK, NEW r \in Receivers, CommitUnit(r)
    PROVE  TypeOK'
<1>0. PICK i, e : i = rc[r].receipt /\ e = receipts[i].event
  OBVIOUS
<1>1. /\ At(r, "claimed") /\ Move(r, "committed")
      /\ \E d \in Decisions(e) : CommitsAs(i, e, d)
  BY <1>0, CommitFacts
<1> PICK d \in Decisions(e) : CommitsAs(i, e, d)
  BY <1>1
<1>8. /\ i \in 1..Len(receipts) /\ e \in Events
      /\ receipts' \in Seq(ReceiptRows) /\ Len(receipts') = Len(receipts)
  BY DEF CommitsAs
<1>2. Len(receipts) \in Nat /\ DOMAIN receipts' = 1..Len(receipts)
  BY <1>8, ReceiptRowType, LenProperties
<1>3. /\ rc' \in [Receivers -> ReceiverRows]
      /\ \A q \in Receivers : rc'[q].pc # "idle" => rc'[q].receipt \in 1..Len(receipts)
  BY <1>1, MoveType DEF At
<1>4. outbox' \in [Evidence -> OutboxRows]
  <2>1. outbox \in [Evidence -> OutboxRows]
    BY DEF TypeOK, OutboxRows
  <2>2. NewRow(i) \in OutboxRows
    BY <1>2, <1>8, NewRowType
  <2> QED BY <2>1, <2>2 DEF CommitsAs
<1>5. /\ exact' \in [Events -> Nat] /\ semantic' \in [Events -> Nat]
      /\ \A f \in Events : exact'[f] \in 0..Len(receipts) /\ semantic'[f] \in 0..Len(receipts)
  <2>1. /\ exact \in [Events -> Nat] /\ semantic \in [Events -> Nat]
        /\ \A f \in Events : exact[f] \in 0..Len(receipts) /\ semantic[f] \in 0..Len(receipts)
    BY DEF TypeOK
  <2>2. i \in Nat /\ i \in 0..Len(receipts)
    BY <1>2, <1>8
  <2> QED BY <2>1, <2>2 DEF CommitsAs
<1>6. states' \subseteq [setup : Setups, receipt : 1..Len(receipts),
                         state : Lifecycle, version : Nat, at : Int]
  <2>1. states \subseteq [setup : Setups, receipt : 1..Len(receipts),
                          state : Lifecycle, version : Nat, at : Int]
    BY DEF TypeOK
  <2>2. CASE d.next # NoSetup
    <3>1. d.next \in Lifecycle /\ d.version \in Nat
      BY <1>8, <2>2, DecisionFacts
    <3>2. SetupOf[e] \in Setups /\ OccurredAt[e] \in Int
      BY <1>8, EventsAssumption
    <3> QED BY <1>8, <2>1, <3>1, <3>2 DEF CommitsAs
  <2> QED BY <2>1, <2>2 DEF CommitsAs
<1>7. hand' \in [Workers -> Hands]
  BY DEF CommitsAs, TypeOK, Hands
<1> QED
  BY <1>2, <1>3, <1>4, <1>5, <1>6, <1>7, <1>8
  DEF TypeOK, ReceiptRows, OutboxRows, ReceiverRows, Hands

\* Every step keeps the types.
LEMMA TypeStep ==
    ASSUME TypeOK, [Next]_vars
    PROVE  TypeOK'
<1>1. /\ receipts \in Seq(ReceiptRows) /\ Len(receipts) \in Nat
      /\ outbox \in [Evidence -> OutboxRows] /\ hand \in [Workers -> Hands]
      /\ rc \in [Receivers -> ReceiverRows]
      /\ \A r \in Receivers : rc[r].pc # "idle" => rc[r].receipt \in 1..Len(receipts)
      /\ Len(receipts) >= Len(receipts)
  <2>1. /\ receipts \in Seq(ReceiptRows) /\ Len(receipts) \in Nat
        /\ DOMAIN receipts = 1..Len(receipts)
    BY ReceiptRowType
  <2>2. outbox \in [Evidence -> OutboxRows]
    BY DEF TypeOK, OutboxRows
  <2>3. hand \in [Workers -> Hands]
    BY DEF TypeOK, Hands
  <2>4. rc \in [Receivers -> ReceiverRows]
        /\ \A r \in Receivers : rc[r].pc # "idle" => rc[r].receipt \in DOMAIN receipts
    BY DEF TypeOK, ReceiverRows
  <2> QED BY <2>1, <2>2, <2>3, <2>4
<1>2. ASSUME NEW r \in Receivers, Receive(r) \/ Replay(r)
      PROVE  TypeOK'
  <2>1. PICK e \in Events, recorded \in Nat : Store(r, e, recorded)
    BY <1>2, DeliveryStores
  <2>2. receipts' \in Seq(ReceiptRows) /\ Len(receipts') = Len(receipts) + 1
    BY <1>1, <2>1, StoreType
  <2>3. Len(receipts) + 1 \in 1..Len(receipts') /\ Len(receipts') >= Len(receipts)
        /\ 1..Len(receipts) \subseteq 1..Len(receipts') /\ Len(receipts) + 1 \in Nat
    BY <1>1, <2>2
  <2>4. rc' = [rc EXCEPT ![r] = [pc |-> "stored", receipt |-> Len(receipts) + 1]]
        /\ UNCHANGED <<exact, semantic, states, outbox, hand>>
    BY <2>1 DEF Store
  <2>5. rc' \in [Receivers -> ReceiverRows]
        /\ \A q \in Receivers : rc'[q].pc # "idle" => rc'[q].receipt \in 1..Len(receipts')
    BY <1>1, <2>3, <2>4 DEF ReceiverRows
  <2> QED BY <1>1, <2>2, <2>3, <2>4, <2>5, KeepType
<1>3. ASSUME NEW r \in Receivers, Begin(r)
      PROVE  TypeOK'
  <2>1. /\ receipts' \in Seq(ReceiptRows) /\ Len(receipts') = Len(receipts)
        /\ At(r, "stored") /\ Move(r, "claimed")
        /\ UNCHANGED <<exact, semantic, states, outbox, hand>>
    BY <1>3, BeginFacts
  <2>2. rc' \in [Receivers -> ReceiverRows]
        /\ \A q \in Receivers : rc'[q].pc # "idle" => rc'[q].receipt \in 1..Len(receipts)
    BY <2>1, MoveType DEF At
  <2> QED BY <1>1, <2>1, <2>2, KeepType
<1>4. ASSUME NEW r \in Receivers, Confirm(r)
      PROVE  TypeOK'
  <2>1. /\ receipts' \in Seq(ReceiptRows) /\ Len(receipts') = Len(receipts)
        /\ At(r, "committed") /\ Move(r, "confirmed")
        /\ outbox' \in [Evidence -> OutboxRows]
        /\ UNCHANGED <<exact, semantic, states, hand>>
    BY <1>4, ConfirmFacts
  <2>2. rc' \in [Receivers -> ReceiverRows]
        /\ \A q \in Receivers : rc'[q].pc # "idle" => rc'[q].receipt \in 1..Len(receipts)
    BY <2>1, MoveType DEF At
  <2> QED BY <1>1, <2>1, <2>2, KeepType
<1>5. ASSUME NEW r \in Receivers,
             \/ Refuse(r) \/ OpenFails(r) \/ UnitFails(r)
             \/ ConfirmFails(r) \/ Report(r) \/ CrashReceiver(r)
      PROVE  TypeOK'
  <2>1. /\ receipts' \in Seq(ReceiptRows) /\ Len(receipts') = Len(receipts)
        /\ Stop(r)
        /\ UNCHANGED <<exact, semantic, states, outbox, hand>>
    BY <1>5, FailureSteps
  <2>2. rc' \in [Receivers -> ReceiverRows]
        /\ \A q \in Receivers : rc'[q].pc # "idle" => rc'[q].receipt \in 1..Len(receipts)
    BY <2>1, MoveType
  <2> QED BY <1>1, <2>1, <2>2, KeepType
<1>6. ASSUME NEW w \in Workers, NEW v \in Evidence, ClaimOutbox(w, v)
      PROVE  TypeOK'
  <2>1. /\ outbox' \in [Evidence -> OutboxRows] /\ hand' \in [Workers -> Hands]
        /\ UNCHANGED <<receipts, exact, semantic, states, rc>>
    BY <1>6, ClaimFacts
  <2> QED BY <1>1, <2>1, KeepType
<1>7. ASSUME NEW w \in Workers, Deliver(w) \/ Fail(w)
      PROVE  TypeOK'
  <2>1. /\ outbox' \in [Evidence -> OutboxRows] /\ hand' \in [Workers -> Hands]
        /\ UNCHANGED <<receipts, exact, semantic, states, rc>>
    BY <1>7, AnswerSteps
  <2> QED BY <1>1, <2>1, KeepType
<1>8. ASSUME NEW w \in Workers, CrashWorker(w)
      PROVE  TypeOK'
  <2>1. hand' = [hand EXCEPT ![w] = None]
        /\ UNCHANGED <<receipts, exact, semantic, states, outbox, rc>>
    BY <1>8 DEF CrashWorker
  <2>2. hand' \in [Workers -> Hands]
    BY <1>1, <2>1 DEF Hands
  <2> QED BY <1>1, <2>1, <2>2, KeepType
<1>9. ASSUME RecoverReceipts
      PROVE  TypeOK'
  <2>1. /\ receipts' \in Seq(ReceiptRows) /\ Len(receipts') = Len(receipts)
        /\ UNCHANGED <<exact, semantic, states, outbox, rc, hand>>
    BY <1>1, <1>9, RecoverType DEF RecoverReceipts
  <2> QED BY <1>1, <2>1, KeepType
<1>10. ASSUME RecoverOutbox \/ \E v \in Evidence : RetryOutbox(v)
       PROVE  TypeOK'
  <2>1. /\ outbox' \in [Evidence -> OutboxRows]
        /\ UNCHANGED <<receipts, exact, semantic, states, rc, hand>>
    BY <1>10, OutboxOperator
  <2> QED BY <1>1, <2>1, KeepType
<1>11. ASSUME UNCHANGED vars
       PROVE  TypeOK'
  BY <1>1, <1>11, KeepType DEF vars
<1> QED
  BY <1>2, <1>3, <1>4, <1>5, <1>6, <1>7, <1>8, <1>9, <1>10, <1>11, CommitType
  DEF Next, Receiver, Worker, Operator

\* Initially there is nothing.
LEMMA TypeInit == Init => TypeOK
<1> SUFFICES ASSUME Init PROVE TypeOK
  OBVIOUS
<1>1. receipts \in Seq(ReceiptRows) /\ Len(receipts) = 0 /\ DOMAIN receipts = {}
  BY EmptySeq DEF Init
<1>2. NoRow \in OutboxRows
  BY DEF NoRow, OutboxRows
<1>3. IdleReceiver \in ReceiverRows /\ IdleReceiver.pc = "idle"
  BY DEF IdleReceiver, ReceiverRows
<1>4. outbox \in [Evidence -> OutboxRows] /\ hand \in [Workers -> Hands]
      /\ rc \in [Receivers -> ReceiverRows]
      /\ \A r \in Receivers : rc[r].pc = "idle"
  BY <1>2, <1>3 DEF Init, Hands
<1>5. /\ exact \in [Events -> Nat] /\ semantic \in [Events -> Nat]
      /\ \A e \in Events : {exact[e], semantic[e]} \subseteq 0..Len(receipts)
      /\ states = {}
  BY <1>1 DEF Init
<1> QED BY <1>1, <1>4, <1>5 DEF TypeOK, ReceiptRows, OutboxRows, ReceiverRows, Hands

\* Receipts, dedupe rows, states, outbox rows, receivers and hands keep their
\* types; rows refer to receipts that exist.
THEOREM IngestTypes == Spec => []TypeOK
<1>1. TypeOK /\ [Next]_vars => TypeOK'
  BY TypeStep
<1> QED BY TypeInit, <1>1, PTL DEF Spec

----------------------------------------------------------------------------
(* Units *)

Live == {"COMMITTED_UNCONFIRMED", "CONFIRMED"}

\* A receipt that no unit has decided is not live, and a receiver that has not
\* committed holds such a receipt, of its own.
PhaseInv ==
    /\ \A r \in Receivers : At(r, "stored") => receipts[rc[r].receipt].status = "NONE"
    /\ \A r \in Receivers : At(r, "stored") \/ At(r, "claimed") =>
                              receipts[rc[r].receipt].outcome = "NONE"
    /\ \A q, r \in Receivers : ~At(q, "idle") /\ ~At(r, "idle")
                                 /\ rc[q].receipt = rc[r].receipt => q = r
    /\ \A k \in DOMAIN receipts : receipts[k].outcome = "NONE" =>
                                    receipts[k].status \notin Live

\* The phases survive a step in which one receiver moves and only its own
\* receipt is decided or given another status than ABANDONED.
LEMMA PhaseKept ==
    ASSUME TypeOK, PhaseInv, NEW r \in Receivers, NEW i, i = rc[r].receipt,
           ~At(r, "idle"),
           DOMAIN receipts' = DOMAIN receipts,
           \A k \in DOMAIN receipts : k # i =>
              receipts'[k].status = receipts[k].status
              /\ receipts'[k].outcome = receipts[k].outcome,
           \A q \in Receivers : q # r => rc'[q] = rc[q],
           rc'[r].pc # "idle" => rc'[r].receipt = i,
           rc'[r].pc = "stored" => receipts'[i].status = "NONE",
           rc'[r].pc \in {"stored", "claimed"} => receipts'[i].outcome = "NONE",
           receipts'[i].outcome = "NONE" => receipts'[i].status \notin Live
    PROVE  PhaseInv'
<1>1. \A q \in Receivers : rc[q].pc # "idle" => rc[q].receipt \in DOMAIN receipts
  BY DEF TypeOK
<1>2. \A q \in Receivers : q # r /\ rc[q].pc # "idle" => rc[q].receipt # i
  BY DEF PhaseInv, At
<1>3. \A q \in Receivers : At(q, "stored")' => receipts'[rc'[q].receipt].status = "NONE"
  BY <1>1, <1>2 DEF PhaseInv, At
<1>4. \A q \in Receivers : At(q, "stored")' \/ At(q, "claimed")' =>
                             receipts'[rc'[q].receipt].outcome = "NONE"
  BY <1>1, <1>2 DEF PhaseInv, At
<1>5. \A p, q \in Receivers : ~At(p, "idle")' /\ ~At(q, "idle")'
                                /\ rc'[p].receipt = rc'[q].receipt => p = q
  BY <1>2 DEF PhaseInv, At
<1>6. \A k \in DOMAIN receipts' : receipts'[k].outcome = "NONE" =>
                                    receipts'[k].status \notin Live
  BY DEF PhaseInv
<1> QED BY <1>3, <1>4, <1>5, <1>6 DEF PhaseInv, At

\* Every step keeps the phases.
LEMMA PhaseStep ==
    ASSUME TypeOK, PhaseInv, [Next]_vars
    PROVE  PhaseInv'
<1>1. /\ receipts \in Seq(ReceiptRows) /\ Len(receipts) \in Nat
      /\ DOMAIN receipts = 1..Len(receipts)
      /\ \A r \in Receivers : rc[r].pc # "idle" => rc[r].receipt \in DOMAIN receipts
      /\ rc \in [Receivers -> ReceiverRows]
  BY ReceiptRowType DEF TypeOK, ReceiverRows
<1>2. ASSUME NEW r \in Receivers, Receive(r) \/ Replay(r)
      PROVE  PhaseInv'
  <2>1. PICK e \in Events, recorded \in Nat : Store(r, e, recorded)
    BY <1>2, DeliveryStores
  <2> DEFINE n == Len(receipts) + 1
  <2>2. /\ receipts' \in Seq(ReceiptRows) /\ Len(receipts') = n
        /\ \A k \in DOMAIN receipts : receipts'[k] = receipts[k]
        /\ receipts'[n].status = "NONE" /\ receipts'[n].outcome = "NONE"
    <3>1. /\ receipts' \in Seq(ReceiptRows) /\ Len(receipts') = n
          /\ \A k \in DOMAIN receipts : receipts'[k] = receipts[k]
          /\ receipts'[n] = [event |-> e, recorded |-> recorded,
                             status |-> "NONE", outcome |-> "NONE"]
      BY <1>1, <2>1, StoreType
    <3> HIDE DEF n
    <3> QED BY <3>1
  <2>3. DOMAIN receipts' = 1..n /\ n \notin DOMAIN receipts /\ DOMAIN receipts \subseteq 1..n
        /\ \A k \in 1..n : k \in DOMAIN receipts \/ k = n
    BY <1>1, <2>2, LenProperties
  <2>4. rc' = [rc EXCEPT ![r] = [pc |-> "stored", receipt |-> n]]
    BY <2>1 DEF Store
  <2> HIDE DEF n
  <2>5. rc'[r].pc = "stored" /\ rc'[r].receipt = n
        /\ \A q \in Receivers : q # r => rc'[q] = rc[q]
    BY <1>1, <2>4
  <2>6. \A q \in Receivers : q # r /\ rc[q].pc # "idle" => rc[q].receipt # n
    BY <1>1, <2>3
  <2>7. \A q \in Receivers : At(q, "stored")' => receipts'[rc'[q].receipt].status = "NONE"
    BY <1>1, <2>2, <2>5 DEF PhaseInv, At
  <2>8. \A q \in Receivers : At(q, "stored")' \/ At(q, "claimed")' =>
                               receipts'[rc'[q].receipt].outcome = "NONE"
    BY <1>1, <2>2, <2>5 DEF PhaseInv, At
  <2>9. \A p, q \in Receivers : ~At(p, "idle")' /\ ~At(q, "idle")'
                                  /\ rc'[p].receipt = rc'[q].receipt => p = q
    BY <2>5, <2>6 DEF PhaseInv, At
  <2>10. \A k \in DOMAIN receipts' : receipts'[k].outcome = "NONE" =>
                                       receipts'[k].status \notin Live
    BY <2>2, <2>3 DEF PhaseInv, Live
  <2> QED BY <2>7, <2>8, <2>9, <2>10 DEF PhaseInv, At
<1>3. ASSUME NEW r \in Receivers, Begin(r)
      PROVE  PhaseInv'
  <2>1. PICK i : i = rc[r].receipt
    OBVIOUS
  <2>2. /\ i \in DOMAIN receipts /\ At(r, "stored") /\ Move(r, "claimed")
        /\ receipts' \in Seq(ReceiptRows)
        /\ Len(receipts') = Len(receipts)
        /\ \A k \in DOMAIN receipts :
             /\ receipts'[k].outcome = receipts[k].outcome
             /\ receipts'[k].status = IF k = i THEN "CLAIMED" ELSE receipts[k].status
    BY <1>1, <1>3, <2>1, BeginFacts
  <2>3. DOMAIN receipts' = DOMAIN receipts
    BY <1>1, <2>2, LenProperties
  <2>4. rc'[r].pc = "claimed" /\ rc'[r].receipt = i
        /\ \A q \in Receivers : q # r => rc'[q] = rc[q]
    BY <1>1, <2>1, <2>2 DEF Move, ReceiverRows
  <2>5. receipts'[i].outcome = "NONE" /\ receipts'[i].status \notin Live
    BY <2>1, <2>2 DEF PhaseInv, Live
  <2>6. ~At(r, "idle")
    BY <2>2 DEF At
  <2> QED BY <2>1, <2>2, <2>3, <2>4, <2>5, <2>6, PhaseKept
<1>4. ASSUME NEW r \in Receivers, Confirm(r)
      PROVE  PhaseInv'
  <2>1. PICK i : i = rc[r].receipt
    OBVIOUS
  <2>2. /\ i \in DOMAIN receipts /\ At(r, "committed") /\ Move(r, "confirmed")
        /\ receipts[i].status = "COMMITTED_UNCONFIRMED"
        /\ receipts' \in Seq(ReceiptRows)
        /\ Len(receipts') = Len(receipts)
        /\ \A k \in DOMAIN receipts :
             /\ receipts'[k].outcome = receipts[k].outcome
             /\ receipts'[k].status = IF k = i THEN "CONFIRMED" ELSE receipts[k].status
    BY <1>1, <1>4, <2>1, ConfirmFacts
  <2>3. DOMAIN receipts' = DOMAIN receipts
    BY <1>1, <2>2, LenProperties
  <2>4. rc'[r].pc = "confirmed" /\ rc'[r].receipt = i
        /\ \A q \in Receivers : q # r => rc'[q] = rc[q]
    BY <1>1, <2>1, <2>2 DEF Move, ReceiverRows
  <2>5. receipts'[i].outcome # "NONE"
    BY <2>2 DEF PhaseInv, Live
  <2>6. ~At(r, "idle")
    BY <2>2 DEF At
  <2> QED BY <2>1, <2>2, <2>3, <2>4, <2>5, <2>6, PhaseKept
<1>5. ASSUME NEW r \in Receivers, CommitUnit(r)
      PROVE  PhaseInv'
  <2>1. PICK i, e : i = rc[r].receipt /\ e = receipts[i].event
    OBVIOUS
  <2>2. At(r, "claimed") /\ Move(r, "committed") /\ \E d \in Decisions(e) : CommitsAs(i, e, d)
    BY <1>5, <2>1, CommitFacts
  <2>3. PICK d \in Decisions(e) : CommitsAs(i, e, d)
    BY <2>2
  <2>4. /\ i \in DOMAIN receipts /\ e \in Events
        /\ receipts' \in Seq(ReceiptRows) /\ Len(receipts') = Len(receipts)
        /\ \A k \in DOMAIN receipts : k # i => receipts'[k] = receipts[k]
        /\ receipts'[i].outcome = d.outcome
    BY <1>1, <2>3 DEF CommitsAs
  <2>5. receipts'[i].outcome # "NONE"
    BY <2>4, DecisionFacts
  <2>6. DOMAIN receipts' = DOMAIN receipts
    BY <1>1, <2>4, LenProperties
  <2>7. rc'[r].pc = "committed" /\ rc'[r].receipt = i
        /\ \A q \in Receivers : q # r => rc'[q] = rc[q]
    BY <1>1, <2>1, <2>2 DEF Move, ReceiverRows
  <2>8. ~At(r, "idle")
    BY <2>2 DEF At
  <2> QED BY <2>1, <2>4, <2>5, <2>6, <2>7, <2>8, PhaseKept
<1>6. ASSUME NEW r \in Receivers,
             \/ Refuse(r) \/ OpenFails(r) \/ UnitFails(r)
             \/ ConfirmFails(r) \/ Report(r) \/ CrashReceiver(r)
      PROVE  PhaseInv'
  <2>1. PICK i : i = rc[r].receipt
    OBVIOUS
  <2>2. /\ i \in DOMAIN receipts /\ ~At(r, "idle") /\ Stop(r)
        /\ receipts' \in Seq(ReceiptRows)
        /\ Len(receipts') = Len(receipts)
        /\ \A k \in DOMAIN receipts :
             /\ receipts'[k].outcome = receipts[k].outcome
             /\ \/ receipts'[k].status = receipts[k].status
                \/ k = i /\ receipts'[k].status \in {"ABANDONED", "ROLLED_BACK", "COMMIT_UNKNOWN"}
    BY <1>1, <1>6, <2>1, FailureSteps
  <2>3. DOMAIN receipts' = DOMAIN receipts
    BY <1>1, <2>2, LenProperties
  <2>4. rc'[r].pc = "idle" /\ \A q \in Receivers : q # r => rc'[q] = rc[q]
    BY <1>1, <2>2 DEF Stop, IdleReceiver
  <2>5. receipts'[i].outcome = "NONE" => receipts'[i].status \notin Live
    BY <2>2 DEF PhaseInv, Live
  <2> QED BY <2>1, <2>2, <2>3, <2>4, <2>5, PhaseKept
<1>7. ASSUME RecoverReceipts
      PROVE  PhaseInv'
  <2>1. /\ receipts' \in Seq(ReceiptRows)
        /\ Len(receipts') = Len(receipts)
        /\ \A k \in DOMAIN receipts :
             /\ receipts'[k].outcome = receipts[k].outcome
             /\ \/ receipts'[k].status = receipts[k].status
                \/ /\ receipts[k].status \in {"CLAIMED", "COMMITTED_UNCONFIRMED"}
                   /\ receipts'[k].status = "ABANDONED"
        /\ rc' = rc
    BY <1>1, <1>7, RecoverType DEF RecoverReceipts
  <2>2. DOMAIN receipts' = DOMAIN receipts
    BY <1>1, <2>1, LenProperties
  <2> QED BY <1>1, <2>1, <2>2 DEF PhaseInv, At, Live
<1>8. ASSUME UNCHANGED <<receipts, rc>>
      PROVE  PhaseInv'
  BY <1>8 DEF PhaseInv, At
<1>9. ASSUME NEW w \in Workers, Worker(w)
      PROVE  UNCHANGED <<receipts, rc>>
  BY <1>9, ClaimFacts, AnswerSteps DEF Worker, CrashWorker
<1>10. ASSUME RecoverOutbox \/ \E v \in Evidence : RetryOutbox(v)
       PROVE  UNCHANGED <<receipts, rc>>
  BY <1>10, OutboxOperator
<1>11. ASSUME UNCHANGED vars
       PROVE  UNCHANGED <<receipts, rc>>
  BY <1>11 DEF vars
<1> QED
  BY <1>2, <1>3, <1>4, <1>5, <1>6, <1>7, <1>8, <1>9, <1>10, <1>11
  DEF Next, Receiver, Operator

\* No unit is decided or confirmed: receipts keep their outcomes, a confirmed
\* one stays confirmed and none becomes live; new receipts are undecided.
QuietReceipts ==
    /\ DOMAIN receipts \subseteq DOMAIN receipts'
    /\ \A k \in DOMAIN receipts :
         /\ receipts'[k].event = receipts[k].event
         /\ receipts'[k].recorded = receipts[k].recorded
         /\ receipts'[k].outcome = receipts[k].outcome
         /\ \/ receipts'[k].status = receipts[k].status
            \/ receipts[k].status # "CONFIRMED" /\ receipts'[k].status \notin Live
    /\ \A k \in DOMAIN receipts' \ DOMAIN receipts :
         receipts'[k].outcome = "NONE" /\ receipts'[k].status = "NONE"
    /\ UNCHANGED <<exact, semantic, states>>

\* Rows keep their receipt and their release, and none appears; one that moves
\* was released, or had left PENDING before.
QuietOutbox ==
    \A v \in Evidence :
        \/ outbox'[v] = outbox[v]
        \/ /\ outbox[v].status # "ABSENT" /\ outbox'[v].status # "ABSENT"
           /\ outbox'[v].receipt = outbox[v].receipt
           /\ outbox'[v].released = outbox[v].released
           /\ outbox[v].released \/ outbox[v].status # "PENDING"

\* Every step commits a unit, confirms one, or is quiet.
LEMMA StepCases ==
    ASSUME TypeOK, PhaseInv, [Next]_vars
    PROVE  \/ QuietReceipts /\ QuietOutbox
           \/ \E r \in Receivers : CommitUnit(r) \/ Confirm(r)
<1>1. /\ receipts \in Seq(ReceiptRows) /\ Len(receipts) \in Nat
      /\ DOMAIN receipts = 1..Len(receipts)
  BY ReceiptRowType
<1>2. ASSUME NEW r \in Receivers, Receive(r) \/ Replay(r)
      PROVE  QuietReceipts /\ QuietOutbox
  <2>1. PICK e \in Events, recorded \in Nat : Store(r, e, recorded)
    BY <1>2, DeliveryStores
  <2> DEFINE n == Len(receipts) + 1
  <2>2. /\ receipts' \in Seq(ReceiptRows) /\ Len(receipts') = n
        /\ \A k \in DOMAIN receipts : receipts'[k] = receipts[k]
        /\ receipts'[n] = [event |-> e, recorded |-> recorded,
                           status |-> "NONE", outcome |-> "NONE"]
    BY <1>1, <2>1, StoreType
  <2>3. DOMAIN receipts' = 1..n /\ n \notin DOMAIN receipts /\ DOMAIN receipts \subseteq 1..n
        /\ \A k \in 1..n : k \in DOMAIN receipts \/ k = n
    BY <1>1, <2>2, LenProperties
  <2>4. UNCHANGED <<exact, semantic, states, outbox>>
    BY <2>1 DEF Store
  <2> HIDE DEF n
  <2>5. receipts'[n].outcome = "NONE" /\ receipts'[n].status = "NONE"
    BY <2>2
  <2>6. \A k \in DOMAIN receipts' \ DOMAIN receipts : k = n
    BY <2>3
  <2> QED BY <2>2, <2>3, <2>4, <2>5, <2>6 DEF QuietReceipts, QuietOutbox
<1>3. ASSUME NEW r \in Receivers, Begin(r)
      PROVE  QuietReceipts /\ QuietOutbox
  <2>1. PICK i : i = rc[r].receipt
    OBVIOUS
  <2>2. /\ i \in DOMAIN receipts /\ At(r, "stored")
        /\ receipts' \in Seq(ReceiptRows)
        /\ Len(receipts') = Len(receipts)
        /\ \A k \in DOMAIN receipts :
             /\ receipts'[k].event = receipts[k].event
             /\ receipts'[k].recorded = receipts[k].recorded
             /\ receipts'[k].outcome = receipts[k].outcome
             /\ receipts'[k].status = IF k = i THEN "CLAIMED" ELSE receipts[k].status
        /\ UNCHANGED <<exact, semantic, states, outbox>>
    BY <1>1, <1>3, <2>1, BeginFacts
  <2>3. DOMAIN receipts' = DOMAIN receipts
    BY <1>1, <2>2, LenProperties
  <2>4. receipts[i].status # "CONFIRMED"
    BY <2>1, <2>2 DEF PhaseInv
  <2> QED BY <2>2, <2>3, <2>4 DEF QuietReceipts, QuietOutbox, Live
<1>4. ASSUME NEW r \in Receivers,
             \/ Refuse(r) \/ OpenFails(r) \/ UnitFails(r)
             \/ ConfirmFails(r) \/ Report(r) \/ CrashReceiver(r)
      PROVE  QuietReceipts /\ QuietOutbox
  <2>1. PICK i : i = rc[r].receipt
    OBVIOUS
  <2>2. /\ receipts' \in Seq(ReceiptRows)
        /\ Len(receipts') = Len(receipts)
        /\ \A k \in DOMAIN receipts :
             /\ receipts'[k].event = receipts[k].event
             /\ receipts'[k].recorded = receipts[k].recorded
             /\ receipts'[k].outcome = receipts[k].outcome
             /\ \/ receipts'[k].status = receipts[k].status
                \/ /\ k = i /\ receipts[k].status # "CONFIRMED"
                   /\ receipts'[k].status \in {"ABANDONED", "ROLLED_BACK", "COMMIT_UNKNOWN"}
        /\ UNCHANGED <<exact, semantic, states, outbox>>
    BY <1>4, <2>1, FailureSteps
  <2>3. DOMAIN receipts' = DOMAIN receipts
    BY <1>1, <2>2, LenProperties
  <2> QED BY <2>2, <2>3 DEF QuietReceipts, QuietOutbox, Live
<1>5. ASSUME RecoverReceipts
      PROVE  QuietReceipts /\ QuietOutbox
  <2>1. /\ receipts' \in Seq(ReceiptRows)
        /\ Len(receipts') = Len(receipts)
        /\ \A k \in DOMAIN receipts :
             /\ receipts'[k].event = receipts[k].event
             /\ receipts'[k].recorded = receipts[k].recorded
             /\ receipts'[k].outcome = receipts[k].outcome
             /\ \/ receipts'[k].status = receipts[k].status
                \/ /\ receipts[k].status \in {"CLAIMED", "COMMITTED_UNCONFIRMED"}
                   /\ receipts'[k].status = "ABANDONED"
        /\ UNCHANGED <<exact, semantic, states, outbox>>
    BY <1>1, <1>5, RecoverType DEF RecoverReceipts
  <2>2. DOMAIN receipts' = DOMAIN receipts
    BY <1>1, <2>1, LenProperties
  <2> QED BY <2>1, <2>2 DEF QuietReceipts, QuietOutbox, Live
<1>6. ASSUME UNCHANGED <<receipts, exact, semantic, states>>
      PROVE  QuietReceipts
  BY <1>6 DEF QuietReceipts
<1>7. ASSUME NEW w \in Workers, NEW v \in Evidence, ClaimOutbox(w, v)
      PROVE  QuietReceipts /\ QuietOutbox
  <2>1. /\ Claimable(v) /\ outbox'[v].status = "PROCESSING"
        /\ outbox'[v].receipt = outbox[v].receipt
        /\ outbox'[v].released = outbox[v].released
        /\ \A u \in Evidence : u # v => outbox'[u] = outbox[u]
        /\ UNCHANGED <<receipts, exact, semantic, states>>
    BY <1>7, ClaimFacts
  <2> QED BY <1>6, <2>1 DEF QuietOutbox, Claimable
<1>8. ASSUME NEW w \in Workers, Deliver(w) \/ Fail(w)
      PROVE  QuietReceipts /\ QuietOutbox
  <2>1. PICK v : v = hand[w].evidence
    OBVIOUS
  <2>2. /\ \A u \in Evidence :
             \/ outbox'[u] = outbox[u]
             \/ /\ u = v /\ HoldsRow(w, v)
                /\ outbox'[u].status \in {"DELIVERED", "FAILED", "DEAD_LETTER"}
                /\ outbox'[u].receipt = outbox[u].receipt
                /\ outbox'[u].released = outbox[u].released
        /\ UNCHANGED <<receipts, exact, semantic, states>>
    BY <1>8, <2>1, AnswerSteps
  <2> QED BY <1>6, <2>2 DEF QuietOutbox, HoldsRow
<1>9. ASSUME NEW w \in Workers, CrashWorker(w)
      PROVE  QuietReceipts /\ QuietOutbox
  BY <1>6, <1>9 DEF CrashWorker, QuietOutbox
<1>10. ASSUME RecoverOutbox \/ \E v \in Evidence : RetryOutbox(v)
       PROVE  QuietReceipts /\ QuietOutbox
  <2>1. /\ \A u \in Evidence :
             \/ outbox'[u] = outbox[u]
             \/ /\ \/ outbox[u].status = "PROCESSING" /\ outbox'[u].status = "FAILED"
                   \/ outbox[u].status = "FAILED" /\ outbox'[u].status = "PENDING"
                /\ outbox'[u].receipt = outbox[u].receipt
                /\ outbox'[u].released = outbox[u].released
        /\ UNCHANGED <<receipts, exact, semantic, states>>
    BY <1>10, OutboxOperator
  <2> QED BY <1>6, <2>1 DEF QuietOutbox
<1>11. ASSUME UNCHANGED vars
       PROVE  QuietReceipts /\ QuietOutbox
  BY <1>6, <1>11 DEF vars, QuietOutbox
<1> QED
  BY <1>2, <1>3, <1>4, <1>5, <1>7, <1>8, <1>9, <1>10, <1>11
  DEF Next, Receiver, Worker, Operator

\* Initially no receiver is busy.
LEMMA PhaseInit == Init => PhaseInv
<1> SUFFICES ASSUME Init PROVE PhaseInv
  OBVIOUS
<1>1. DOMAIN receipts = {}
  BY EmptySeq DEF Init
<1>2. \A r \in Receivers : rc[r].pc = "idle"
  BY DEF Init, IdleReceiver
<1> QED BY <1>1, <1>2 DEF PhaseInv, At

\* What a committing unit decides and writes, with what the phases add: it is
\* decided once, and was not live before.
LEMMA CommitEffects ==
    ASSUME TypeOK, PhaseInv, NEW r \in Receivers, CommitUnit(r)
    PROVE  \E i \in DOMAIN receipts, e \in Events : \E d \in Decisions(e) :
             /\ CommitsAs(i, e, d)
             /\ receipts[i].event = e
             /\ receipts[i].outcome = "NONE" /\ receipts[i].status \notin Live
             /\ DOMAIN receipts' = DOMAIN receipts
<1>1. PICK i, e : i = rc[r].receipt /\ e = receipts[i].event
  OBVIOUS
<1>2. At(r, "claimed") /\ \E d \in Decisions(e) : CommitsAs(i, e, d)
  BY <1>1, CommitFacts
<1>3. PICK d \in Decisions(e) : CommitsAs(i, e, d)
  BY <1>2
<1>4. /\ i \in DOMAIN receipts /\ e \in Events
      /\ receipts' \in Seq(ReceiptRows) /\ Len(receipts') = Len(receipts)
      /\ DOMAIN receipts = 1..Len(receipts)
  BY <1>3, ReceiptRowType DEF CommitsAs
<1>5. DOMAIN receipts' = DOMAIN receipts
  BY <1>4, LenProperties
<1>6. receipts[i].outcome = "NONE" /\ receipts[i].status \notin Live
  BY <1>1, <1>2, <1>4 DEF PhaseInv
<1> QED BY <1>1, <1>3, <1>4, <1>5, <1>6

----------------------------------------------------------------------------
(* Evidence *)

\* An accepted receipt owns the semantic row of its event for ever, and of the
\* accepted receipts of one evidence at most one is live.
EvidenceInv ==
    /\ \A k \in DOMAIN receipts :
         receipts[k].outcome = "ACCEPTED" => semantic[receipts[k].event] = k
    /\ \A j, k \in DOMAIN receipts :
         /\ receipts[j].outcome = "ACCEPTED" /\ receipts[j].status \in Live
         /\ receipts[k].outcome = "ACCEPTED" /\ receipts[k].status \in Live
         /\ EvidenceOf[receipts[j].event] = EvidenceOf[receipts[k].event]
         => j = k

\* A unit that accepts found no live receipt of its evidence: the reservation
\* would have counted it.
LEMMA CommitKeepsEvidence ==
    ASSUME TypeOK, PhaseInv, EvidenceInv, NEW r \in Receivers, CommitUnit(r)
    PROVE  EvidenceInv'
<1>1. PICK i \in DOMAIN receipts, e \in Events : \E d \in Decisions(e) :
        /\ CommitsAs(i, e, d)
        /\ receipts[i].event = e
        /\ receipts[i].outcome = "NONE" /\ receipts[i].status \notin Live
        /\ DOMAIN receipts' = DOMAIN receipts
  BY CommitEffects
<1>2. PICK d \in Decisions(e) :
        /\ CommitsAs(i, e, d)
        /\ receipts[i].event = e
        /\ receipts[i].outcome = "NONE" /\ receipts[i].status \notin Live
        /\ DOMAIN receipts' = DOMAIN receipts
  BY <1>1
<1>3. \A k \in DOMAIN receipts : receipts[k].event \in Events /\ k # 0
  BY ReceiptRowType
<1>4. /\ \A k \in DOMAIN receipts : receipts'[k].event = receipts[k].event
      /\ \A k \in DOMAIN receipts : k # i => receipts'[k] = receipts[k]
      /\ receipts'[i].outcome = d.outcome
      /\ semantic' = IF SemanticDuplicate(e) THEN semantic ELSE [semantic EXCEPT ![e] = i]
      /\ ~SemanticDuplicate(e) => semantic[e] = 0
  BY <1>2 DEF CommitsAs, Collides
<1>5. semantic \in [Events -> Nat]
  BY DEF TypeOK
<1>6. d.outcome = "ACCEPTED" => ~SemanticDuplicate(e)
  BY DecisionFacts
<1>7. ASSUME NEW k \in DOMAIN receipts, receipts'[k].outcome = "ACCEPTED"
      PROVE  semantic'[receipts'[k].event] = k
  <2>1. CASE k = i
    BY <1>2, <1>4, <1>5, <1>6, <1>7, <2>1
  <2>2. CASE k # i
    <3>1. receipts[k].outcome = "ACCEPTED" /\ receipts'[k].event = receipts[k].event
      BY <1>4, <1>7, <2>2
    <3>2. semantic[receipts[k].event] = k /\ k # 0
      BY <1>3, <3>1 DEF EvidenceInv
    <3> QED BY <1>3, <1>4, <1>5, <3>1, <3>2
  <2> QED BY <2>1, <2>2
<1>8. ASSUME NEW k \in DOMAIN receipts, k # i, d.outcome = "ACCEPTED",
             receipts[k].outcome = "ACCEPTED", receipts[k].status \in Live,
             EvidenceOf[receipts[k].event] = EvidenceOf[e]
      PROVE  FALSE
  <2>1. semantic[receipts[k].event] = k /\ k # 0 /\ receipts[k].event \in Events
    BY <1>3, <1>8 DEF EvidenceInv
  <2>2. SemanticDuplicate(e)
    BY <1>8, <2>1 DEF SemanticDuplicate, CountsAsDuplicate, Counted, Live
  <2> QED BY <1>6, <1>8, <2>2
<1>9. ASSUME NEW j \in DOMAIN receipts, NEW k \in DOMAIN receipts,
             receipts'[j].outcome = "ACCEPTED", receipts'[j].status \in Live,
             receipts'[k].outcome = "ACCEPTED", receipts'[k].status \in Live,
             EvidenceOf[receipts'[j].event] = EvidenceOf[receipts'[k].event]
      PROVE  j = k
  <2>1. EvidenceOf[receipts[j].event] = EvidenceOf[receipts[k].event]
    BY <1>4, <1>9
  <2>2. CASE j # i /\ k # i
    BY <1>4, <1>9, <2>1, <2>2 DEF EvidenceInv
  <2>3. CASE j = i /\ k # i
    BY <1>2, <1>4, <1>8, <1>9, <2>1, <2>3
  <2>4. CASE j # i /\ k = i
    BY <1>2, <1>4, <1>8, <1>9, <2>1, <2>4
  <2> QED BY <2>2, <2>3, <2>4
<1> QED BY <1>2, <1>7, <1>9 DEF EvidenceInv

\* Every step keeps the evidence invariant.
LEMMA EvidenceStep ==
    ASSUME TypeOK, PhaseInv, EvidenceInv, [Next]_vars
    PROVE  EvidenceInv'
<1>1. CASE QuietReceipts
  <2>1. \A k \in DOMAIN receipts' : receipts'[k].outcome = "ACCEPTED" => k \in DOMAIN receipts
    BY <1>1 DEF QuietReceipts
  <2>2. \A k \in DOMAIN receipts :
          /\ receipts'[k].event = receipts[k].event
          /\ receipts'[k].outcome = receipts[k].outcome
          /\ receipts'[k].status \in Live => receipts[k].status \in Live
    BY <1>1 DEF QuietReceipts
  <2>3. semantic' = semantic
    BY <1>1 DEF QuietReceipts
  <2> QED BY <2>1, <2>2, <2>3 DEF EvidenceInv
<1>2. ASSUME NEW r \in Receivers, Confirm(r)
      PROVE  EvidenceInv'
  <2>1. PICK i : i = rc[r].receipt
    OBVIOUS
  <2>2. /\ i \in 1..Len(receipts) /\ receipts[i].status = "COMMITTED_UNCONFIRMED"
        /\ receipts' \in Seq(ReceiptRows)
        /\ Len(receipts') = Len(receipts)
        /\ \A k \in DOMAIN receipts :
             /\ receipts'[k].event = receipts[k].event
             /\ receipts'[k].outcome = receipts[k].outcome
             /\ receipts'[k].status = IF k = i THEN "CONFIRMED" ELSE receipts[k].status
        /\ semantic' = semantic
    BY <1>2, <2>1, ConfirmFacts
  <2>3. DOMAIN receipts' = DOMAIN receipts
    BY <2>2, ReceiptRowType, LenProperties
  <2>4. \A k \in DOMAIN receipts : receipts'[k].status \in Live => receipts[k].status \in Live
    BY <2>2 DEF Live
  <2> QED BY <2>2, <2>3, <2>4 DEF EvidenceInv
<1> QED BY <1>1, <1>2, StepCases, CommitKeepsEvidence

\* However receipts of one evidence interleave, are replayed, abandoned and
\* recovered, at most one confirmed receipt has accepted it.
THEOREM EvidenceOnce == Spec => []EvidenceAcceptedOnce
<1> DEFINE I == TypeOK /\ PhaseInv /\ EvidenceInv
<1>1. Init => I
  <2>1. Init => EvidenceInv
    BY EmptySeq DEF Init, EvidenceInv
  <2> QED BY <2>1, TypeInit, PhaseInit
<1>2. I /\ [Next]_vars => I'
  BY TypeStep, PhaseStep, EvidenceStep
<1>3. I => EvidenceAcceptedOnce
  BY DEF EvidenceInv, EvidenceAcceptedOnce, Live
<1> QED BY <1>1, <1>2, <1>3, PTL DEF Spec

----------------------------------------------------------------------------
(* Release *)

\* An outbox row belongs to an accepted receipt and is released exactly when
\* that is confirmed; an accepted readiness owns the row of its evidence.
OutboxInv ==
    /\ \A v \in Evidence : outbox[v].status = "ABSENT" => outbox[v].receipt = 0
    /\ \A v \in Evidence : outbox[v].status # "ABSENT" =>
         /\ outbox[v].receipt \in DOMAIN receipts
         /\ receipts[outbox[v].receipt].outcome = "ACCEPTED"
         /\ outbox[v].released <=> receipts[outbox[v].receipt].status = "CONFIRMED"
         /\ outbox[v].status # "PENDING" \/ outbox[v].attempts > 0 => outbox[v].released
    /\ \A k \in DOMAIN receipts :
         /\ receipts[k].outcome = "ACCEPTED"
         /\ EventType[receipts[k].event] \in ReadyStates
         => /\ outbox[EvidenceOf[receipts[k].event]].status # "ABSENT"
            /\ outbox[EvidenceOf[receipts[k].event]].receipt = k

\* A quiet step keeps the rows with their receipts.
LEMMA QuietKeepsOutbox ==
    ASSUME TypeOK, OutboxInv, QuietReceipts, QuietOutbox
    PROVE  OutboxInv'
<1>1. \A k \in DOMAIN receipts :
        /\ k \in DOMAIN receipts'
        /\ receipts'[k].event = receipts[k].event
        /\ receipts'[k].outcome = receipts[k].outcome
        /\ receipts'[k].status = "CONFIRMED" <=> receipts[k].status = "CONFIRMED"
  BY DEF QuietReceipts, Live
<1>2. \A k \in DOMAIN receipts' : receipts'[k].outcome = "ACCEPTED" => k \in DOMAIN receipts
  BY DEF QuietReceipts
<1>3. ASSUME NEW v \in Evidence
      PROVE  /\ outbox'[v].status = "ABSENT" <=> outbox[v].status = "ABSENT"
             /\ outbox'[v].receipt = outbox[v].receipt
             /\ outbox'[v].released = outbox[v].released
             /\ outbox[v].status # "ABSENT" =>
                  (outbox'[v].status # "PENDING" \/ outbox'[v].attempts > 0 => outbox[v].released)
  BY DEF QuietOutbox, OutboxInv
<1>4. \A v \in Evidence : outbox'[v].status = "ABSENT" => outbox'[v].receipt = 0
  BY <1>3 DEF OutboxInv
<1>5. ASSUME NEW v \in Evidence, outbox'[v].status # "ABSENT"
      PROVE  /\ outbox'[v].receipt \in DOMAIN receipts'
             /\ receipts'[outbox'[v].receipt].outcome = "ACCEPTED"
             /\ outbox'[v].released <=> receipts'[outbox'[v].receipt].status = "CONFIRMED"
             /\ outbox'[v].status # "PENDING" \/ outbox'[v].attempts > 0 => outbox'[v].released
  <2>1. outbox[v].status # "ABSENT" /\ outbox'[v].receipt = outbox[v].receipt
        /\ outbox'[v].released = outbox[v].released
    BY <1>3, <1>5
  <2>2. /\ outbox[v].receipt \in DOMAIN receipts
        /\ receipts[outbox[v].receipt].outcome = "ACCEPTED"
        /\ outbox[v].released <=> receipts[outbox[v].receipt].status = "CONFIRMED"
    BY <2>1 DEF OutboxInv
  <2> QED BY <1>1, <1>3, <2>1, <2>2
<1>6. \A k \in DOMAIN receipts' :
        /\ receipts'[k].outcome = "ACCEPTED"
        /\ EventType[receipts'[k].event] \in ReadyStates
        => /\ outbox'[EvidenceOf[receipts'[k].event]].status # "ABSENT"
           /\ outbox'[EvidenceOf[receipts'[k].event]].receipt = k
  <2>1. \A k \in DOMAIN receipts : EvidenceOf[receipts[k].event] \in Evidence
    BY ReceiptRowType, EventsAssumption
  <2> QED BY <1>1, <1>2, <1>3, <2>1 DEF OutboxInv
<1> QED BY <1>4, <1>5, <1>6 DEF OutboxInv

\* A confirmation releases the rows of its receipt and no other.
LEMMA ConfirmKeepsOutbox ==
    ASSUME TypeOK, OutboxInv, NEW r \in Receivers, Confirm(r)
    PROVE  OutboxInv'
<1>1. PICK i : i = rc[r].receipt
  OBVIOUS
<1>2. /\ i \in 1..Len(receipts)
      /\ receipts' \in Seq(ReceiptRows)
      /\ Len(receipts') = Len(receipts)
      /\ \A k \in DOMAIN receipts :
           /\ receipts'[k].event = receipts[k].event
           /\ receipts'[k].outcome = receipts[k].outcome
           /\ receipts'[k].status = IF k = i THEN "CONFIRMED" ELSE receipts[k].status
      /\ \A v \in Evidence :
           /\ outbox'[v].status = outbox[v].status
           /\ outbox'[v].receipt = outbox[v].receipt
           /\ outbox'[v].attempts = outbox[v].attempts
           /\ outbox'[v].released <=> outbox[v].released \/ outbox[v].receipt = i
  BY <1>1, ConfirmFacts
<1>3. DOMAIN receipts' = DOMAIN receipts
  BY <1>2, ReceiptRowType, LenProperties
<1>4. \A v \in Evidence : outbox'[v].status = "ABSENT" => outbox'[v].receipt = 0
  BY <1>2 DEF OutboxInv
<1>5. ASSUME NEW v \in Evidence, outbox'[v].status # "ABSENT"
      PROVE  /\ outbox'[v].receipt \in DOMAIN receipts'
             /\ receipts'[outbox'[v].receipt].outcome = "ACCEPTED"
             /\ outbox'[v].released <=> receipts'[outbox'[v].receipt].status = "CONFIRMED"
             /\ outbox'[v].status # "PENDING" \/ outbox'[v].attempts > 0 => outbox'[v].released
  <2>1. outbox[v].status # "ABSENT" /\ outbox'[v].receipt = outbox[v].receipt
    BY <1>2, <1>5
  <2>2. /\ outbox[v].receipt \in DOMAIN receipts
        /\ receipts[outbox[v].receipt].outcome = "ACCEPTED"
        /\ outbox[v].released <=> receipts[outbox[v].receipt].status = "CONFIRMED"
        /\ outbox[v].status # "PENDING" \/ outbox[v].attempts > 0 => outbox[v].released
    BY <2>1 DEF OutboxInv
  <2> QED BY <1>2, <1>3, <2>1, <2>2
<1>6. \A k \in DOMAIN receipts' :
        /\ receipts'[k].outcome = "ACCEPTED"
        /\ EventType[receipts'[k].event] \in ReadyStates
        => /\ outbox'[EvidenceOf[receipts'[k].event]].status # "ABSENT"
           /\ outbox'[EvidenceOf[receipts'[k].event]].receipt = k
  <2>1. \A k \in DOMAIN receipts : EvidenceOf[receipts[k].event] \in Evidence
    BY ReceiptRowType, EventsAssumption
  <2> QED BY <1>2, <1>3, <2>1 DEF OutboxInv
<1> QED BY <1>4, <1>5, <1>6 DEF OutboxInv

\* A committing unit adds a row only for evidence that has none, and no row
\* belongs to a receipt that is not yet decided.
LEMMA CommitKeepsOutbox ==
    ASSUME TypeOK, PhaseInv, OutboxInv, NEW r \in Receivers, CommitUnit(r)
    PROVE  OutboxInv'
<1>1. PICK i \in DOMAIN receipts, e \in Events : \E d \in Decisions(e) :
        /\ CommitsAs(i, e, d)
        /\ receipts[i].event = e
        /\ receipts[i].outcome = "NONE" /\ receipts[i].status \notin Live
        /\ DOMAIN receipts' = DOMAIN receipts
  BY CommitEffects
<1>2. PICK d \in Decisions(e) :
        /\ CommitsAs(i, e, d)
        /\ receipts[i].event = e
        /\ receipts[i].outcome = "NONE" /\ receipts[i].status \notin Live
        /\ DOMAIN receipts' = DOMAIN receipts
  BY <1>1
<1>3. /\ \A k \in DOMAIN receipts : receipts'[k].event = receipts[k].event
      /\ \A k \in DOMAIN receipts : k # i => receipts'[k] = receipts[k]
      /\ receipts'[i].status = "COMMITTED_UNCONFIRMED"
      /\ receipts'[i].outcome = d.outcome
      /\ d.dispatch => outbox[EvidenceOf[e]].status = "ABSENT"
      /\ outbox' = IF d.dispatch THEN [outbox EXCEPT ![EvidenceOf[e]] = NewRow(i)] ELSE outbox
  BY <1>2 DEF CommitsAs
<1>4. outbox \in [Evidence -> OutboxRows] /\ EvidenceOf[e] \in Evidence /\ i \in Nat
      /\ \A k \in DOMAIN receipts : EvidenceOf[receipts[k].event] \in Evidence
  <2>1. i \in 1..Len(receipts) /\ Len(receipts) \in Nat
        /\ \A k \in DOMAIN receipts : receipts[k].event \in Events
    BY ReceiptRowType
  <2>2. outbox \in [Evidence -> OutboxRows]
    BY DEF TypeOK, OutboxRows
  <2> QED BY <2>1, <2>2, EventsAssumption
<1>5. /\ NewRow(i).status = "PENDING" /\ NewRow(i).receipt = i
      /\ ~NewRow(i).released /\ NewRow(i).attempts = 0
  BY <1>4, NewRowType
<1>6. \A v \in Evidence : outbox'[v] = IF d.dispatch /\ v = EvidenceOf[e]
                                       THEN NewRow(i) ELSE outbox[v]
  BY <1>3, <1>4
<1>7. d.dispatch <=> d.outcome = "ACCEPTED" /\ EventType[e] \in ReadyStates
  BY DecisionFacts
<1>8. \A v \in Evidence : outbox'[v].status = "ABSENT" => outbox'[v].receipt = 0
  BY <1>5, <1>6 DEF OutboxInv
<1>9. ASSUME NEW v \in Evidence, outbox'[v].status # "ABSENT"
      PROVE  /\ outbox'[v].receipt \in DOMAIN receipts'
             /\ receipts'[outbox'[v].receipt].outcome = "ACCEPTED"
             /\ outbox'[v].released <=> receipts'[outbox'[v].receipt].status = "CONFIRMED"
             /\ outbox'[v].status # "PENDING" \/ outbox'[v].attempts > 0 => outbox'[v].released
  <2>1. CASE d.dispatch /\ v = EvidenceOf[e]
    <3>1. outbox'[v] = NewRow(i)
      BY <1>6, <2>1
    <3>2. d.outcome = "ACCEPTED"
      BY <1>7, <2>1
    <3> QED BY <1>2, <1>3, <1>5, <3>1, <3>2
  <2>2. CASE ~(d.dispatch /\ v = EvidenceOf[e])
    <3>1. outbox'[v] = outbox[v]
      BY <1>6, <2>2
    <3>2. /\ outbox[v].receipt \in DOMAIN receipts
          /\ receipts[outbox[v].receipt].outcome = "ACCEPTED"
          /\ outbox[v].released <=> receipts[outbox[v].receipt].status = "CONFIRMED"
          /\ outbox[v].status # "PENDING" \/ outbox[v].attempts > 0 => outbox[v].released
      BY <1>9, <3>1 DEF OutboxInv
    <3>3. outbox[v].receipt # i
      BY <1>2, <3>2
    <3> QED BY <1>2, <1>3, <3>1, <3>2, <3>3
  <2> QED BY <2>1, <2>2
<1>10. ASSUME NEW k \in DOMAIN receipts,
              receipts'[k].outcome = "ACCEPTED",
              EventType[receipts'[k].event] \in ReadyStates
       PROVE  /\ outbox'[EvidenceOf[receipts'[k].event]].status # "ABSENT"
              /\ outbox'[EvidenceOf[receipts'[k].event]].receipt = k
  <2>1. CASE k = i
    <3>1. receipts'[k].event = e /\ d.dispatch
      BY <1>2, <1>3, <1>7, <1>10, <2>1
    <3>2. outbox'[EvidenceOf[e]] = NewRow(i)
      BY <1>4, <1>6, <3>1
    <3> QED BY <1>5, <2>1, <3>1, <3>2
  <2>2. CASE k # i
    <3>1. receipts[k].outcome = "ACCEPTED" /\ receipts'[k].event = receipts[k].event
      BY <1>3, <1>10, <2>2
    <3>2. /\ outbox[EvidenceOf[receipts[k].event]].status # "ABSENT"
          /\ outbox[EvidenceOf[receipts[k].event]].receipt = k
      BY <1>10, <3>1 DEF OutboxInv
    <3>3. outbox'[EvidenceOf[receipts[k].event]] = outbox[EvidenceOf[receipts[k].event]]
      BY <1>3, <1>4, <1>6, <3>2
    <3> QED BY <3>1, <3>2, <3>3
  <2> QED BY <2>1, <2>2
<1> QED BY <1>2, <1>8, <1>9, <1>10 DEF OutboxInv

\* Every step keeps the outbox invariant.
LEMMA OutboxStep ==
    ASSUME TypeOK, PhaseInv, OutboxInv, [Next]_vars
    PROVE  OutboxInv'
BY StepCases, QuietKeepsOutbox, ConfirmKeepsOutbox, CommitKeepsOutbox

\* A row is released exactly when its receipt is confirmed, only released rows
\* leave PENDING, and a confirmed readiness owns the row of its evidence.
THEOREM ReleaseFollowsReceipt == Spec => []OutboxFollowsReceipt
<1> DEFINE I == TypeOK /\ PhaseInv /\ OutboxInv
<1>1. Init => I
  <2>1. Init => OutboxInv
    BY EmptySeq DEF Init, OutboxInv, NoRow
  <2> QED BY <2>1, TypeInit, PhaseInit
<1>2. I /\ [Next]_vars => I'
  BY TypeStep, PhaseStep, OutboxStep
<1>3. I => OutboxFollowsReceipt
  BY DEF OutboxInv, OutboxFollowsReceipt
<1> QED BY <1>1, <1>2, <1>3, PTL DEF Spec

----------------------------------------------------------------------------
(* Setups *)

\* A confirmed state row stays, and stays confirmed.
LEMMA ConfirmedStays ==
    ASSUME TypeOK, PhaseInv, [Next]_vars, NEW setup
    PROVE  ConfirmedRows(setup) \subseteq ConfirmedRows(setup)'
<1>1. \A s \in states : s.receipt \in DOMAIN receipts
  BY ReceiptRowType DEF TypeOK
<1>2. SUFFICES /\ states \subseteq states'
               /\ \A k \in DOMAIN receipts :
                    receipts[k].status = "CONFIRMED" => receipts'[k].status = "CONFIRMED"
  BY <1>1 DEF ConfirmedRows
<1>3. CASE QuietReceipts
  BY <1>3 DEF QuietReceipts
<1>4. ASSUME NEW r \in Receivers, Confirm(r)
      PROVE  /\ states \subseteq states'
             /\ \A k \in DOMAIN receipts :
                  receipts[k].status = "CONFIRMED" => receipts'[k].status = "CONFIRMED"
  <2>1. PICK i : i = rc[r].receipt
    OBVIOUS
  <2>2. /\ \A k \in DOMAIN receipts :
             receipts'[k].status = IF k = i THEN "CONFIRMED" ELSE receipts[k].status
        /\ states' = states
    BY <1>4, <2>1, ConfirmFacts
  <2> QED BY <2>2
<1>5. ASSUME NEW r \in Receivers, CommitUnit(r)
      PROVE  /\ states \subseteq states'
             /\ \A k \in DOMAIN receipts :
                  receipts[k].status = "CONFIRMED" => receipts'[k].status = "CONFIRMED"
  <2>1. PICK i \in DOMAIN receipts, e \in Events : \E d \in Decisions(e) :
          CommitsAs(i, e, d) /\ receipts[i].status \notin Live
    BY <1>5, CommitEffects
  <2>2. PICK d \in Decisions(e) : CommitsAs(i, e, d) /\ receipts[i].status \notin Live
    BY <2>1
  <2> QED BY <2>2 DEF CommitsAs, Live
<1> QED BY <1>3, <1>4, <1>5, StepCases

\* Without a current state nothing but a lifecycle event that is no ending is
\* refused.
LEMMA RefusedByState ==
    ASSUME TypeOK, NEW e \in Events, NEW d \in Decisions(e), d.outcome = "REJECTED",
           EventType[e] \notin Lifecycle \ Endings
    PROVE  ConfirmedRows(SetupOf[e]) # {}
<1>1. CASE ExactDuplicate(e) \/ SemanticDuplicate(e)
  <2>1. d = Duplicated
    BY <1>1 DEF Decisions
  <2> QED BY <2>1 DEF Duplicated
<1>2. CASE ~(ExactDuplicate(e) \/ SemanticDuplicate(e)) /\ CurrentSetup(SetupOf[e]) = {}
  <2>1. d = Judgement(e, NoSetup, 0, OccurredAt[e])
    BY <1>2 DEF Decisions
  <2>2. ~(OccurredAt[e] < OccurredAt[e]) /\ EventType[e] \in EventTypes
    BY EventsAssumption
  <2>3. V1Transition(NoSetup, EventType[e]).allowed
    BY <2>2, TransitionFacts
  <2>4. d.outcome = "ACCEPTED"
    BY <2>1, <2>2, <2>3 DEF Judgement
  <2> QED BY <2>4
<1>3. CASE CurrentSetup(SetupOf[e]) # {}
  BY <1>3 DEF CurrentSetup
<1> QED BY <1>1, <1>2, <1>3

\* Every step keeps a cause for every refusal.
LEMMA RefusalStep ==
    ASSUME TypeOK, PhaseInv, RefusalHasCause, [Next]_vars
    PROVE  RefusalHasCause'
<1>1. SUFFICES ASSUME NEW k \in DOMAIN receipts', receipts'[k].outcome = "REJECTED",
                      EventType[receipts'[k].event] \notin Lifecycle \ Endings,
                      NEW setup, setup = SetupOf[receipts'[k].event]
               PROVE  ConfirmedRows(setup)' # {}
  BY DEF RefusalHasCause, ConfirmedRows
<1>2. ASSUME k \in DOMAIN receipts, receipts[k].outcome = "REJECTED",
             receipts'[k].event = receipts[k].event
      PROVE  ConfirmedRows(setup)' # {}
  <2>1. ConfirmedRows(setup) # {}
    BY <1>1, <1>2 DEF RefusalHasCause
  <2>2. ConfirmedRows(setup) \subseteq ConfirmedRows(setup)'
    BY ConfirmedStays
  <2> QED BY <2>1, <2>2
<1>3. CASE QuietReceipts
  BY <1>1, <1>2, <1>3 DEF QuietReceipts
<1>4. ASSUME NEW r \in Receivers, Confirm(r)
      PROVE  ConfirmedRows(setup)' # {}
  <2>1. PICK i : i = rc[r].receipt
    OBVIOUS
  <2>2. /\ receipts' \in Seq(ReceiptRows) /\ Len(receipts') = Len(receipts)
        /\ \A j \in DOMAIN receipts :
             receipts'[j].event = receipts[j].event /\ receipts'[j].outcome = receipts[j].outcome
    BY <1>4, <2>1, ConfirmFacts
  <2>3. DOMAIN receipts' = DOMAIN receipts
    BY <2>2, ReceiptRowType, LenProperties
  <2> QED BY <1>1, <1>2, <2>2, <2>3
<1>5. ASSUME NEW r \in Receivers, CommitUnit(r)
      PROVE  ConfirmedRows(setup)' # {}
  <2>1. PICK i \in DOMAIN receipts, e \in Events : \E d \in Decisions(e) :
          /\ CommitsAs(i, e, d)
          /\ receipts[i].event = e
          /\ DOMAIN receipts' = DOMAIN receipts
    BY <1>5, CommitEffects
  <2>2. PICK d \in Decisions(e) :
          /\ CommitsAs(i, e, d)
          /\ receipts[i].event = e
          /\ DOMAIN receipts' = DOMAIN receipts
    BY <2>1
  <2>3. /\ \A j \in DOMAIN receipts : receipts'[j].event = receipts[j].event
        /\ \A j \in DOMAIN receipts : j # i => receipts'[j] = receipts[j]
        /\ receipts'[i].outcome = d.outcome
    BY <2>2 DEF CommitsAs
  <2>4. CASE k = i
    <3>1. d.outcome = "REJECTED" /\ receipts'[k].event = e /\ setup = SetupOf[e]
      BY <1>1, <2>2, <2>3, <2>4
    <3>2. ConfirmedRows(setup) # {}
      BY <1>1, <3>1, RefusedByState
    <3>3. ConfirmedRows(setup) \subseteq ConfirmedRows(setup)'
      BY ConfirmedStays
    <3> QED BY <3>2, <3>3
  <2>5. CASE k # i
    BY <1>1, <1>2, <2>2, <2>3, <2>5
  <2> QED BY <2>4, <2>5
<1> QED BY <1>3, <1>4, <1>5, StepCases

\* A refusal by the state of a setup has a confirmed state behind it: a unit
\* that is abandoned, or whose commit is unknown, refuses nothing.
THEOREM RefusalCaused == Spec => []RefusalHasCause
<1> DEFINE I == TypeOK /\ PhaseInv /\ RefusalHasCause
<1>1. Init => I
  <2>1. Init => RefusalHasCause
    BY EmptySeq DEF Init, RefusalHasCause
  <2> QED BY <2>1, TypeInit, PhaseInit
<1>2. I /\ [Next]_vars => I'
  BY TypeStep, PhaseStep, RefusalStep
<1>3. I => RefusalHasCause
  OBVIOUS
<1> QED BY <1>1, <1>2, <1>3, PTL DEF Spec

\* V1 persists endings alone, and each as the first state of its setup; receipts
\* are numbered as they arrive, and a replay keeps the number.
EndingInv ==
    /\ \A s \in states : s.state \in Endings /\ s.version = 1
    /\ \A k \in DOMAIN receipts : receipts[k].recorded <= MaxReceipts

\* Of the confirmed rows of a setup one is current: the latest.
LEMMA SomeRowIsCurrent ==
    ASSUME TypeOK, EndingInv, NEW setup, ConfirmedRows(setup) # {}
    PROVE  CurrentSetup(setup) # {}
<1> DEFINE Age(s) == MaxReceipts - receipts[s.receipt].recorded
           Ages == {Age(s) : s \in ConfirmedRows(setup)}
<1>1. \A s \in ConfirmedRows(setup) :
        /\ s \in states /\ s.version = 1
        /\ receipts[s.receipt].recorded \in Nat
        /\ receipts[s.receipt].recorded <= MaxReceipts
  <2>1. \A s \in states : s.receipt \in DOMAIN receipts /\ s.version = 1
    BY ReceiptRowType DEF TypeOK, EndingInv
  <2> QED BY <2>1, ReceiptRowType DEF ConfirmedRows, EndingInv
<1>2. Ages \subseteq Nat /\ Ages # {}
  BY <1>1, BoundsAssumption
<1>3. PICK x \in Ages : \A y \in Ages : ~(<<y, x>> \in OpToRel(<, Nat))
  <2> HIDE DEF Ages
  <2> QED BY <1>2, NatLessThanWellFounded, WFMin, Zenon
<1>4. \A y \in Ages : ~(y < x)
  BY <1>2, <1>3 DEF OpToRel
<1>5. PICK s \in ConfirmedRows(setup) : x = Age(s)
  OBVIOUS
<1>6. \A t \in ConfirmedRows(setup) : ~(Age(t) < Age(s))
  BY <1>4, <1>5
<1>7. \A t \in ConfirmedRows(setup) : NotAfter(t, s)
  BY <1>1, <1>6, BoundsAssumption DEF NotAfter
<1> QED BY <1>5, <1>7 DEF CurrentSetup

\* A unit that moves a setup found it without a state, and moves it to an ending.
LEMMA EndingDecisions ==
    ASSUME TypeOK, EndingInv, NEW e \in Events, NEW d \in Decisions(e)
    PROVE  /\ d.outcome = "ACCEPTED" /\ EventType[e] \notin Telemetry =>
                CurrentSetup(SetupOf[e]) = {}
           /\ d.next # NoSetup => d.next \in Endings /\ d.version = 1
<1> DEFINE type == EventType[e]
<1>1. type \in EventTypes /\ OccurredAt[e] \in Int
  BY EventsAssumption
<1>2. CASE ExactDuplicate(e) \/ SemanticDuplicate(e)
  <2>1. d = Duplicated
    BY <1>2 DEF Decisions
  <2> QED BY <2>1 DEF Duplicated
<1>3. CASE ~(ExactDuplicate(e) \/ SemanticDuplicate(e)) /\ CurrentSetup(SetupOf[e]) = {}
  <2>1. d = Judgement(e, NoSetup, 0, OccurredAt[e])
    BY <1>3 DEF Decisions
  <2>2. PICK t : t = V1Transition(NoSetup, type)
    OBVIOUS
  <2>3. /\ type \in Lifecycle => t.next = type
        /\ type \in Lifecycle /\ t.allowed => type \in Endings
    BY <1>1, <2>2, TransitionFacts
  <2>4. \/ d = Rejected
        \/ /\ t.allowed
           /\ d.next = IF t.persist /\ type \in Lifecycle THEN t.next ELSE NoSetup
           /\ d.version = 0 + 1
    BY <2>1, <2>2 DEF Judgement
  <2>5. Rejected.next = NoSetup
    BY DEF Rejected, Duplicated
  <2> QED BY <1>3, <2>3, <2>4, <2>5
<1>4. CASE ~(ExactDuplicate(e) \/ SemanticDuplicate(e)) /\ CurrentSetup(SetupOf[e]) # {}
  <2>1. PICK s \in CurrentSetup(SetupOf[e]) : d = Judgement(e, s.state, s.version, s.at)
    BY <1>4 DEF Decisions
  <2>2. s.state \in Endings
    BY DEF CurrentSetup, ConfirmedRows, EndingInv
  <2>3. s.state \in TerminalStates /\ s.state \in Lifecycle
    BY <2>2 DEF TerminalStates, Lifecycle, Endings
  <2>4. PICK t : t = V1Transition(s.state, type)
    OBVIOUS
  <2>5. type \notin Telemetry => ~t.allowed
    BY <1>1, <2>3, <2>4, TransitionFacts
  <2>6. type \in Telemetry => type \notin Lifecycle
    BY DEF Telemetry, Lifecycle, Endings
  <2>7. \/ d = Rejected
        \/ /\ t.allowed
           /\ d.next = IF t.persist /\ type \in Lifecycle THEN t.next ELSE NoSetup
    BY <2>1, <2>4 DEF Judgement
  <2>8. Rejected.next = NoSetup /\ Rejected.outcome = "REJECTED"
    BY DEF Rejected, Duplicated
  <2> QED BY <2>5, <2>6, <2>7, <2>8
<1> QED BY <1>2, <1>3, <1>4

\* Only a delivery adds a receipt.
LEMMA KeepsReceipts ==
    ASSUME TypeOK, [Next]_vars, ~\E r \in Receivers : Receive(r) \/ Replay(r)
    PROVE  DOMAIN receipts' = DOMAIN receipts
<1>1. receipts \in Seq(ReceiptRows) /\ DOMAIN receipts = 1..Len(receipts)
  BY ReceiptRowType
<1>2. ASSUME receipts' \in Seq(ReceiptRows), Len(receipts') = Len(receipts)
      PROVE  DOMAIN receipts' = DOMAIN receipts
  BY <1>1, <1>2, LenProperties
<1>3. ASSUME NEW r \in Receivers, Begin(r) \/ Confirm(r)
      PROVE  DOMAIN receipts' = DOMAIN receipts
  BY <1>2, <1>3, BeginFacts, ConfirmFacts
<1>4. ASSUME NEW r \in Receivers, CommitUnit(r)
      PROVE  DOMAIN receipts' = DOMAIN receipts
  BY <1>2, <1>4, CommitFacts DEF CommitsAs
<1>5. ASSUME NEW r \in Receivers,
             \/ Refuse(r) \/ OpenFails(r) \/ UnitFails(r)
             \/ ConfirmFails(r) \/ Report(r) \/ CrashReceiver(r)
      PROVE  DOMAIN receipts' = DOMAIN receipts
  BY <1>2, <1>5, FailureSteps
<1>6. ASSUME RecoverReceipts
      PROVE  DOMAIN receipts' = DOMAIN receipts
  BY <1>1, <1>2, <1>6, RecoverType
<1>7. ASSUME NEW w \in Workers, Worker(w)
      PROVE  UNCHANGED receipts
  BY <1>7, ClaimFacts, AnswerSteps DEF Worker, CrashWorker
<1>8. ASSUME RecoverOutbox \/ \E v \in Evidence : RetryOutbox(v)
      PROVE  UNCHANGED receipts
  BY <1>8, OutboxOperator
<1>9. ASSUME UNCHANGED vars
      PROVE  UNCHANGED receipts
  BY <1>9 DEF vars
<1> QED
  BY <1>3, <1>4, <1>5, <1>6, <1>7, <1>8, <1>9 DEF Next, Receiver, Operator

\* Every step keeps the ending invariant.
LEMMA EndingStep ==
    ASSUME TypeOK, PhaseInv, EndingInv, [Next]_vars
    PROVE  EndingInv'
<1>1. ASSUME NEW r \in Receivers, CommitUnit(r)
      PROVE  EndingInv'
  <2>1. PICK i \in DOMAIN receipts, e \in Events : \E d \in Decisions(e) :
          CommitsAs(i, e, d) /\ DOMAIN receipts' = DOMAIN receipts
    BY <1>1, CommitEffects
  <2>2. PICK d \in Decisions(e) : CommitsAs(i, e, d) /\ DOMAIN receipts' = DOMAIN receipts
    BY <2>1
  <2>3. d.next # NoSetup => d.next \in Endings /\ d.version = 1
    BY EndingDecisions
  <2>4. \A s \in states' : s.state \in Endings /\ s.version = 1
    <3>1. states' = IF d.next = NoSetup THEN states
                    ELSE states \cup {[setup |-> SetupOf[e], receipt |-> i,
                           state |-> d.next, version |-> d.version, at |-> OccurredAt[e]]}
      BY <2>2 DEF CommitsAs
    <3> QED BY <2>3, <3>1 DEF EndingInv
  <2>5. \A k \in DOMAIN receipts' : receipts'[k].recorded <= MaxReceipts
    BY <2>2 DEF CommitsAs, EndingInv
  <2> QED BY <2>4, <2>5 DEF EndingInv
<1>2. ASSUME NEW r \in Receivers, Confirm(r)
      PROVE  EndingInv'
  <2>1. PICK i : i = rc[r].receipt
    OBVIOUS
  <2>2. /\ receipts' \in Seq(ReceiptRows) /\ Len(receipts') = Len(receipts)
        /\ \A k \in DOMAIN receipts : receipts'[k].recorded = receipts[k].recorded
        /\ states' = states
    BY <1>2, <2>1, ConfirmFacts
  <2>3. DOMAIN receipts' = DOMAIN receipts
    BY <2>2, ReceiptRowType, LenProperties
  <2> QED BY <2>2, <2>3 DEF EndingInv
<1>3. ASSUME NEW r \in Receivers, Receive(r) \/ Replay(r)
      PROVE  EndingInv'
  <2> DEFINE n == Len(receipts) + 1
  <2>1. PICK e \in Events, recorded \in Nat :
          Store(r, e, recorded) /\ recorded <= MaxReceipts
    <3>1. Receive(r) => n <= MaxReceipts /\ n \in Nat
      BY ReceiptRowType, BoundsAssumption DEF Receive, Store
    <3>2. \A j \in DOMAIN receipts : receipts[j].event \in Events /\ receipts[j].recorded \in Nat
            /\ receipts[j].recorded <= MaxReceipts
      BY ReceiptRowType DEF EndingInv
    <3> QED BY <1>3, <3>1, <3>2 DEF Receive, Replay
  <2>2. /\ receipts' \in Seq(ReceiptRows) /\ Len(receipts') = n
        /\ \A k \in DOMAIN receipts : receipts'[k] = receipts[k]
        /\ receipts'[n] = [event |-> e, recorded |-> recorded,
                           status |-> "NONE", outcome |-> "NONE"]
    BY <2>1, StoreType, ReceiptRowType
  <2>3. \A k \in DOMAIN receipts' : k \in DOMAIN receipts \/ k = n
    BY <2>2, LenProperties, ReceiptRowType
  <2>4. states' = states
    BY <2>1 DEF Store
  <2> HIDE DEF n
  <2>5. receipts'[n].recorded <= MaxReceipts
    BY <2>1, <2>2
  <2> QED BY <2>2, <2>3, <2>4, <2>5 DEF EndingInv
<1>4. ASSUME QuietReceipts, DOMAIN receipts' = DOMAIN receipts
      PROVE  EndingInv'
  BY <1>4 DEF QuietReceipts, EndingInv
<1>5. \/ \E r \in Receivers : Receive(r) \/ Replay(r) \/ CommitUnit(r) \/ Confirm(r)
      \/ QuietReceipts /\ DOMAIN receipts' = DOMAIN receipts
  BY StepCases, KeepsReceipts
<1> QED BY <1>1, <1>2, <1>3, <1>4, <1>5

\* A setup with a confirmed ending stays ended: no later unit adds a state or a
\* dispatch to it.
THEOREM EndingsFinal == Spec => EndingIsFinal
<1> DEFINE I == TypeOK /\ PhaseInv /\ EndingInv
           A == \A i \in DOMAIN receipts :
                  /\ receipts[i].outcome = "NONE" /\ receipts'[i].outcome = "ACCEPTED"
                  /\ EventType[receipts[i].event] \notin Telemetry
                  => \A s \in ConfirmedRows(SetupOf[receipts[i].event]) :
                        s.state \notin TerminalStates
<1>1. Init => I
  <2>1. Init => EndingInv
    BY EmptySeq DEF Init, EndingInv
  <2> QED BY <2>1, TypeInit, PhaseInit
<1>2. I /\ [Next]_vars => I'
  BY TypeStep, PhaseStep, EndingStep
<1>3. I /\ [Next]_vars => [A]_vars
  <2> SUFFICES ASSUME I, [Next]_vars,
                      NEW k \in DOMAIN receipts, receipts[k].outcome = "NONE",
                      receipts'[k].outcome = "ACCEPTED",
                      EventType[receipts[k].event] \notin Telemetry
               PROVE  ConfirmedRows(SetupOf[receipts[k].event]) = {}
    OBVIOUS
  <2>1. CASE QuietReceipts
    BY <2>1 DEF QuietReceipts
  <2>2. ASSUME NEW r \in Receivers, Confirm(r)
        PROVE  FALSE
    <3>1. PICK i : i = rc[r].receipt
      OBVIOUS
    <3>2. receipts'[k].outcome = receipts[k].outcome
      BY <2>2, <3>1, ConfirmFacts
    <3> QED BY <3>2
  <2>3. ASSUME NEW r \in Receivers, CommitUnit(r)
        PROVE  ConfirmedRows(SetupOf[receipts[k].event]) = {}
    <3>1. PICK i \in DOMAIN receipts, e \in Events : \E d \in Decisions(e) :
            CommitsAs(i, e, d) /\ receipts[i].event = e
      BY <2>3, CommitEffects
    <3>2. PICK d \in Decisions(e) : CommitsAs(i, e, d) /\ receipts[i].event = e
      BY <3>1
    <3>3. k = i /\ d.outcome = "ACCEPTED"
      BY <3>2 DEF CommitsAs
    <3>4. CurrentSetup(SetupOf[e]) = {}
      BY <3>2, <3>3, EndingDecisions
    <3> QED BY <3>2, <3>3, <3>4, SomeRowIsCurrent
  <2> QED BY <2>1, <2>2, <2>3, StepCases
<1>4. EndingIsFinal <=> [][A]_vars
  BY DEF EndingIsFinal
<1> QED BY <1>1, <1>2, <1>3, <1>4, PTL DEF Spec

----------------------------------------------------------------------------
(* Consumers *)

\* A claim in hand is the latest of the row it holds, and a row has been
\* claimed more often than its consumers have reported failures.
ClaimInv ==
    /\ \A v \in Evidence :
         /\ outbox[v].failures <= outbox[v].attempts
         /\ outbox[v].status = "PROCESSING" => outbox[v].failures < outbox[v].attempts
         /\ outbox[v].status # "DEAD_LETTER" => outbox[v].failures < MaxAttempts
         /\ outbox[v].failures <= MaxAttempts
    /\ \A w \in Workers, v \in Evidence :
         HoldsRow(w, v) /\ hand[w] # None /\ hand[w].evidence = v =>
           hand[w].attempt = outbox[v].attempts

\* Receivers do not disturb claims: a row they write is a new one, and all they
\* change of another is its release.
LEMMA ReceiversKeepClaims ==
    ASSUME TypeOK, NEW r \in Receivers, Receiver(r)
    PROVE  /\ hand' = hand
           /\ \A v \in Evidence :
                \/ /\ outbox'[v].status = outbox[v].status
                   /\ outbox'[v].attempts = outbox[v].attempts
                   /\ outbox'[v].failures = outbox[v].failures
                   /\ outbox'[v].by = outbox[v].by
                \/ /\ outbox[v].status = "ABSENT"
                   /\ outbox'[v].status = "PENDING"
                   /\ outbox'[v].attempts = 0 /\ outbox'[v].failures = 0
<1>1. ASSUME UNCHANGED <<outbox, hand>>
      PROVE  /\ hand' = hand
             /\ \A v \in Evidence :
                  /\ outbox'[v].status = outbox[v].status
                  /\ outbox'[v].attempts = outbox[v].attempts
                  /\ outbox'[v].failures = outbox[v].failures
                  /\ outbox'[v].by = outbox[v].by
  BY <1>1
<1>2. CASE Receive(r) \/ Replay(r)
  <2>1. PICK e \in Events, recorded \in Nat : Store(r, e, recorded)
    BY <1>2, DeliveryStores
  <2> QED BY <1>1, <2>1 DEF Store
<1>3. CASE \/ Refuse(r) \/ Begin(r) \/ OpenFails(r) \/ UnitFails(r)
           \/ ConfirmFails(r) \/ Report(r) \/ CrashReceiver(r)
  BY <1>1, <1>3 DEF Refuse, Begin, OpenFails, UnitFails, ConfirmFails, Report, CrashReceiver
<1>4. CASE Confirm(r)
  <2>1. PICK i : i = rc[r].receipt
    OBVIOUS
  <2>2. /\ hand' = hand
        /\ \A v \in Evidence :
             /\ outbox'[v].status = outbox[v].status
             /\ outbox'[v].attempts = outbox[v].attempts
             /\ outbox'[v].failures = outbox[v].failures
             /\ outbox'[v].by = outbox[v].by
    BY <1>4, <2>1, ConfirmFacts
  <2> QED BY <2>2
<1>5. CASE CommitUnit(r)
  <2>1. PICK i, e : i = rc[r].receipt /\ e = receipts[i].event
    OBVIOUS
  <2>2. \E d \in Decisions(e) : CommitsAs(i, e, d)
    BY <1>5, <2>1, CommitFacts
  <2>3. PICK d \in Decisions(e) : CommitsAs(i, e, d)
    BY <2>2
  <2>4. /\ i \in Nat /\ hand' = hand
        /\ d.dispatch => outbox[EvidenceOf[e]].status = "ABSENT"
        /\ outbox' = IF d.dispatch THEN [outbox EXCEPT ![EvidenceOf[e]] = NewRow(i)] ELSE outbox
    BY <2>3, ReceiptRowType DEF CommitsAs
  <2>5. NewRow(i).status = "PENDING" /\ NewRow(i).attempts = 0 /\ NewRow(i).failures = 0
    BY <2>4, NewRowType
  <2>6. outbox \in [Evidence -> OutboxRows]
    BY DEF TypeOK, OutboxRows
  <2>7. \A v \in Evidence : \/ outbox'[v] = outbox[v]
                            \/ outbox[v].status = "ABSENT" /\ outbox'[v] = NewRow(i)
    BY <2>4, <2>6
  <2> QED BY <2>4, <2>5, <2>7
<1> QED BY <1>2, <1>3, <1>4, <1>5 DEF Receiver

\* Every step keeps the claim invariant.
LEMMA ClaimStep ==
    ASSUME TypeOK, ClaimInv, [Next]_vars
    PROVE  ClaimInv'
<1>1. /\ hand \in [Workers -> Hands] /\ MaxAttempts \in Nat /\ MaxAttempts > 0
      /\ \A v \in Evidence : outbox[v].attempts \in Nat /\ outbox[v].failures \in Nat
  BY BoundsAssumption DEF TypeOK, Hands
<1>2. ASSUME NEW r \in Receivers, Receiver(r)
      PROVE  ClaimInv'
  <2>1. /\ hand' = hand
        /\ \A v \in Evidence :
             \/ /\ outbox'[v].status = outbox[v].status
                /\ outbox'[v].attempts = outbox[v].attempts
                /\ outbox'[v].failures = outbox[v].failures
                /\ outbox'[v].by = outbox[v].by
             \/ /\ outbox'[v].status = "PENDING"
                /\ outbox'[v].attempts = 0 /\ outbox'[v].failures = 0
    BY <1>2, ReceiversKeepClaims
  <2> QED BY <1>1, <2>1 DEF ClaimInv, HoldsRow
<1>3. ASSUME NEW w \in Workers, NEW v \in Evidence, ClaimOutbox(w, v)
      PROVE  ClaimInv'
  <2>1. /\ Claimable(v)
        /\ \A u \in Evidence : u # v => outbox'[u] = outbox[u]
        /\ outbox'[v].status = "PROCESSING" /\ outbox'[v].by = w
        /\ outbox'[v].attempts = outbox[v].attempts + 1
        /\ outbox'[v].failures = outbox[v].failures
        /\ hand' = [hand EXCEPT ![w] = [evidence |-> v, attempt |-> outbox[v].attempts + 1]]
    BY <1>3, ClaimFacts
  <2>2. /\ hand'[w] = [evidence |-> v, attempt |-> outbox[v].attempts + 1]
        /\ \A x \in Workers : x # w => hand'[x] = hand[x]
    BY <1>1, <2>1
  <2>3. hand'[w].evidence = v /\ hand'[w].attempt = outbox[v].attempts + 1
    BY <2>2
  <2>4. ASSUME NEW x \in Workers, NEW u \in Evidence,
               HoldsRow(x, u)', hand'[x] # None, hand'[x].evidence = u
        PROVE  hand'[x].attempt = outbox'[u].attempts
    <3>1. CASE u = v
      BY <2>1, <2>3, <2>4, <3>1 DEF HoldsRow
    <3>2. CASE u # v
      <4>1. x # w
        BY <2>3, <2>4, <3>2
      <4> QED BY <2>1, <2>2, <2>4, <3>2, <4>1 DEF ClaimInv, HoldsRow
    <3> QED BY <3>1, <3>2
  <2>5. \A u \in Evidence :
          /\ outbox'[u].failures <= outbox'[u].attempts
          /\ outbox'[u].status = "PROCESSING" => outbox'[u].failures < outbox'[u].attempts
          /\ outbox'[u].status # "DEAD_LETTER" => outbox'[u].failures < MaxAttempts
          /\ outbox'[u].failures <= MaxAttempts
    BY <1>1, <2>1 DEF ClaimInv, Claimable
  <2> QED BY <2>4, <2>5 DEF ClaimInv
<1>4. ASSUME NEW w \in Workers, Deliver(w) \/ Fail(w)
      PROVE  ClaimInv'
  <2>1. PICK v : v = hand[w].evidence
    OBVIOUS
  <2>2. /\ hand' = [hand EXCEPT ![w] = None]
        /\ \A u \in Evidence :
             \/ outbox'[u] = outbox[u]
             \/ /\ u = v /\ HoldsRow(w, v)
                /\ outbox'[u].status \in {"DELIVERED", "FAILED", "DEAD_LETTER"}
                /\ outbox'[u].attempts = outbox[u].attempts
                /\ \/ outbox'[u].failures = outbox[u].failures
                   \/ /\ outbox'[u].failures = outbox[u].failures + 1
                      /\ AtLimit(u) /\ outbox'[u].status = "DEAD_LETTER"
                   \/ /\ outbox'[u].failures = outbox[u].failures + 1
                      /\ ~AtLimit(u) /\ outbox'[u].status = "FAILED"
    BY <1>4, <2>1, AnswerSteps
  <2>3. \A x \in Workers : hand'[x] = None \/ hand'[x] = hand[x]
    BY <1>1, <2>2
  <2>4. ASSUME NEW u \in Evidence
        PROVE  /\ outbox'[u].failures <= outbox'[u].attempts
               /\ outbox'[u].status = "PROCESSING" => outbox'[u].failures < outbox'[u].attempts
               /\ outbox'[u].status # "DEAD_LETTER" => outbox'[u].failures < MaxAttempts
               /\ outbox'[u].failures <= MaxAttempts
    <3>1. CASE outbox'[u] = outbox[u]
      BY <3>1 DEF ClaimInv
    <3>2. CASE outbox'[u] # outbox[u]
      <4>1. outbox[u].status = "PROCESSING"
        BY <2>2, <3>2 DEF HoldsRow
      <4>2. outbox[u].failures < outbox[u].attempts /\ outbox[u].failures < MaxAttempts
        BY <4>1 DEF ClaimInv
      <4> QED BY <1>1, <2>2, <3>2, <4>2 DEF AtLimit
    <3> QED BY <3>1, <3>2
  <2>5. \A x \in Workers, u \in Evidence :
          HoldsRow(x, u)' /\ hand'[x] # None /\ hand'[x].evidence = u =>
            hand'[x].attempt = outbox'[u].attempts
    BY <2>2, <2>3 DEF ClaimInv, HoldsRow
  <2> QED BY <2>4, <2>5 DEF ClaimInv
<1>5. ASSUME NEW w \in Workers, CrashWorker(w)
      PROVE  ClaimInv'
  <2>1. outbox' = outbox /\ \A x \in Workers : hand'[x] = None \/ hand'[x] = hand[x]
    BY <1>1, <1>5 DEF CrashWorker
  <2> QED BY <2>1 DEF ClaimInv, HoldsRow
<1>6. ASSUME RecoverOutbox \/ \E v \in Evidence : RetryOutbox(v)
      PROVE  ClaimInv'
  <2>1. /\ \A u \in Evidence :
             \/ outbox'[u] = outbox[u]
             \/ /\ \/ outbox[u].status = "PROCESSING" /\ outbox'[u].status = "FAILED"
                   \/ outbox[u].status = "FAILED" /\ outbox'[u].status = "PENDING"
                /\ outbox'[u].attempts = outbox[u].attempts
                /\ outbox'[u].failures = outbox[u].failures
        /\ hand' = hand
    BY <1>6, OutboxOperator
  <2> QED BY <1>1, <2>1 DEF ClaimInv, HoldsRow
<1>7. ASSUME UNCHANGED <<outbox, hand>>
      PROVE  ClaimInv'
  BY <1>7 DEF ClaimInv, HoldsRow
<1> QED
  BY <1>2, <1>3, <1>4, <1>5, <1>6, <1>7 DEF Next, Worker, Operator, RecoverReceipts, vars

\* Initially nothing is claimed.
LEMMA ClaimInit == Init => ClaimInv
BY BoundsAssumption DEF Init, ClaimInv, NoRow, HoldsRow

\* However claims are lost and recovered, consumers report at most
\* max_outbox_attempts failures of a row, and the last makes it a dead letter.
THEOREM FailuresBudgeted == Spec => []FailureBudget
<1>1. TypeOK /\ ClaimInv /\ [Next]_vars => TypeOK' /\ ClaimInv'
  BY TypeStep, ClaimStep
<1>2. TypeOK /\ ClaimInv => FailureBudget
  <2>1. TypeOK => \A v \in Evidence : outbox[v].failures \in Nat
    BY DEF TypeOK
  <2>2. MaxAttempts \in Nat
    BY BoundsAssumption
  <2> QED BY <2>1, <2>2 DEF ClaimInv, FailureBudget
<1> QED BY TypeInit, ClaimInit, <1>1, <1>2, PTL DEF Spec

\* The answer of a consumer whose claim was recovered, and perhaps handed to
\* another, does not decide the row.
THEOREM LatestClaim == Spec => LatestClaimAnswers
<1> DEFINE A == \A v \in Evidence :
                  outbox[v].status = "PROCESSING" /\ outbox'[v].status # "PROCESSING" =>
                    \/ outbox'[v].status = "FAILED" /\ outbox'[v].failures = outbox[v].failures
                    \/ \E w \in Workers :
                         hand[w] = [evidence |-> v, attempt |-> outbox[v].attempts]
<1>1. TypeOK /\ ClaimInv /\ [Next]_vars => TypeOK' /\ ClaimInv'
  BY TypeStep, ClaimStep
<1>2. TypeOK /\ ClaimInv /\ [Next]_vars => [A]_vars
  <2> SUFFICES ASSUME TypeOK, ClaimInv, [Next]_vars, NEW v \in Evidence,
                      outbox[v].status = "PROCESSING", outbox'[v].status # "PROCESSING"
               PROVE  \/ /\ outbox'[v].status = "FAILED"
                         /\ outbox'[v].failures = outbox[v].failures
                      \/ \E w \in Workers :
                           hand[w] = [evidence |-> v, attempt |-> outbox[v].attempts]
    OBVIOUS
  <2>1. \A r \in Receivers : ~Receiver(r)
    BY ReceiversKeepClaims
  <2>2. \A w \in Workers, u \in Evidence : ~ClaimOutbox(w, u)
    BY ClaimFacts
  <2>3. ASSUME NEW w \in Workers, Deliver(w) \/ Fail(w)
        PROVE  hand[w] = [evidence |-> v, attempt |-> outbox[v].attempts]
    <3>1. PICK u : u = hand[w].evidence
      OBVIOUS
    <3>2. hand[w] # None /\ (outbox'[v] = outbox[v] \/ (v = u /\ HoldsRow(w, u)))
      BY <2>3, <3>1, AnswerSteps
    <3>3. hand[w].evidence = v /\ HoldsRow(w, v)
      BY <3>1, <3>2
    <3>4. hand[w].attempt = outbox[v].attempts
      BY <3>2, <3>3 DEF ClaimInv
    <3>5. hand[w] \in [evidence : Evidence, attempt : Nat]
      BY <3>2 DEF TypeOK
    <3> QED BY <3>3, <3>4, <3>5
  <2>4. ASSUME RecoverOutbox \/ \E u \in Evidence : RetryOutbox(u)
        PROVE  outbox'[v].status = "FAILED" /\ outbox'[v].failures = outbox[v].failures
    BY <2>4, OutboxOperator
  <2>5. ~\E w \in Workers : CrashWorker(w)
    BY DEF CrashWorker
  <2>6. ~RecoverReceipts /\ ~UNCHANGED vars
    BY DEF RecoverReceipts, vars
  <2> QED BY <2>1, <2>2, <2>3, <2>4, <2>5, <2>6 DEF Next, Worker, Operator
<1>3. LatestClaimAnswers <=> [][A]_vars
  BY DEF LatestClaimAnswers
<1> QED BY TypeInit, ClaimInit, <1>1, <1>2, <1>3, PTL DEF Spec
=============================================================================
