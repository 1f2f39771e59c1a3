---------------------------- MODULE EventIngest -----------------------------
(***************************************************************************)
(* Ingest of Wire Event V1 and its outbox (ingest/project_a).              *)
(*                                                                         *)
(* A receiver (the HTTP service, or a committed replay in a process of its *)
(* own) stores the raw receipt, claims a receipt transaction, runs one     *)
(* BEGIN IMMEDIATE unit that deduplicates the event and writes its effects *)
(* and, in another transaction, confirms the unit, which releases its      *)
(* outbox row.  Consumers claim released rows and answer them, and an      *)
(* operator recovers what was abandoned.  Every transaction is one action, *)
(* and a receiver, a consumer or the operator may stop between any two.    *)
(***************************************************************************)
EXTENDS Integers, Sequences, SetupLifecycle

CONSTANTS
    Events,        \* wire events by canonical content hash
    Evidence,      \* semantic evidence hashes
    Setups,        \* setup identities
    EventType,     \* event -> event_type
    EvidenceOf,    \* event -> semantic evidence hash
    SetupOf,       \* event -> setup_id
    OccurredAt,    \* event -> occurred_at
    Receivers,     \* processes or threads that run receive_v1
    Workers,       \* outbox consumers
    MaxAttempts,   \* config.max_outbox_attempts (5 by default)
    MaxReceipts,   \* bound: raw receipts
    MaxClaims,     \* bound: claims of one outbox row
    None           \* an idle receiver, an empty hand

ASSUME EventsAssumption ==
    /\ EventType \in [Events -> EventTypes]
    /\ EvidenceOf \in [Events -> Evidence]
    /\ SetupOf \in [Events -> Setups]
    /\ OccurredAt \in [Events -> Int]
ASSUME EvidenceAssumption ==   \* the projection holds the setup and the type
    \A d, e \in Events : EvidenceOf[d] = EvidenceOf[e] =>
        SetupOf[d] = SetupOf[e] /\ EventType[d] = EventType[e]
ASSUME BoundsAssumption ==
    MaxAttempts \in Nat \ {0} /\ MaxReceipts \in Nat /\ MaxClaims \in Nat
ASSUME NoneAssumption == None \notin Nat /\ None \notin Workers

VARIABLES
    receipts,   \* raw receipts, each with its receipt transaction
    exact,      \* event -> receipt that owns its canonical and exact row, or 0
    semantic,   \* event -> receipt that owns its semantic row, or 0
    states,     \* rows of project_a_setup_state_v1
    outbox,     \* evidence (the dispatch key) -> its outbox row
    rc,         \* receiver -> its step and its receipt
    hand        \* worker -> the claim it is working on

vars == <<receipts, exact, semantic, states, outbox, rc, hand>>

----------------------------------------------------------------------------
Statuses == {"NONE", "CLAIMED", "COMMITTED_UNCONFIRMED", "CONFIRMED",
             "ROLLED_BACK", "COMMIT_UNKNOWN", "ABANDONED"}
Outcomes == {"NONE", "ACCEPTED", "DUPLICATE", "REJECTED"}

\* Statuses whose dedupe rows count as duplicates in reserve_exact and
\* reserve_semantic.
Counted == {"CONFIRMED", "COMMITTED_UNCONFIRMED", "COMMIT_UNKNOWN"}

IdleReceiver == [pc |-> "idle", receipt |-> None]
NoRow == [status |-> "ABSENT", released |-> FALSE, receipt |-> 0, attempts |-> 0,
          failures |-> 0, by |-> None]

Init ==
    /\ receipts = <<>>
    /\ exact = [e \in Events |-> 0]
    /\ semantic = [e \in Events |-> 0]
    /\ states = {}
    /\ outbox = [v \in Evidence |-> NoRow]
    /\ rc = [r \in Receivers |-> IdleReceiver]
    /\ hand = [w \in Workers |-> None]

----------------------------------------------------------------------------
(* Receivers *)

At(r, pc) == rc[r].pc = pc
Move(r, pc) == rc' = [rc EXCEPT ![r].pc = pc]
Stop(r) == rc' = [rc EXCEPT ![r] = IdleReceiver]

\* _store_raw; recorded is the clock of the receiver.
Store(r, event, recorded) ==
    /\ At(r, "idle") /\ Len(receipts) < MaxReceipts
    /\ receipts' = Append(receipts, [event |-> event, recorded |-> recorded,
                                     status |-> "NONE", outcome |-> "NONE"])
    /\ rc' = [rc EXCEPT ![r] = [pc |-> "stored", receipt |-> Len(receipts) + 1]]
    /\ UNCHANGED <<exact, semantic, states, outbox, hand>>

\* A delivery takes the time of its arrival.
Receive(r) == \E e \in Events : Store(r, e, Len(receipts) + 1)

\* A committed replay delivers a stored receipt again, at its original time.
Replay(r) == \E j \in DOMAIN receipts : Store(r, receipts[j].event, receipts[j].recorded)

\* The receipt is refused before its transaction begins: shape, freshness, or
\* a database error in begin_receipt_transaction.
Refuse(r) ==
    /\ At(r, "stored")
    /\ Stop(r)
    /\ UNCHANGED <<receipts, exact, semantic, states, outbox, hand>>

\* begin_receipt_transaction.
Begin(r) ==
    /\ At(r, "stored")
    /\ receipts' = [receipts EXCEPT ![rc[r].receipt].status = "CLAIMED"]
    /\ Move(r, "claimed")
    /\ UNCHANGED <<exact, semantic, states, outbox, hand>>

\* _set_claim_status: never over CONFIRMED, and a database error is ignored.
Marked(i, status) ==
    IF receipts[i].status = "CONFIRMED"
    THEN receipts ELSE [receipts EXCEPT ![i].status = status]
MarkedOrNot(i, status) == {receipts, Marked(i, status)}

\* BEGIN IMMEDIATE fails.
OpenFails(r) ==
    /\ At(r, "claimed")
    /\ receipts' \in MarkedOrNot(rc[r].receipt, "ABANDONED")
    /\ Stop(r)
    /\ UNCHANGED <<exact, semantic, states, outbox, hand>>

CountsAsDuplicate(i) == i # 0 /\ receipts[i].status \in Counted

ExactDuplicate(e) == CountsAsDuplicate(exact[e])
SemanticDuplicate(e) ==
    \E d \in Events : EvidenceOf[d] = EvidenceOf[e] /\ CountsAsDuplicate(semantic[d])

\* _current_setup: the confirmed row of the highest version, the latest one
\* recorded among those; recorded_at may tie.
ConfirmedRows(setup) ==
    {s \in states : s.setup = setup /\ receipts[s.receipt].status = "CONFIRMED"}
NotAfter(s, t) ==
    \/ s.version < t.version
    \/ /\ s.version = t.version
       /\ receipts[s.receipt].recorded <= receipts[t.receipt].recorded

\* Mutant: the join with the receipt transaction is missing.
CurrentOfAnyUnit(setup) ==
    LET rows == {s \in states : s.setup = setup}
    IN {s \in rows : \A t \in rows : NotAfter(t, s)}

CurrentSetup(setup) ==
    {s \in ConfirmedRows(setup) : \A t \in ConfirmedRows(setup) : NotAfter(t, s)}

\* The transition of V1: an ending is accepted for a setup without a state.
V1Transition(current, type) ==
    IF current = NoSetup /\ type \in Endings
    THEN [allowed |-> TRUE, next |-> type, persist |-> TRUE, dispatch |-> FALSE]
    ELSE Transition(current, type)

Duplicated == [outcome |-> "DUPLICATE", next |-> NoSetup, version |-> 0, dispatch |-> FALSE]
Rejected == [Duplicated EXCEPT !.outcome = "REJECTED"]

\* Mutants: any transition persists its state; a transition is not asked for.
PersistAny(e, current, version, at) ==
    LET t == V1Transition(current, EventType[e])
    IN IF OccurredAt[e] < at \/ ~t.allowed
       THEN Rejected
       ELSE [outcome |-> "ACCEPTED", next |-> IF t.persist THEN t.next ELSE NoSetup,
             version |-> version + 1, dispatch |-> t.dispatch]
AcceptAny(e, current, version, at) ==
    LET t == V1Transition(current, EventType[e])
    IN IF OccurredAt[e] < at
       THEN Rejected
       ELSE [outcome |-> "ACCEPTED",
             next |-> IF t.persist /\ EventType[e] \in Lifecycle THEN t.next ELSE NoSetup,
             version |-> version + 1, dispatch |-> t.dispatch]

\* _persist_unit for a new event, given the state, version and time of its
\* setup: only lifecycle events persist a state and only readiness dispatches.
Judgement(e, current, version, at) ==
    LET t == V1Transition(current, EventType[e])
    IN IF OccurredAt[e] < at \/ ~t.allowed
       THEN Rejected
       ELSE [outcome |-> "ACCEPTED",
             next |-> IF t.persist /\ EventType[e] \in Lifecycle THEN t.next ELSE NoSetup,
             version |-> version + 1,
             dispatch |-> t.dispatch]

Decisions(e) ==
    IF ExactDuplicate(e) \/ SemanticDuplicate(e)
    THEN {Duplicated}
    ELSE IF CurrentSetup(SetupOf[e]) = {}
    THEN {Judgement(e, NoSetup, 0, OccurredAt[e])}
    ELSE {Judgement(e, s.state, s.version, s.at) : s \in CurrentSetup(SetupOf[e])}

\* A unique key of exact_dedupe, canonical_events or semantic_dedupe is taken
\* by a row that does not count as a duplicate.
Collides(e) ==
    \/ ~ExactDuplicate(e) /\ exact[e] # 0
    \/ ~SemanticDuplicate(e) /\ semantic[e] # 0

\* The unit: reserve_exact, reserve_semantic, persist_decision and commit.
CommitUnit(r) ==
    LET i == rc[r].receipt
        e == receipts[i].event
        v == EvidenceOf[e]
    IN /\ At(r, "claimed") /\ ~Collides(e)
       /\ \E d \in Decisions(e) :
            /\ d.dispatch => outbox[v].status = "ABSENT"
            /\ states' = IF d.next = NoSetup THEN states
                         ELSE states \cup {[setup |-> SetupOf[e], receipt |-> i,
                                state |-> d.next, version |-> d.version, at |-> OccurredAt[e]]}
            /\ outbox' = IF d.dispatch
                         THEN [outbox EXCEPT ![v] =
                                [NoRow EXCEPT !.status = "PENDING", !.receipt = i]]
                         ELSE outbox
            /\ receipts' = [receipts EXCEPT ![i].status = "COMMITTED_UNCONFIRMED",
                                            ![i].outcome = d.outcome]
       /\ exact' = IF ExactDuplicate(e) THEN exact ELSE [exact EXCEPT ![e] = i]
       /\ semantic' = IF SemanticDuplicate(e) THEN semantic ELSE [semantic EXCEPT ![e] = i]
       /\ Move(r, "committed")
       /\ UNCHANGED hand

\* A unique key is taken or the database fails: the unit is rolled back.
UnitFails(r) ==
    /\ At(r, "claimed")
    /\ receipts' \in MarkedOrNot(rc[r].receipt, "ROLLED_BACK")
    /\ Stop(r)
    /\ UNCHANGED <<exact, semantic, states, outbox, hand>>

\* Mutant: an abandoned unit is confirmed as well.
ConfirmableLate(i) == receipts[i].status \in {"COMMITTED_UNCONFIRMED", "ABANDONED"}

\* confirm_point_of_use: only a unit that is still COMMITTED_UNCONFIRMED.
Confirmable(i) == receipts[i].status = "COMMITTED_UNCONFIRMED"

Confirm(r) ==
    LET i == rc[r].receipt
    IN /\ At(r, "committed") /\ Confirmable(i)
       /\ receipts' = [receipts EXCEPT ![i].status = "CONFIRMED"]
       /\ outbox' = [v \in Evidence |-> IF outbox[v].receipt = i
                                        THEN [outbox[v] EXCEPT !.released = TRUE]
                                        ELSE outbox[v]]
       /\ Move(r, "confirmed")
       /\ UNCHANGED <<exact, semantic, states, hand>>

\* The unit is no longer confirmable, or the database fails: mark_commit_unknown.
ConfirmFails(r) ==
    /\ At(r, "committed")
    /\ receipts' \in MarkedOrNot(rc[r].receipt, "COMMIT_UNKNOWN")
    /\ Stop(r)
    /\ UNCHANGED <<exact, semantic, states, outbox, hand>>

\* The answer is read back; when that fails the claim is marked as well.
Report(r) ==
    /\ At(r, "confirmed")
    /\ receipts' \in MarkedOrNot(rc[r].receipt, "COMMIT_UNKNOWN")
    /\ Stop(r)
    /\ UNCHANGED <<exact, semantic, states, outbox, hand>>

CrashReceiver(r) ==
    /\ ~At(r, "idle")
    /\ Stop(r)
    /\ UNCHANGED <<receipts, exact, semantic, states, outbox, hand>>

----------------------------------------------------------------------------
(* Outbox consumers *)

\* Mutant: release_authorized is not looked at.
ClaimableHeld(v) == outbox[v].status \in {"PENDING", "FAILED"}

Claimable(v) == outbox[v].status \in {"PENDING", "FAILED"} /\ outbox[v].released

CreatedAt(v) == receipts[outbox[v].receipt].recorded

\* claim_outbox: the oldest row that is due.  A PENDING row always is, and a
\* FAILED one once its retry delay has passed.
ClaimOutbox(w, v) ==
    /\ hand[w] = None
    /\ Claimable(v) /\ outbox[v].attempts < MaxClaims
    /\ \A u \in Evidence : Claimable(u) /\ outbox[u].status = "PENDING" =>
                             CreatedAt(v) <= CreatedAt(u)
    /\ outbox' = [outbox EXCEPT ![v].status = "PROCESSING", ![v].attempts = @ + 1,
                                ![v].by = w]
    /\ hand' = [hand EXCEPT ![w] = [evidence |-> v, attempt |-> outbox[v].attempts + 1]]
    /\ UNCHANGED <<receipts, exact, semantic, states, rc>>

\* Mutant: claimed_by is not compared.
AnyoneHolds(w, v) == outbox[v].status = "PROCESSING" /\ w \in Workers

HoldsRow(w, v) == outbox[v].status = "PROCESSING" /\ outbox[v].by = w

Answered(row, status, failed) ==
    [row EXCEPT !.status = status, !.by = None, !.failures = @ + failed]

\* The answer of a worker that no longer holds the row changes nothing.
Answer(w, row) ==
    /\ hand[w] # None
    /\ hand' = [hand EXCEPT ![w] = None]
    /\ outbox' = IF HoldsRow(w, hand[w].evidence)
                 THEN [outbox EXCEPT ![hand[w].evidence] = row] ELSE outbox
    /\ UNCHANGED <<receipts, exact, semantic, states, rc>>

\* deliver_outbox.
Deliver(w) ==
    hand[w] # None /\ Answer(w, Answered(outbox[hand[w].evidence], "DELIVERED", 0))

\* Mutant: one attempt too many.
PastLimit(v) == outbox[v].attempts > MaxAttempts

AtLimit(v) == outbox[v].attempts >= MaxAttempts

\* fail_outbox: retried after a delay, or a dead letter at the limit.
Fail(w) ==
    /\ hand[w] # None
    /\ LET v == hand[w].evidence
       IN IF AtLimit(v)
          THEN Answer(w, Answered(outbox[v], "DEAD_LETTER", 1))
          ELSE Answer(w, Answered(outbox[v], "FAILED", 1))

CrashWorker(w) ==
    /\ hand[w] # None
    /\ hand' = [hand EXCEPT ![w] = None]
    /\ UNCHANGED <<receipts, exact, semantic, states, outbox, rc>>

----------------------------------------------------------------------------
(* Operator *)

\* recover_abandoned_claims is two transactions.  The clock shows in what is
\* stale alone, and time may pass at any point, so each takes any cutoff.

\* recover_abandoned_transactions.
Abandoned(i, cutoff) ==
    /\ receipts[i].status \in {"CLAIMED", "COMMITTED_UNCONFIRMED"}
    /\ receipts[i].recorded < cutoff

RecoverReceipts ==
    /\ \E cutoff \in 1..(Len(receipts) + 1) :
         receipts' = [i \in DOMAIN receipts |->
             IF Abandoned(i, cutoff)
             THEN [receipts[i] EXCEPT !.status = "ABANDONED"] ELSE receipts[i]]
    /\ UNCHANGED <<exact, semantic, states, outbox, rc, hand>>

\* Claims older than the timeout become FAILED; the attempt limit is not
\* looked at.
RecoverOutbox ==
    /\ \E stale \in SUBSET {v \in Evidence : outbox[v].status = "PROCESSING"} :
         outbox' = [v \in Evidence |->
             IF v \in stale THEN Answered(outbox[v], "FAILED", 0) ELSE outbox[v]]
    /\ UNCHANGED <<receipts, exact, semantic, states, rc, hand>>

\* retry_outbox.
RetryOutbox(v) ==
    /\ outbox[v].status = "FAILED"
    /\ outbox' = [outbox EXCEPT ![v].status = "PENDING"]
    /\ UNCHANGED <<receipts, exact, semantic, states, rc, hand>>

----------------------------------------------------------------------------
Receiver(r) ==
    \/ Receive(r) \/ Replay(r) \/ Refuse(r) \/ Begin(r) \/ OpenFails(r)
    \/ CommitUnit(r) \/ UnitFails(r) \/ Confirm(r) \/ ConfirmFails(r)
    \/ Report(r) \/ CrashReceiver(r)

Worker(w) ==
    \/ \E v \in Evidence : ClaimOutbox(w, v)
    \/ Deliver(w) \/ Fail(w) \/ CrashWorker(w)

Operator ==
    \/ RecoverReceipts \/ RecoverOutbox
    \/ \E v \in Evidence : RetryOutbox(v)

Next ==
    \/ \E r \in Receivers : Receiver(r)
    \/ \E w \in Workers : Worker(w)
    \/ Operator

Spec == Init /\ [][Next]_vars

----------------------------------------------------------------------------
(* Properties *)

TypeOK ==
    /\ receipts \in Seq([event : Events, recorded : Nat, status : Statuses, outcome : Outcomes])
    /\ exact \in [Events -> Nat]
    /\ semantic \in [Events -> Nat]
    /\ \A e \in Events : {exact[e], semantic[e]} \subseteq 0..Len(receipts)
    /\ states \subseteq [setup : Setups, receipt : 1..Len(receipts),
                         state : Lifecycle, version : Nat, at : Int]
    /\ outbox \in [Evidence ->
         [status : {"ABSENT", "PENDING", "PROCESSING", "DELIVERED", "FAILED", "DEAD_LETTER"},
          released : BOOLEAN, receipt : Nat, attempts : Nat, failures : Nat,
          by : Workers \cup {None}]]
    /\ rc \in [Receivers -> [pc : {"idle", "stored", "claimed", "committed", "confirmed"},
                             receipt : Nat \cup {None}]]
    /\ \A r \in Receivers : rc[r].pc # "idle" => rc[r].receipt \in DOMAIN receipts
    /\ hand \in [Workers -> [evidence : Evidence, attempt : Nat] \cup {None}]

\* "Only release_authorized=1 rows can be claimed", and a row is released
\* exactly when its receipt is confirmed: a unit whose commit is unknown or
\* that was abandoned never reaches a consumer, and no confirmed readiness
\* is left unreleased.
OutboxFollowsReceipt ==
    /\ \A v \in Evidence :
         LET row == outbox[v]
         IN row.status # "ABSENT" =>
              /\ row.released <=> receipts[row.receipt].status = "CONFIRMED"
              /\ row.status # "PENDING" \/ row.attempts > 0 => row.released
    /\ \A i \in DOMAIN receipts :
         /\ receipts[i].status = "CONFIRMED" /\ receipts[i].outcome = "ACCEPTED"
         /\ EventType[receipts[i].event] \in ReadyStates
         => outbox[EvidenceOf[receipts[i].event]].receipt = i

\* The same evidence takes effect once: however receipts of it interleave,
\* are replayed, abandoned and recovered, one confirmed receipt accepts it.
EvidenceAcceptedOnce ==
    \A i, j \in DOMAIN receipts :
        /\ receipts[i].status = "CONFIRMED" /\ receipts[i].outcome = "ACCEPTED"
        /\ receipts[j].status = "CONFIRMED" /\ receipts[j].outcome = "ACCEPTED"
        /\ EvidenceOf[receipts[i].event] = EvidenceOf[receipts[j].event]
        => i = j

\* An event that the state of its setup refused was refused by a confirmed
\* state: a unit that is abandoned or whose commit is unknown refuses nothing.
RefusalHasCause ==
    \A i \in DOMAIN receipts :
        receipts[i].outcome = "REJECTED" /\ EventType[receipts[i].event] \notin
            Lifecycle \ Endings => ConfirmedRows(SetupOf[receipts[i].event]) # {}

\* A setup with a confirmed ending stays ended: no later unit adds a state or
\* a dispatch to it.
EndingIsFinal ==
    [][\A i \in DOMAIN receipts :
          /\ receipts[i].outcome = "NONE" /\ receipts'[i].outcome = "ACCEPTED"
          /\ EventType[receipts[i].event] \notin Telemetry
          => \A s \in ConfirmedRows(SetupOf[receipts[i].event]) :
                s.state \notin TerminalStates]_vars

\* Only the consumer of the latest claim decides a row: the answer of one
\* whose claim was recovered, and perhaps handed to another, is ignored.
LatestClaimAnswers ==
    [][\A v \in Evidence :
          outbox[v].status = "PROCESSING" /\ outbox'[v].status # "PROCESSING" =>
              \/ outbox'[v].status = "FAILED" /\ outbox'[v].failures = outbox[v].failures
              \/ \E w \in Workers :
                    hand[w] = [evidence |-> v, attempt |-> outbox[v].attempts]]_vars

\* However claims are lost and recovered, consumers report at most
\* max_outbox_attempts failures of a row, the last of which is its dead letter.
FailureBudget ==
    \A v \in Evidence :
        /\ outbox[v].failures <= MaxAttempts
        /\ outbox[v].failures = MaxAttempts => outbox[v].status \in {"DEAD_LETTER"}

\* RUNTIME_DESIGN.md, of any state: "same ID/same content | canonical match
\* | ... | idempotent duplicate": a receipt of an event that has a canonical
\* row is a duplicate, whatever became of the unit that wrote the row.
SameContentIsDuplicate ==
    \A r \in Receivers :
        At(r, "claimed") =>
            LET e == receipts[rc[r].receipt].event
            IN exact[e] # 0 => ExactDuplicate(e)
=============================================================================
