--------------------------- MODULE RendererOutbox ---------------------------
(***************************************************************************)
(* Delivery of one canonical Thesis to its renderers (output/project_a).   *)
(*                                                                         *)
(* OutboxStore keeps one delivery row per renderer and one attempt row per *)
(* claim.  A dispatcher claims a delivery, renders it through an external  *)
(* transport, stores the result under its claim token and copies the       *)
(* delivery statuses to the Notion page.  An operator recovers abandoned   *)
(* claims, resets deliveries and reconciles UNCERTAIN ones.  Every store   *)
(* method is one BEGIN IMMEDIATE transaction and every transport call is   *)
(* one call: each is one action here, and anything may happen in between.  *)
(***************************************************************************)
EXTENDS Integers, Sequences, FiniteSets, Functions

CONSTANTS
    Messages,    \* deliveries of TELEGRAM and MT5_DEMO: one idempotent send
    Drawings,    \* deliveries of TRADINGVIEW: several objects and a bundle
    Pages,       \* deliveries of NOTION: the page of the setup
    Dispatchers, \* processes that dispatch and reconcile
    Objects,     \* bound: a drawing has the objects 1..Objects (5 in the code)
    MaxTypes,    \* bound: enabled renderers of the Thesis, at most
    RetryLimit,  \* config.retry_limit (3 by default)
    MaxResets,   \* bound: operator resets in all
    MaxClaims,   \* bound: claims in all
    None         \* no delivery, no page, no statuses read

Deliveries == Messages \cup Drawings \cup Pages

ASSUME RetryLimitAssumption == RetryLimit \in Nat \ {0}
ASSUME ObjectsAssumption == Objects \in Nat \ {0}
ASSUME MaxResetsAssumption == MaxResets \in Nat
ASSUME NoneAssumption == None \notin Deliveries

VARIABLES
    status,    \* renderer_deliveries.status, "ABSENT" = no row
    tries,     \* attempt_count: claims since the last manual reset
    timer,     \* next_retry_at or claimed_at + timeout: none, running, due
    token,     \* claim_token, by the number of the attempt it belongs to
    attempts,  \* delivery -> statuses of its renderer_attempts rows
    resets,    \* delivery -> its MANUAL_RESET rows in audit_operations
    solved,    \* delivery -> its RECONCILE_UNCERTAIN rows (0 or more)
    effects,   \* external: deliveries found by the lookup of their transport
    objects,   \* external: drawing -> its objects on the chart
    page,      \* external: the deliveries whose status on the Notion page is
               \* a completed one (renderer_statuses), None = no page
    wk         \* dispatcher -> where it is

vars == <<status, tries, timer, token, attempts, resets, solved, effects,
          objects, page, wk>>

----------------------------------------------------------------------------
Completed == {"SUCCEEDED", "DRY_RUN_SUCCEEDED"}
Stopped == {"TERMINAL_FAILED", "BLOCKED_SAFETY", "UNCERTAIN"}
Statuses ==
    {"ABSENT", "PENDING", "CLAIMED", "RETRYABLE_FAILED"} \cup Completed \cup Stopped
Results == {"ALREADY_COMPLETED", "DRY_RUN_SUCCESS", "RETRYABLE_FAILURE",
            "TERMINAL_FAILURE", "BLOCKED_SAFETY", "UNCERTAIN"}

\* mapping in finish
StatusOf == [r \in Results |->
    CASE r = "ALREADY_COMPLETED" -> "SUCCEEDED"
      [] r = "DRY_RUN_SUCCESS"   -> "DRY_RUN_SUCCEEDED"
      [] r = "RETRYABLE_FAILURE" -> "RETRYABLE_FAILED"
      [] r = "TERMINAL_FAILURE"  -> "TERMINAL_FAILED"
      [] OTHER                   -> r]

\* mutant of ReadStatuses: an UNCERTAIN delivery is shown as done
OptimisticStatuses == {d \in Deliveries : status[d] \in Completed \cup {"UNCERTAIN"}}

\* the part of the renderer statuses that the properties tell apart
ReadStatuses == {d \in Deliveries : status[d] \in Completed}

Idle == [at |-> "idle", d |-> None, n |-> 0, result |-> "none",
         k |-> 0, created |-> {}, seen |-> None]

Goto(w, at) == wk' = [wk EXCEPT ![w].at = at]

Answer(w, r) == wk' = [wk EXCEPT ![w] =
    [@ EXCEPT !.at = "rendered", !.result = r, !.k = 0, !.created = {},
       !.seen = None]]

----------------------------------------------------------------------------
(* ThesisCompiler.compile, create_thesis_and_deliveries *)

\* one transaction; compiling the same Thesis again changes nothing
CompileThesis(types) ==
    /\ \A d \in Deliveries : status[d] = "ABSENT"
    /\ status' = [d \in Deliveries |-> IF d \in types THEN "PENDING" ELSE "ABSENT"]
    /\ UNCHANGED <<tries, timer, token, attempts, resets, solved, effects,
                   objects, page, wk>>

----------------------------------------------------------------------------
(* OutboxStore.claim *)

Open(d) == status[d] \in {"PENDING", "RETRYABLE_FAILED"}

\* mutant of Claimable: one claim too many
ClaimableOnceMore(d) == Open(d) /\ tries[d] <= RetryLimit /\ timer[d] # "running"

\* mutant of Claimable: an UNCERTAIN delivery is claimed again as well
ClaimableUncertain(d) ==
    (Open(d) \/ status[d] = "UNCERTAIN") /\ tries[d] < RetryLimit
                                         /\ timer[d] # "running"

Claimable(d) == Open(d) /\ tries[d] < RetryLimit /\ timer[d] # "running"

TotalClaims ==
    FoldFunction(+, 0, [d \in Deliveries |-> Len(attempts[d])])

Claim(w, d) ==
    /\ wk[w].at = "idle"
    /\ Claimable(d)
    /\ TotalClaims < MaxClaims
    /\ status' = [status EXCEPT ![d] = "CLAIMED"]
    /\ tries' = [tries EXCEPT ![d] = @ + 1]
    /\ timer' = [timer EXCEPT ![d] = "running"]
    /\ token' = [token EXCEPT ![d] = Len(attempts[d]) + 1]
    /\ attempts' = [attempts EXCEPT ![d] = Append(@, "CLAIMED")]
    /\ wk' = [wk EXCEPT ![w] = [Idle EXCEPT !.at = "claimed", !.d = d,
                                            !.n = Len(attempts[d]) + 1]]
    /\ UNCHANGED <<resets, solved, effects, objects, page>>

RefuseAtLimit(w, d) ==
    /\ wk[w].at = "idle"
    /\ Open(d)
    /\ tries[d] >= RetryLimit
    /\ status' = [status EXCEPT ![d] = "TERMINAL_FAILED"]
    /\ UNCHANGED <<tries, timer, token, attempts, resets, solved, effects,
                   objects, page, wk>>

----------------------------------------------------------------------------
(* Renderer.render *)

\* a safety gate, an idempotency conflict, or an error before any effect
FailEarly(w) ==
    /\ wk[w].at = "claimed"
    /\ \E r \in {"BLOCKED_SAFETY", "TERMINAL_FAILURE", "RETRYABLE_FAILURE"} :
           Answer(w, r)
    /\ UNCHANGED <<status, tries, timer, token, attempts, resets, solved,
                   effects, objects, page>>

\* the lookup by idempotency key; Notion reads the delivery statuses first
LookUp(w) ==
    LET d == wk[w].d IN
    /\ wk[w].at = "claimed"
    /\ IF d \in effects /\ d \notin Pages
       THEN Answer(w, "ALREADY_COMPLETED")
       ELSE wk' = [wk EXCEPT ![w].at = "missing", ![w].seen =
                       IF d \in Pages THEN ReadStatuses ELSE None]
    /\ UNCHANGED <<status, tries, timer, token, attempts, resets, solved,
                   effects, objects, page>>

\* send and simulate look the key up again and create at most one effect; a
\* timeout leaves it unknown whether the request was accepted
Send(w) ==
    LET d == wk[w].d IN
    /\ wk[w].at = "missing"
    /\ d \in Messages
    /\ \/ Answer(w, "RETRYABLE_FAILURE") /\ UNCHANGED effects
       \/ effects' = effects \cup {d} /\ Answer(w, "DRY_RUN_SUCCESS")
       \/ /\ d \notin effects
          /\ effects' \in {effects, effects \cup {d}}
          /\ Answer(w, "UNCERTAIN")
    /\ UNCHANGED <<status, tries, timer, token, attempts, resets, solved,
                   objects, page>>

UpsertPage(w) ==
    LET d == wk[w].d IN
    /\ wk[w].at = "missing"
    /\ d \in Pages
    /\ \/ Answer(w, "RETRYABLE_FAILURE") /\ UNCHANGED <<effects, page>>
       \/ /\ effects' = effects \cup {d}
          /\ page' = wk[w].seen
          /\ Answer(w, IF d \in effects THEN "ALREADY_COMPLETED"
                                        ELSE "DRY_RUN_SUCCESS")
    /\ UNCHANGED <<status, tries, timer, token, attempts, resets, solved,
                   objects>>

----------------------------------------------------------------------------
(* TradingViewRenderer: upsert each object, verify, commit, else clean up *)

\* objects are upserted in their order; one that exists is left as it is
DrawObject(w) ==
    LET d == wk[w].d IN
    LET o == wk[w].k + 1 IN
    /\ wk[w].at = "missing"
    /\ d \in Drawings
    /\ o \in 1..Objects
    /\ objects' = [objects EXCEPT ![d] = @ \cup {o}]
    /\ wk' = [wk EXCEPT ![w].k = o, ![w].created = @ \cup ({o} \ objects[d])]
    /\ UNCHANGED <<status, tries, timer, token, attempts, resets, solved,
                   effects, page>>

\* the creation of an object fails, or the drawing is verified incomplete
DrawFails(w) ==
    LET d == wk[w].d IN
    /\ wk[w].at = "missing"
    /\ d \in Drawings
    /\ IF wk[w].k < Objects THEN wk[w].k + 1 \notin objects[d]
                            ELSE objects[d] # 1..Objects
    /\ Goto(w, "cleaning")
    /\ UNCHANGED <<status, tries, timer, token, attempts, resets, solved,
                   effects, objects, page>>

VerifyDrawing(w) ==
    /\ wk[w].at = "missing"
    /\ wk[w].d \in Drawings
    /\ wk[w].k = Objects
    /\ objects[wk[w].d] = 1..Objects
    /\ Goto(w, "verified")
    /\ UNCHANGED <<status, tries, timer, token, attempts, resets, solved,
                   effects, objects, page>>

CommitBundle(w) ==
    /\ wk[w].at = "verified"
    /\ effects' = effects \cup {wk[w].d}
    /\ Answer(w, "DRY_RUN_SUCCESS")
    /\ UNCHANGED <<status, tries, timer, token, attempts, resets, solved,
                   objects, page>>

\* cleanup receives only the references this attempt created
CleanUp(w) ==
    LET d == wk[w].d IN
    /\ wk[w].at = "cleaning"
    /\ \/ /\ objects' = [objects EXCEPT ![d] = @ \ wk[w].created]
          /\ Answer(w, "RETRYABLE_FAILURE")
       \/ Answer(w, "TERMINAL_FAILURE") /\ UNCHANGED objects
    /\ UNCHANGED <<status, tries, timer, token, attempts, resets, solved,
                   effects, page>>

----------------------------------------------------------------------------
(* OutboxStore.finish and the status copy that follows it *)

\* mutant of HoldsClaim: only the status of the delivery is compared
SomebodyHoldsClaim(w) == status[wk[w].d] = "CLAIMED"

HoldsClaim(w) == status[wk[w].d] = "CLAIMED" /\ token[wk[w].d] = wk[w].n

Finish(w) ==
    LET d == wk[w].d IN
    LET r == wk[w].result IN
    /\ wk[w].at = "rendered"
    /\ HoldsClaim(w)
    /\ status' = [status EXCEPT ![d] = StatusOf[r]]
    /\ timer' = [timer EXCEPT ![d] =
           IF r = "RETRYABLE_FAILURE" THEN "running" ELSE "none"]
    /\ token' = [token EXCEPT ![d] = 0]
    /\ attempts' = [attempts EXCEPT ![d][wk[w].n] = r]
    /\ wk' = [wk EXCEPT ![w] = [Idle EXCEPT !.at = "syncing"]]
    /\ UNCHANGED <<tries, resets, solved, effects, objects, page>>

\* Session5Error("claim_lost") leaves dispatch
ClaimLost(w) ==
    /\ wk[w].at = "rendered"
    /\ ~HoldsClaim(w)
    /\ wk' = [wk EXCEPT ![w] = Idle]
    /\ UNCHANGED <<status, tries, timer, token, attempts, resets, solved,
                   effects, objects, page>>

\* _sync_notion_statuses reads the statuses, then updates the page
StartCopy(w) ==
    /\ wk[w].at = "syncing"
    /\ wk' = [wk EXCEPT ![w] = [Idle EXCEPT !.at = "copying", !.seen = ReadStatuses]]
    /\ UNCHANGED <<status, tries, timer, token, attempts, resets, solved,
                   effects, objects, page>>

\* a transport failure of the copy is swallowed
CopyStatuses(w) ==
    /\ wk[w].at = "copying"
    /\ page' \in {page, IF page = None THEN None ELSE wk[w].seen}
    /\ wk' = [wk EXCEPT ![w] = Idle]
    /\ UNCHANGED <<status, tries, timer, token, attempts, resets, solved,
                   effects, objects>>

----------------------------------------------------------------------------
(* Operations: recover_abandoned, manual_reset, reconcile_uncertain *)

Abandoned == {d \in Deliveries : status[d] = "CLAIMED" /\ timer[d] = "due"}

RecoverAbandoned ==
    /\ Abandoned # {}
    /\ status' = [d \in Deliveries |->
           IF d \in Abandoned THEN "RETRYABLE_FAILED" ELSE status[d]]
    /\ token' = [d \in Deliveries |-> IF d \in Abandoned THEN 0 ELSE token[d]]
    /\ attempts' = [d \in Deliveries |->
           IF d \notin Abandoned THEN attempts[d]
           ELSE [i \in DOMAIN attempts[d] |->
                    IF attempts[d][i] = "CLAIMED" THEN "ABANDONED"
                                                  ELSE attempts[d][i]]]
    /\ UNCHANGED <<tries, timer, resets, solved, effects, objects, page, wk>>

\* mutant of Resettable: completed deliveries may be reset
AlwaysResettable(d) == status[d] # "ABSENT"

Resettable(d) == status[d] \notin Completed \cup {"ABSENT"}

ManualReset(d) ==
    /\ Resettable(d)
    /\ FoldFunction(+, 0, resets) < MaxResets
    /\ status' = [status EXCEPT ![d] = "PENDING"]
    /\ tries' = [tries EXCEPT ![d] = 0]
    /\ timer' = [timer EXCEPT ![d] = "none"]
    /\ token' = [token EXCEPT ![d] = 0]
    /\ resets' = [resets EXCEPT ![d] = @ + 1]
    /\ UNCHANGED <<attempts, solved, effects, objects, page, wk>>

\* the UNCERTAIN check and the lookup; a lookup conflict raises
ReconcileLookUp(w, d) ==
    /\ wk[w].at = "idle"
    /\ status[d] = "UNCERTAIN"
    /\ wk' = [wk EXCEPT ![w] = [Idle EXCEPT !.d = d, !.at =
                  IF d \in effects THEN "found" ELSE "notfound"]]
    /\ UNCHANGED <<status, tries, timer, token, attempts, resets, solved,
                   effects, objects, page>>

\* mutant of Resolution: the operator's answer is not looked at
AssumeFound(found) == "SUCCEEDED"

Resolution(found) == IF found THEN "SUCCEEDED" ELSE "RETRYABLE_FAILED"

\* resolve_uncertain checks the status again, inside its transaction
Resolve(w) ==
    LET d == wk[w].d IN
    /\ wk[w].at \in {"found", "notfound"}
    /\ status[d] = "UNCERTAIN"
    /\ status' = [status EXCEPT ![d] = Resolution(wk[w].at = "found")]
    /\ timer' = [timer EXCEPT ![d] =
           IF wk[w].at = "found" THEN "none" ELSE "due"]
    /\ token' = [token EXCEPT ![d] = 0]
    /\ solved' = [solved EXCEPT ![d] = @ + 1]
    /\ wk' = [wk EXCEPT ![w] = [Idle EXCEPT !.at = "syncing"]]
    /\ UNCHANGED <<tries, attempts, resets, effects, objects, page>>

NotUncertain(w) ==
    /\ wk[w].at \in {"found", "notfound"}
    /\ status[wk[w].d] # "UNCERTAIN"
    /\ wk' = [wk EXCEPT ![w] = Idle]
    /\ UNCHANGED <<status, tries, timer, token, attempts, resets, solved,
                   effects, objects, page>>

----------------------------------------------------------------------------
(* The clock and process loss *)

Elapse(d) ==
    /\ timer[d] = "running"
    /\ timer' = [timer EXCEPT ![d] = "due"]
    /\ UNCHANGED <<status, tries, token, attempts, resets, solved, effects,
                   objects, page, wk>>

Crash(w) ==
    /\ wk[w].at # "idle"
    /\ wk' = [wk EXCEPT ![w] = Idle]
    /\ UNCHANGED <<status, tries, timer, token, attempts, resets, solved,
                   effects, objects, page>>

----------------------------------------------------------------------------
Init ==
    /\ status = [d \in Deliveries |-> "ABSENT"]
    /\ tries = [d \in Deliveries |-> 0]
    /\ timer = [d \in Deliveries |-> "none"]
    /\ token = [d \in Deliveries |-> 0]
    /\ attempts = [d \in Deliveries |-> <<>>]
    /\ resets = [d \in Deliveries |-> 0]
    /\ solved = [d \in Deliveries |-> 0]
    /\ effects = {}
    /\ objects = [d \in Drawings |-> {}]
    /\ page = None
    /\ wk = [w \in Dispatchers |-> Idle]

Dispatch(w) ==
    \/ \E d \in Deliveries : Claim(w, d) \/ RefuseAtLimit(w, d)
    \/ FailEarly(w) \/ LookUp(w) \/ Send(w) \/ UpsertPage(w)
    \/ DrawObject(w) \/ DrawFails(w) \/ VerifyDrawing(w) \/ CommitBundle(w)
    \/ CleanUp(w)
    \/ Finish(w) \/ ClaimLost(w) \/ StartCopy(w) \/ CopyStatuses(w)

Reconcile(w) ==
    \/ \E d \in Deliveries : ReconcileLookUp(w, d)
    \/ Resolve(w) \/ NotUncertain(w)

Next ==
    \/ \E types \in SUBSET Deliveries :
           Cardinality(types) \in 1..MaxTypes /\ CompileThesis(types)
    \/ \E w \in Dispatchers : Dispatch(w) \/ Reconcile(w) \/ Crash(w)
    \/ RecoverAbandoned
    \/ \E d \in Deliveries : ManualReset(d) \/ Elapse(d)

Spec == Init /\ [][Next]_vars

----------------------------------------------------------------------------
(* Properties *)

\* Every row, claim, page and dispatcher holds values of its type.
TypeOK ==
    /\ status \in [Deliveries -> Statuses]
    /\ tries \in [Deliveries -> 0..RetryLimit]
    /\ timer \in [Deliveries -> {"none", "running", "due"}]
    /\ token \in [Deliveries -> Nat]
    /\ attempts \in [Deliveries -> Seq(Results \cup {"CLAIMED", "ABANDONED"})]
    /\ resets \in [Deliveries -> Nat]
    /\ solved \in [Deliveries -> Nat]
    /\ effects \subseteq Deliveries
    /\ objects \in [Drawings -> SUBSET (1..Objects)]
    /\ page \in (SUBSET Deliveries) \cup {None}
    /\ \A w \in Dispatchers :
           /\ wk[w].at \in {"idle", "claimed", "missing", "verified", "cleaning",
                            "rendered", "syncing", "copying", "found", "notfound"}
           /\ wk[w].d \in Deliveries \cup {None}
           /\ wk[w].n \in Nat
           /\ wk[w].result \in Results \cup {"none"}
           /\ wk[w].k \in 0..Objects
           /\ wk[w].created \subseteq 1..Objects
           /\ wk[w].seen \in (SUBSET Deliveries) \cup {None}

\* The result that a delivery shows is the result of its latest claim: an
\* overtaken dispatcher, whose claim was recovered or reset and handed to
\* another one, never decides the delivery with its late answer.
LatestClaimDecides ==
    \A d \in Deliveries :
        /\ status[d] = "CLAIMED" =>
               token[d] = Len(attempts[d]) /\ attempts[d][token[d]] = "CLAIMED"
        /\ status[d] \in Completed /\ solved[d] = 0 =>
               /\ attempts[d][Len(attempts[d])] \in Results
               /\ StatusOf[attempts[d][Len(attempts[d])]] = status[d]
        /\ \A i \in DOMAIN attempts[d] :
               attempts[d][i] \in {"ALREADY_COMPLETED", "DRY_RUN_SUCCESS"} =>
                   i = Len(attempts[d]) /\ status[d] \in Completed

\* No retry storm: abandoned claims count, so between two operator resets a
\* delivery is attempted at most retry_limit times.
AttemptBudget ==
    \A d \in Deliveries : Len(attempts[d]) <= RetryLimit * (1 + resets[d])

\* A completed delivery did have its external effect.
CompletedHasEffect ==
    \A d \in Deliveries : status[d] \in Completed => d \in effects

\* The Notion page lags, but it never shows a delivery as completed that is
\* not: copies are made from reads that other dispatchers overtake.
PageIsHonest ==
    page # None => \A d \in page : status[d] \in Completed

\* Completed side effects are never claimed, reset or failed again.
CompletedIsFinal ==
    [][\A d \in Deliveries : status[d] \in Completed => status'[d] = status[d]]_vars

\* "Terminal, safety-blocked, or uncertain deliveries require an explicit
\* audited operation": nothing else moves them, whoever is still running.
OperatorReleases ==
    [][\A d \in Deliveries :
          status[d] \in Stopped /\ status'[d] # status[d] =>
              resets'[d] + solved'[d] > resets[d] + solved[d]]_vars

\* DESIGN_AND_RUNBOOK.md: lookup, attempt history and claim recovery "make
\* duplicates harmless".  A completed drawing still has all its objects.
DuplicatesHarmless ==
    \A d \in Drawings : status[d] \in Completed => objects[d] = 1..Objects

============================================================================
