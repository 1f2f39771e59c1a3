------------------------ MODULE RendererOutboxProofs ------------------------
(***************************************************************************)
(* Proofs about the delivery of a Thesis, for any number of deliveries,    *)
(* dispatchers, objects, retries and operator resets: the latest claim     *)
(* decides, attempts stay in their budget, a completed delivery had its    *)
(* effect and stays completed, and the Notion page shows no other.         *)
(***************************************************************************)
EXTENDS RendererOutbox, SequenceTheorems, TLAPS

Phases == {"idle", "claimed", "missing", "verified", "cleaning", "rendered", "syncing",
           "copying", "found", "notfound"}
Works ==
    [at : Phases, d : Deliveries \cup {None}, n : Nat, result : Results \cup {"none"},
     k : 0..Objects, created : SUBSET (1..Objects), seen : (SUBSET Deliveries) \cup {None}]
AttemptStatuses == Results \cup {"CLAIMED", "ABANDONED"}

----------------------------------------------------------------------------
(* The inductive invariant *)

TypeInv ==
    /\ status \in [Deliveries -> Statuses]
    /\ tries \in [Deliveries -> 0..RetryLimit]
    /\ timer \in [Deliveries -> {"none", "running", "due"}]
    /\ token \in [Deliveries -> Nat]
    /\ attempts \in [Deliveries -> Seq(AttemptStatuses)]
    /\ resets \in [Deliveries -> Nat]
    /\ solved \in [Deliveries -> Nat]
    /\ effects \subseteq Deliveries
    /\ objects \in [Drawings -> SUBSET (1..Objects)]
    /\ page \in (SUBSET Deliveries) \cup {None}
    /\ wk \in [Dispatchers -> Works]

\* What the deliveries of a set that was read show now.
Shown(read) == read # None => \A x \in read : status[x] \in Completed

\* What a dispatcher may rely on: the delivery it works at, the effect that
\* its answer reports or its lookup found, and that what it read was final.
WorkInv(w) ==
    /\ wk[w].at \notin {"idle", "syncing", "copying"} => wk[w].d \in Deliveries
    /\ wk[w].at = "rendered" =>
           /\ wk[w].result \in Results
           /\ StatusOf[wk[w].result] \in Completed => wk[w].d \in effects
    /\ wk[w].at = "found" => wk[w].d \in effects
    /\ Shown(wk[w].seen)

\* attempt_count is the part of the budget used since the last reset.
BudgetInv ==
    \A d \in Deliveries : Len(attempts[d]) <= RetryLimit * resets[d] + tries[d]

ClaimedHasAttempt ==
    \A d \in Deliveries : status[d] = "CLAIMED" => attempts[d] # <<>>

IInv ==
    /\ TypeInv
    /\ ClaimedHasAttempt /\ LatestClaimDecides
    /\ BudgetInv
    /\ CompletedHasEffect
    /\ Shown(page)
    /\ \A w \in Dispatchers : WorkInv(w)

----------------------------------------------------------------------------
(* Facts about the tables of statuses *)

LEMMA StatusOfResults ==
    \A r \in Results :
        /\ StatusOf[r] \in Completed \cup Stopped \cup {"RETRYABLE_FAILED"}
        /\ StatusOf[r] \in Completed <=> r \in {"ALREADY_COMPLETED", "DRY_RUN_SUCCESS"}
  BY DEF StatusOf, Results, Completed, Stopped

LEMMA StatusesApart ==
    /\ \A s \in Completed : s \notin {"ABSENT", "PENDING", "CLAIMED", "RETRYABLE_FAILED"} \cup Stopped
    /\ Completed \subseteq Statuses /\ Stopped \subseteq Statuses
    /\ {"ABSENT", "PENDING", "CLAIMED", "RETRYABLE_FAILED"} \subseteq Statuses
    /\ {"PENDING", "CLAIMED", "RETRYABLE_FAILED", "ABSENT"} \cap Stopped = {}
  BY DEF Completed, Stopped, Statuses

LEMMA OneMoreBudget ==
    ASSUME NEW limit \in Nat, NEW n \in Nat
    PROVE  limit * (n + 1) = limit * n + limit /\ limit * (1 + n) = limit * n + limit
           /\ limit * n \in Nat
  OBVIOUS

\* Recovery rewrites attempts in place.
LEMMA Rewritten ==
    ASSUME NEW S, NEW s \in Seq(S), NEW t, t \in [DOMAIN s -> S]
    PROVE  t \in Seq(S) /\ Len(t) = Len(s) /\ DOMAIN t = DOMAIN s
<1>1. Len(s) \in Nat /\ DOMAIN s = 1..Len(s)
  BY LenProperties
<1>2. t \in [1..Len(s) -> S] BY <1>1
<1>3. t \in Seq(S) BY <1>1, <1>2, SeqDef
<1>4. Len(t) = Len(s) BY <1>1, <1>2, <1>3, LenProperties
<1> QED BY <1>1, <1>2, <1>3, <1>4

----------------------------------------------------------------------------
(* The steps of a dispatcher outside the store, and its reads *)

Rows == <<status, tries, timer, token, attempts, resets, solved>>

\* No row moves; effects stay, and what is put on the page was read.
LocalStep(w) ==
    /\ UNCHANGED Rows
    /\ effects \subseteq effects' /\ effects' \subseteq Deliveries
    /\ objects' \in [Drawings -> SUBSET (1..Objects)]
    /\ page' \in {page, wk[w].seen}
    /\ wk' \in [Dispatchers -> Works]
    /\ \A v \in Dispatchers : v # w => wk'[v] = wk[v]
    /\ WorkInv(w)'

LEMMA LocalKeeps ==
    ASSUME IInv, NEW w \in Dispatchers, LocalStep(w)
    PROVE  IInv'
<1> USE DEF LocalStep, Rows
<1>1. TypeInv'
  BY DEF IInv, TypeInv, Works
<1>2. ClaimedHasAttempt' /\ LatestClaimDecides' /\ BudgetInv'
  BY DEF IInv, ClaimedHasAttempt, LatestClaimDecides, BudgetInv
<1>3. CompletedHasEffect'
  BY DEF IInv, CompletedHasEffect
<1>4. Shown(page)'
  BY DEF IInv, Shown, WorkInv
<1>5. ASSUME NEW v \in Dispatchers PROVE WorkInv(v)'
  <2>1. CASE v = w BY <2>1
  <2>2. CASE v # w BY <2>2 DEF IInv, WorkInv, Shown
  <2> QED BY <2>1, <2>2
<1> QED BY <1>1, <1>2, <1>3, <1>4, <1>5 DEF IInv

\* The record that Answer leaves.
LEMMA Answered ==
    ASSUME TypeInv, NEW w \in Dispatchers, NEW r \in Results, Answer(w, r)
    PROVE  /\ wk' \in [Dispatchers -> Works]
           /\ \A v \in Dispatchers : v # w => wk'[v] = wk[v]
           /\ wk'[w].at = "rendered" /\ wk'[w].d = wk[w].d
           /\ wk'[w].result = r /\ wk'[w].seen = None
<1> DEFINE x == [wk[w] EXCEPT !.at = "rendered", !.result = r, !.k = 0, !.created = {},
                              !.seen = None]
<1>1. wk[w] \in Works /\ 0 \in 0..Objects
  BY ObjectsAssumption DEF TypeInv
<1>2. /\ x \in Works /\ x.at = "rendered" /\ x.d = wk[w].d
      /\ x.result = r /\ x.seen = None
  BY <1>1 DEF Works, Phases
<1>3. wk' = [wk EXCEPT ![w] = x]
  BY DEF Answer
<1> HIDE DEF x
<1> QED BY <1>2, <1>3 DEF TypeInv

LEMMA IdleWorks ==
    /\ Idle \in Works /\ Idle.at = "idle" /\ Idle.d = None /\ Idle.seen = None
    /\ 0 \in 0..Objects
  BY ObjectsAssumption DEF Idle, Works, Phases

----------------------------------------------------------------------------
(* Each action outside the store is local *)

Rest == UNCHANGED <<effects, objects, page>>

\* A step of one dispatcher that changes nothing but its own record.
LEMMA RecordStep ==
    ASSUME IInv, NEW w \in Dispatchers, UNCHANGED Rows, Rest, NEW x \in Works,
           wk' = [wk EXCEPT ![w] = x], WorkInv(w)'
    PROVE  LocalStep(w)
  BY DEF IInv, TypeInv, LocalStep, Rest, Rows

\* A dispatcher that forgets its delivery.
LEMMA Forgets ==
    ASSUME IInv, NEW w \in Dispatchers, UNCHANGED Rows, Rest, wk' = [wk EXCEPT ![w] = Idle]
    PROVE  LocalStep(w)
<1>1. wk'[w] = Idle BY DEF IInv, TypeInv
<1>2. WorkInv(w)' BY <1>1, IdleWorks DEF WorkInv, Shown
<1> QED BY <1>2, IdleWorks, RecordStep

\* A dispatcher that goes on with the delivery it has, or stays without one.
LEMMA GoesOn ==
    ASSUME IInv, NEW w \in Dispatchers, UNCHANGED Rows, Rest, NEW at \in Phases, Goto(w, at),
           at \notin {"idle", "rendered", "found"}, wk[w].at \notin {"idle", "syncing", "copying"}
    PROVE  LocalStep(w)
<1> DEFINE x == [wk[w] EXCEPT !.at = at]
<1>1. wk[w] \in Works BY DEF IInv, TypeInv
<1>2. x \in Works /\ x.at = at /\ x.d = wk[w].d /\ x.seen = wk[w].seen
  BY <1>1 DEF Works
<1>3. wk' = [wk EXCEPT ![w] = x] BY DEF Goto
<1> HIDE DEF x
<1>4. wk'[w] = x BY <1>3 DEF IInv, TypeInv
<1>5. WorkInv(w)'
  BY <1>2, <1>4 DEF IInv, WorkInv, Shown, Rows
<1> QED BY <1>2, <1>3, <1>5, RecordStep

LEMMA FailEarlyLocal ==
    ASSUME IInv, NEW w \in Dispatchers, FailEarly(w)
    PROVE  LocalStep(w)
<1>1. PICK r \in {"BLOCKED_SAFETY", "TERMINAL_FAILURE", "RETRYABLE_FAILURE"} : Answer(w, r)
  BY DEF FailEarly
<1>2. r \in Results /\ StatusOf[r] \notin Completed
  BY StatusOfResults DEF Results
<1>3. /\ wk' \in [Dispatchers -> Works]
      /\ \A v \in Dispatchers : v # w => wk'[v] = wk[v]
      /\ wk'[w].at = "rendered" /\ wk'[w].d = wk[w].d
      /\ wk'[w].result = r /\ wk'[w].seen = None
  BY <1>1, <1>2, Answered DEF IInv
<1>4. wk[w].d \in Deliveries
  BY DEF IInv, WorkInv, FailEarly
<1>5. WorkInv(w)'
  BY <1>2, <1>3, <1>4 DEF WorkInv, Shown
<1> QED BY <1>3, <1>5 DEF LocalStep, Rows, FailEarly, IInv, TypeInv

LEMMA LookUpLocal ==
    ASSUME IInv, NEW w \in Dispatchers, LookUp(w)
    PROVE  LocalStep(w)
<1>1. /\ wk[w].d \in Deliveries /\ wk[w].at = "claimed" /\ UNCHANGED Rows /\ Rest
      /\ wk[w] \in Works
  BY DEF IInv, TypeInv, WorkInv, LookUp, Rows, Rest
<1>2. CASE wk[w].d \in effects /\ wk[w].d \notin Pages
  <2>1. Answer(w, "ALREADY_COMPLETED") BY <1>2 DEF LookUp
  <2>2. "ALREADY_COMPLETED" \in Results BY DEF Results
  <2>3. /\ wk' \in [Dispatchers -> Works]
        /\ \A v \in Dispatchers : v # w => wk'[v] = wk[v]
        /\ wk'[w].at = "rendered" /\ wk'[w].d = wk[w].d
        /\ wk'[w].result = "ALREADY_COMPLETED" /\ wk'[w].seen = None
    BY <2>1, <2>2, Answered DEF IInv
  <2>4. WorkInv(w)'
    BY <1>1, <1>2, <2>2, <2>3 DEF WorkInv, Shown, Rest
  <2> QED BY <1>1, <2>3, <2>4 DEF LocalStep, Rest, IInv, TypeInv
<1>3. CASE ~(wk[w].d \in effects /\ wk[w].d \notin Pages)
  <2> DEFINE seen == IF wk[w].d \in Pages THEN ReadStatuses ELSE None
             x == [wk[w] EXCEPT !.at = "missing", !.seen = seen]
  <2>1. seen \in (SUBSET Deliveries) \cup {None} /\ Shown(seen)
    BY DEF ReadStatuses, Shown
  <2>2. wk' = [wk EXCEPT ![w] = x]
    BY <1>3 DEF LookUp
  <2> HIDE DEF seen
  <2>3. x \in Works /\ x.at = "missing" /\ x.d = wk[w].d /\ x.seen = seen
    BY <1>1, <2>1 DEF Works, Phases
  <2> HIDE DEF x
  <2>4. wk'[w] = x BY <2>2 DEF IInv, TypeInv
  <2>5. WorkInv(w)'
    BY <1>1, <2>1, <2>3, <2>4 DEF WorkInv, Shown, Rows
  <2> QED BY <1>1, <2>2, <2>3, <2>5, RecordStep
<1> QED BY <1>2, <1>3

LEMMA SendLocal ==
    ASSUME IInv, NEW w \in Dispatchers, Send(w)
    PROVE  LocalStep(w)
<1>1. /\ wk[w].d \in Deliveries /\ UNCHANGED Rows /\ UNCHANGED <<objects, page>>
      /\ effects \subseteq effects' /\ effects' \subseteq Deliveries
  BY DEF IInv, TypeInv, WorkInv, Send, Rows
<1>2. PICK r \in {"RETRYABLE_FAILURE", "DRY_RUN_SUCCESS", "UNCERTAIN"} :
          Answer(w, r) /\ (r = "DRY_RUN_SUCCESS" => wk[w].d \in effects')
  BY DEF Send
<1>3. r \in Results /\ (StatusOf[r] \in Completed => wk[w].d \in effects')
  BY <1>2, StatusOfResults DEF Results
<1>4. /\ wk' \in [Dispatchers -> Works]
      /\ \A v \in Dispatchers : v # w => wk'[v] = wk[v]
      /\ wk'[w].at = "rendered" /\ wk'[w].d = wk[w].d
      /\ wk'[w].result = r /\ wk'[w].seen = None
  BY <1>2, <1>3, Answered DEF IInv
<1>5. WorkInv(w)'
  BY <1>1, <1>3, <1>4 DEF WorkInv, Shown
<1> QED BY <1>1, <1>4, <1>5 DEF LocalStep, IInv, TypeInv

LEMMA UpsertPageLocal ==
    ASSUME IInv, NEW w \in Dispatchers, UpsertPage(w)
    PROVE  LocalStep(w)
<1>1. /\ wk[w].d \in Deliveries /\ UNCHANGED Rows /\ UNCHANGED objects
      /\ effects \subseteq effects' /\ effects' \subseteq Deliveries
      /\ page' \in {page, wk[w].seen}
  BY DEF IInv, TypeInv, WorkInv, UpsertPage, Rows
<1>2. PICK r \in {"RETRYABLE_FAILURE", "DRY_RUN_SUCCESS", "ALREADY_COMPLETED"} :
          Answer(w, r) /\ (r # "RETRYABLE_FAILURE" => wk[w].d \in effects')
  BY DEF UpsertPage
<1>3. r \in Results /\ (StatusOf[r] \in Completed => wk[w].d \in effects')
  BY <1>2, StatusOfResults DEF Results
<1>4. /\ wk' \in [Dispatchers -> Works]
      /\ \A v \in Dispatchers : v # w => wk'[v] = wk[v]
      /\ wk'[w].at = "rendered" /\ wk'[w].d = wk[w].d
      /\ wk'[w].result = r /\ wk'[w].seen = None
  BY <1>2, <1>3, Answered DEF IInv
<1>5. WorkInv(w)'
  BY <1>1, <1>3, <1>4 DEF WorkInv, Shown
<1> QED BY <1>1, <1>4, <1>5 DEF LocalStep, IInv, TypeInv

LEMMA DrawObjectLocal ==
    ASSUME IInv, NEW w \in Dispatchers, DrawObject(w)
    PROVE  LocalStep(w)
<1> DEFINE o == wk[w].k + 1
           x == [wk[w] EXCEPT !.k = o, !.created = @ \cup ({o} \ objects[wk[w].d])]
<1>1. /\ wk[w].d \in Drawings /\ wk[w].at = "missing" /\ o \in 1..Objects
      /\ wk[w] \in Works /\ UNCHANGED Rows /\ UNCHANGED <<effects, page>>
      /\ objects' = [objects EXCEPT ![wk[w].d] = @ \cup {o}]
      /\ wk' = [wk EXCEPT ![w] = x]
  BY DEF IInv, TypeInv, DrawObject, Rows
<1> HIDE DEF o
<1>2. /\ x \in Works /\ x.at = "missing" /\ x.d = wk[w].d /\ x.seen = wk[w].seen
  <2>1. o \in 0..Objects BY <1>1, ObjectsAssumption
  <2> QED BY <1>1, <2>1 DEF Works, Phases
<1> HIDE DEF x
<1>3. objects' \in [Drawings -> SUBSET (1..Objects)]
  <2>1. objects[wk[w].d] \cup {o} \in SUBSET (1..Objects)
    BY <1>1 DEF IInv, TypeInv
  <2> QED BY <1>1, <2>1 DEF IInv, TypeInv
<1>4. wk'[w] = x /\ wk' \in [Dispatchers -> Works] /\ \A v \in Dispatchers : v # w => wk'[v] = wk[v]
  BY <1>1, <1>2 DEF IInv, TypeInv
<1>5. WorkInv(w)'
  BY <1>1, <1>2, <1>4 DEF IInv, WorkInv, Shown, Rows
<1> QED BY <1>1, <1>3, <1>4, <1>5 DEF LocalStep, IInv, TypeInv

LEMMA DrawFailsLocal ==
    ASSUME IInv, NEW w \in Dispatchers, DrawFails(w)
    PROVE  LocalStep(w)
  BY GoesOn DEF DrawFails, Rows, Rest, Phases

LEMMA VerifyDrawingLocal ==
    ASSUME IInv, NEW w \in Dispatchers, VerifyDrawing(w)
    PROVE  LocalStep(w)
  BY GoesOn DEF VerifyDrawing, Rows, Rest, Phases

LEMMA CommitBundleLocal ==
    ASSUME IInv, NEW w \in Dispatchers, CommitBundle(w)
    PROVE  LocalStep(w)
<1>1. /\ wk[w].d \in Deliveries /\ UNCHANGED Rows /\ UNCHANGED <<objects, page>>
      /\ effects' = effects \cup {wk[w].d} /\ effects' \subseteq Deliveries
      /\ Answer(w, "DRY_RUN_SUCCESS") /\ "DRY_RUN_SUCCESS" \in Results
  BY DEF IInv, TypeInv, WorkInv, CommitBundle, Rows, Results
<1>2. /\ wk' \in [Dispatchers -> Works]
      /\ \A v \in Dispatchers : v # w => wk'[v] = wk[v]
      /\ wk'[w].at = "rendered" /\ wk'[w].d = wk[w].d
      /\ wk'[w].result = "DRY_RUN_SUCCESS" /\ wk'[w].seen = None
  BY <1>1, Answered DEF IInv
<1>3. WorkInv(w)'
  BY <1>1, <1>2 DEF WorkInv, Shown
<1> QED BY <1>1, <1>2, <1>3 DEF LocalStep, IInv, TypeInv

LEMMA CleanUpLocal ==
    ASSUME IInv, NEW w \in Dispatchers, CleanUp(w)
    PROVE  LocalStep(w)
<1>1. /\ wk[w].d \in Deliveries /\ UNCHANGED Rows /\ UNCHANGED <<effects, page>>
  BY DEF IInv, WorkInv, CleanUp, Rows
<1>2. objects' \in [Drawings -> SUBSET (1..Objects)]
  <2>1. CASE objects' = [objects EXCEPT ![wk[w].d] = @ \ wk[w].created]
    BY <2>1 DEF IInv, TypeInv
  <2>2. CASE UNCHANGED objects
    BY <2>2 DEF IInv, TypeInv
  <2> QED BY <2>1, <2>2 DEF CleanUp
<1>3. PICK r \in {"RETRYABLE_FAILURE", "TERMINAL_FAILURE"} : Answer(w, r)
  BY DEF CleanUp
<1>4. r \in Results /\ StatusOf[r] \notin Completed
  BY <1>3, StatusOfResults DEF Results
<1>5. /\ wk' \in [Dispatchers -> Works]
      /\ \A v \in Dispatchers : v # w => wk'[v] = wk[v]
      /\ wk'[w].at = "rendered" /\ wk'[w].d = wk[w].d
      /\ wk'[w].result = r /\ wk'[w].seen = None
  BY <1>3, <1>4, Answered DEF IInv
<1>6. WorkInv(w)'
  BY <1>1, <1>4, <1>5 DEF WorkInv, Shown
<1> QED BY <1>1, <1>2, <1>5, <1>6 DEF LocalStep, IInv, TypeInv

LEMMA StartCopyLocal ==
    ASSUME IInv, NEW w \in Dispatchers, StartCopy(w)
    PROVE  LocalStep(w)
<1> DEFINE seen == ReadStatuses
           x == [Idle EXCEPT !.at = "copying", !.seen = seen]
<1>1. seen \in (SUBSET Deliveries) \cup {None} /\ Shown(seen)
  BY DEF ReadStatuses, Shown
<1>2. UNCHANGED Rows /\ Rest /\ wk' = [wk EXCEPT ![w] = x]
  BY DEF StartCopy, Rows, Rest
<1> HIDE DEF seen
<1>3. x \in Works /\ x.at = "copying" /\ x.seen = seen
  BY <1>1, IdleWorks DEF Works, Phases
<1> HIDE DEF x
<1>4. wk'[w] = x BY <1>2 DEF IInv, TypeInv
<1>5. WorkInv(w)'
  BY <1>1, <1>2, <1>3, <1>4 DEF WorkInv, Shown, Rows
<1> QED BY <1>2, <1>3, <1>5, RecordStep

LEMMA CopyStatusesLocal ==
    ASSUME IInv, NEW w \in Dispatchers, CopyStatuses(w)
    PROVE  LocalStep(w)
<1>1. /\ UNCHANGED Rows /\ UNCHANGED <<effects, objects>>
      /\ page' \in {page, wk[w].seen} /\ wk' = [wk EXCEPT ![w] = Idle]
  BY DEF CopyStatuses, Rows
<1>2. /\ wk'[w] = Idle /\ wk' \in [Dispatchers -> Works]
      /\ \A v \in Dispatchers : v # w => wk'[v] = wk[v]
  BY <1>1, IdleWorks DEF IInv, TypeInv
<1>3. WorkInv(w)' BY <1>2, IdleWorks DEF WorkInv, Shown
<1> QED BY <1>1, <1>2, <1>3 DEF LocalStep, IInv, TypeInv

LEMMA ReconcileLookUpLocal ==
    ASSUME IInv, NEW w \in Dispatchers, NEW d \in Deliveries, ReconcileLookUp(w, d)
    PROVE  LocalStep(w)
<1> DEFINE at == IF d \in effects THEN "found" ELSE "notfound"
           x == [Idle EXCEPT !.d = d, !.at = at]
<1>1. at \in {"found", "notfound"} /\ (at = "found" => d \in effects)
  OBVIOUS
<1>2. UNCHANGED Rows /\ Rest /\ wk' = [wk EXCEPT ![w] = x]
  BY DEF ReconcileLookUp, Rows, Rest
<1> HIDE DEF at
<1>3. x \in Works /\ x.at = at /\ x.d = d /\ x.seen = None
  BY <1>1, IdleWorks DEF Works, Phases, Idle
<1> HIDE DEF x
<1>4. wk'[w] = x BY <1>2 DEF IInv, TypeInv
<1>5. WorkInv(w)'
  BY <1>1, <1>2, <1>3, <1>4 DEF WorkInv, Shown, Rest
<1> QED BY <1>2, <1>3, <1>5, RecordStep

\* Every step of a dispatcher that is not one of the store's is local.
LEMMA OutsideTheStore ==
    ASSUME IInv, NEW w \in Dispatchers,
           \/ FailEarly(w) \/ LookUp(w) \/ Send(w) \/ UpsertPage(w)
           \/ DrawObject(w) \/ DrawFails(w) \/ VerifyDrawing(w) \/ CommitBundle(w)
           \/ CleanUp(w) \/ ClaimLost(w) \/ StartCopy(w) \/ CopyStatuses(w)
           \/ (\E d \in Deliveries : ReconcileLookUp(w, d))
           \/ NotUncertain(w) \/ Crash(w)
    PROVE  LocalStep(w)
<1>1. CASE ClaimLost(w) \/ NotUncertain(w) \/ Crash(w)
  BY <1>1, Forgets DEF ClaimLost, NotUncertain, Crash, Rows, Rest
<1> QED
  BY <1>1, FailEarlyLocal, LookUpLocal, SendLocal, UpsertPageLocal, DrawObjectLocal,
     DrawFailsLocal, VerifyDrawingLocal, CommitBundleLocal, CleanUpLocal, StartCopyLocal,
     CopyStatusesLocal, ReconcileLookUpLocal

----------------------------------------------------------------------------
(* The transactions of the store *)

\* No completed delivery leaves its status.
KeepsCompleted == \A d \in Deliveries : status[d] \in Completed => status'[d] = status[d]

\* The transaction of a dispatcher: it now holds a claim, or is done.
Moved(w) ==
    /\ wk' \in [Dispatchers -> Works]
    /\ \A v \in Dispatchers : v # w => wk'[v] = wk[v]
    /\ wk'[w].at = "claimed" => wk'[w].d \in Deliveries
    /\ wk'[w].at \in {"claimed", "syncing"} /\ wk'[w].seen = None

\* What was read and what was answered survives a transaction.
LEMMA ReadsSurvive ==
    ASSUME IInv, KeepsCompleted, UNCHANGED <<effects, page>>,
           wk' = wk \/ \E w \in Dispatchers : Moved(w)
    PROVE  Shown(page)' /\ \A w \in Dispatchers : WorkInv(w)'
<1>1. Shown(page)'
  BY DEF IInv, TypeInv, Shown, KeepsCompleted
<1>2. ASSUME NEW w \in Dispatchers, wk'[w] = wk[w] PROVE WorkInv(w)'
  <2>1. wk[w].seen \in (SUBSET Deliveries) \cup {None}
    BY DEF IInv, TypeInv, Works
  <2> QED BY <1>2, <2>1 DEF IInv, WorkInv, Shown, KeepsCompleted
<1>3. ASSUME NEW w \in Dispatchers, Moved(w) PROVE WorkInv(w)'
  BY <1>3 DEF Moved, WorkInv, Shown
<1> QED BY <1>1, <1>2, <1>3 DEF Moved

\* The invariant of one row: the conjuncts about all deliveries, for one.
RowInv(d) ==
    /\ status[d] = "CLAIMED" =>
           /\ attempts[d] # <<>>
           /\ token[d] = Len(attempts[d]) /\ attempts[d][token[d]] = "CLAIMED"
    /\ status[d] \in Completed /\ solved[d] = 0 =>
           /\ attempts[d][Len(attempts[d])] \in Results
           /\ StatusOf[attempts[d][Len(attempts[d])]] = status[d]
    /\ \A i \in DOMAIN attempts[d] :
           attempts[d][i] \in {"ALREADY_COMPLETED", "DRY_RUN_SUCCESS"} =>
               i = Len(attempts[d]) /\ status[d] \in Completed
    /\ Len(attempts[d]) <= RetryLimit * resets[d] + tries[d]
    /\ status[d] \in Completed => d \in effects

LEMMA RowsOfInvariant ==
    ClaimedHasAttempt /\ LatestClaimDecides /\ BudgetInv /\ CompletedHasEffect
        <=> \A d \in Deliveries : RowInv(d)
  BY DEF ClaimedHasAttempt, LatestClaimDecides, BudgetInv, CompletedHasEffect, RowInv

SameRow(e) ==
    /\ status'[e] = status[e] /\ tries'[e] = tries[e] /\ token'[e] = token[e]
    /\ attempts'[e] = attempts[e] /\ resets'[e] = resets[e] /\ solved'[e] = solved[e]

\* A transaction that leaves every row in order keeps the invariant.
LEMMA Transaction ==
    ASSUME IInv, KeepsCompleted, Rest, TypeInv',
           wk' = wk \/ \E w \in Dispatchers : Moved(w),
           \A d \in Deliveries : SameRow(d) \/ RowInv(d)'
    PROVE  IInv'
<1>1. \A d \in Deliveries : RowInv(d)
  BY RowsOfInvariant DEF IInv
<1>2. ASSUME NEW d \in Deliveries PROVE RowInv(d)'
  BY <1>1 DEF SameRow, RowInv, Rest
<1>3. (ClaimedHasAttempt /\ LatestClaimDecides /\ BudgetInv /\ CompletedHasEffect)'
  BY <1>2 DEF ClaimedHasAttempt, LatestClaimDecides, BudgetInv, CompletedHasEffect, RowInv
<1>4. Shown(page)' /\ \A w \in Dispatchers : WorkInv(w)'
  BY ReadsSurvive DEF Rest
<1> QED BY <1>3, <1>4 DEF IInv

\* The record a dispatcher gets from a transaction.
LEMMA MovedBy ==
    ASSUME TypeInv, NEW w \in Dispatchers, NEW x \in Works, wk' = [wk EXCEPT ![w] = x],
           x.at \in {"claimed", "syncing"}, x.seen = None, x.at = "claimed" => x.d \in Deliveries
    PROVE  Moved(w)
<1>1. wk'[w] = x /\ \A v \in Dispatchers : v # w => wk'[v] = wk[v]
  BY DEF TypeInv
<1>2. wk' \in [Dispatchers -> Works] BY DEF TypeInv
<1> QED BY <1>1, <1>2 DEF Moved

LEMMA RowTypes ==
    ASSUME TypeInv, NEW d \in Deliveries
    PROVE  /\ status[d] \in Statuses /\ tries[d] \in 0..RetryLimit /\ token[d] \in Nat
           /\ attempts[d] \in Seq(AttemptStatuses) /\ Len(attempts[d]) \in Nat
           /\ DOMAIN attempts[d] = 1..Len(attempts[d])
           /\ resets[d] \in Nat /\ solved[d] \in Nat
           /\ RetryLimit \in Nat /\ RetryLimit # 0 /\ tries[d] \in Nat
  BY RetryLimitAssumption, LenProperties DEF TypeInv

LEMMA CompileKeeps ==
    ASSUME IInv, NEW types \in SUBSET Deliveries, CompileThesis(types)
    PROVE  IInv'
<1>1. \A d \in Deliveries : status[d] = "ABSENT" /\ status'[d] \in {"PENDING", "ABSENT"}
  BY DEF CompileThesis
<1>2. KeepsCompleted /\ Rest
  BY <1>1, StatusesApart DEF KeepsCompleted, CompileThesis, Rest
<1>3. TypeInv'
  BY StatusesApart DEF IInv, TypeInv, CompileThesis
<1>4. ASSUME NEW d \in Deliveries PROVE RowInv(d)'
  <2>1. RowInv(d) BY RowsOfInvariant DEF IInv
  <2> QED BY <1>1, <2>1, StatusesApart DEF RowInv, CompileThesis
<1> QED BY <1>2, <1>3, <1>4, Transaction DEF CompileThesis

LEMMA ClaimKeeps ==
    ASSUME IInv, NEW w \in Dispatchers, NEW d \in Deliveries, Claim(w, d)
    PROVE  IInv'
<1> DEFINE n == Len(attempts[d]) + 1
           x == [Idle EXCEPT !.at = "claimed", !.d = d, !.n = n]
<1>1. /\ status[d] \in {"PENDING", "RETRYABLE_FAILED"} /\ tries[d] < RetryLimit
      /\ status' = [status EXCEPT ![d] = "CLAIMED"]
      /\ tries' = [tries EXCEPT ![d] = @ + 1]
      /\ timer' = [timer EXCEPT ![d] = "running"]
      /\ token' = [token EXCEPT ![d] = n]
      /\ attempts' = [attempts EXCEPT ![d] = Append(@, "CLAIMED")]
      /\ wk' = [wk EXCEPT ![w] = x]
      /\ UNCHANGED <<resets, solved, effects, objects, page>>
  BY DEF Claim, Claimable, Open
<1>2. TypeInv BY DEF IInv
<1>3. n \in Nat /\ n = Len(attempts[d]) + 1 BY <1>2, RowTypes
<1> HIDE DEF n
<1>4. x \in Works /\ x.at = "claimed" /\ x.d = d /\ x.seen = None
  BY <1>3, IdleWorks DEF Works, Phases, Idle
<1> HIDE DEF x
<1>5. Moved(w) BY <1>1, <1>2, <1>4, MovedBy
<1>6. KeepsCompleted /\ Rest
  BY <1>1, <1>2, StatusesApart DEF KeepsCompleted, Rest, TypeInv
<1>7. "CLAIMED" \in AttemptStatuses BY DEF AttemptStatuses
<1>8. attempts'[d] = Append(attempts[d], "CLAIMED") BY <1>1, <1>2 DEF TypeInv
<1>9. /\ attempts'[d] \in Seq(AttemptStatuses) /\ Len(attempts'[d]) = n
      /\ DOMAIN attempts'[d] = 1..n /\ attempts'[d][n] = "CLAIMED"
      /\ \A i \in 1..Len(attempts[d]) : attempts'[d][i] = attempts[d][i]
  BY <1>2, <1>3, <1>7, <1>8, RowTypes, AppendProperties, LenProperties
<1>10. TypeInv'
  <2>1. attempts' \in [Deliveries -> Seq(AttemptStatuses)]
    BY <1>1, <1>2, <1>8, <1>9 DEF TypeInv
  <2>2. status' \in [Deliveries -> Statuses]
    BY <1>1, <1>2, StatusesApart DEF TypeInv
  <2>3. tries' \in [Deliveries -> 0..RetryLimit]
    BY <1>1, <1>2, RowTypes DEF TypeInv
  <2>4. token' \in [Deliveries -> Nat]
    BY <1>1, <1>2, <1>3 DEF TypeInv
  <2>5. timer' \in [Deliveries -> {"none", "running", "due"}]
    BY <1>1, <1>2 DEF TypeInv
  <2> QED BY <1>1, <1>2, <1>5, <2>1, <2>2, <2>3, <2>4, <2>5 DEF TypeInv, Moved
<1>11. RowInv(d)'
  <2>1. RowInv(d) BY RowsOfInvariant DEF IInv
  <2>2. /\ status'[d] = "CLAIMED" /\ tries'[d] = tries[d] + 1 /\ token'[d] = n
        /\ resets'[d] = resets[d]
    BY <1>1, <1>2 DEF TypeInv
  <2>3. \A i \in 1..Len(attempts[d]) : attempts[d][i] \notin {"ALREADY_COMPLETED", "DRY_RUN_SUCCESS"}
    BY <1>1, <1>2, <2>1, RowTypes, StatusesApart DEF RowInv
  <2>4. \A i \in DOMAIN attempts'[d] : attempts'[d][i] \notin {"ALREADY_COMPLETED", "DRY_RUN_SUCCESS"}
    BY <1>2, <1>3, <1>9, <2>3, RowTypes
  <2>5. Len(attempts'[d]) <= RetryLimit * resets'[d] + tries'[d]
    <3> DEFINE used == RetryLimit * resets[d]
               length == Len(attempts[d])
    <3>1. used \in Nat BY <1>2, RowTypes, OneMoreBudget
    <3>2. tries[d] \in Nat /\ length \in Nat BY <1>2, RowTypes
    <3>3. length <= used + tries[d] BY <2>1 DEF RowInv
    <3>4. Len(attempts'[d]) = length + 1 BY <1>3, <1>9
    <3>5. RetryLimit * resets'[d] = used BY <2>2
    <3> HIDE DEF used, length
    <3> QED BY <2>2, <3>1, <3>2, <3>3, <3>4, <3>5
  <2>6. attempts'[d] # <<>>
    BY <1>3, <1>9, <1>2, RowTypes, EmptySeq
  <2> QED BY <1>9, <2>2, <2>4, <2>5, <2>6, StatusesApart DEF RowInv
<1>12. \A e \in Deliveries : e # d => SameRow(e)
  BY <1>1, <1>2 DEF TypeInv, SameRow
<1> QED BY <1>5, <1>6, <1>10, <1>11, <1>12, Transaction

LEMMA RefuseKeeps ==
    ASSUME IInv, NEW w \in Dispatchers, NEW d \in Deliveries, RefuseAtLimit(w, d)
    PROVE  IInv'
<1>1. TypeInv BY DEF IInv
<1>2. /\ status[d] \in {"PENDING", "RETRYABLE_FAILED"} /\ status'[d] = "TERMINAL_FAILED"
      /\ \A e \in Deliveries : e # d => status'[e] = status[e]
      /\ UNCHANGED <<tries, timer, token, attempts, resets, solved, effects, objects, page, wk>>
  BY <1>1 DEF RefuseAtLimit, Open, TypeInv
<1>3. KeepsCompleted /\ Rest
  BY <1>2, StatusesApart DEF KeepsCompleted, Rest
<1>4. TypeInv'
  BY <1>1, <1>2 DEF TypeInv, RefuseAtLimit, Statuses, Stopped
<1>5. RowInv(d)'
  <2>1. RowInv(d) BY RowsOfInvariant DEF IInv
  <2> QED BY <1>2, <2>1, StatusesApart DEF RowInv, Stopped
<1>6. \A e \in Deliveries : e # d => SameRow(e)
  BY <1>2 DEF SameRow
<1> QED BY <1>2, <1>3, <1>4, <1>5, <1>6, Transaction

LEMMA FinishKeeps ==
    ASSUME IInv, NEW w \in Dispatchers, Finish(w)
    PROVE  IInv'
<1>0. PICK d \in Deliveries : d = wk[w].d
  BY DEF Finish, IInv, WorkInv
<1> DEFINE n == wk[w].n
           r == wk[w].result
           x == [Idle EXCEPT !.at = "syncing"]
<1>1. TypeInv BY DEF IInv
<1>2. /\ d \in Deliveries /\ r \in Results
      /\ StatusOf[r] \in Completed => d \in effects
      /\ status[d] = "CLAIMED" /\ token[d] = n
      /\ status' = [status EXCEPT ![d] = StatusOf[r]]
      /\ timer' = [timer EXCEPT ![d] = IF r = "RETRYABLE_FAILURE" THEN "running" ELSE "none"]
      /\ token' = [token EXCEPT ![d] = 0]
      /\ attempts' = [attempts EXCEPT ![d] = [attempts[d] EXCEPT ![n] = r]]
      /\ wk' = [wk EXCEPT ![w] = x]
      /\ UNCHANGED <<tries, resets, solved, effects, objects, page>>
  BY <1>0, <1>1 DEF Finish, HoldsClaim, IInv, WorkInv, TypeInv
<1>3. x \in Works /\ x.at = "syncing" /\ x.seen = None
  BY IdleWorks DEF Works, Phases, Idle
<1> HIDE DEF n, r, x
<1>4. Moved(w) BY <1>1, <1>2, <1>3, MovedBy
<1>5. KeepsCompleted /\ Rest
  BY <1>1, <1>2, StatusesApart DEF KeepsCompleted, Rest, TypeInv
<1>6. RowInv(d) BY <1>2, RowsOfInvariant DEF IInv
<1>7. n = Len(attempts[d]) /\ n \in 1..Len(attempts[d])
  BY <1>1, <1>2, <1>6, RowTypes, EmptySeq DEF RowInv
<1>8. r \in AttemptStatuses BY <1>2 DEF AttemptStatuses
<1>9. /\ [attempts[d] EXCEPT ![n] = r] \in Seq(AttemptStatuses)
      /\ Len([attempts[d] EXCEPT ![n] = r]) = n
      /\ \A i \in 1..n : [attempts[d] EXCEPT ![n] = r][i] = IF i = n THEN r ELSE attempts[d][i]
  BY <1>1, <1>2, <1>7, <1>8, RowTypes, ExceptSeq
<1>10. attempts'[d] = [attempts[d] EXCEPT ![n] = r]
  BY <1>1, <1>2 DEF TypeInv
<1>11. StatusOf[r] \in Statuses /\ StatusOf[r] # "CLAIMED"
  BY <1>2, StatusOfResults, StatusesApart
<1>12. TypeInv'
  <2>1. attempts' \in [Deliveries -> Seq(AttemptStatuses)]
    BY <1>1, <1>2, <1>9 DEF TypeInv
  <2>2. status' \in [Deliveries -> Statuses]
    BY <1>1, <1>2, <1>11 DEF TypeInv
  <2>3. token' \in [Deliveries -> Nat] /\ timer' \in [Deliveries -> {"none", "running", "due"}]
    BY <1>1, <1>2 DEF TypeInv
  <2> QED BY <1>1, <1>2, <1>4, <2>1, <2>2, <2>3 DEF TypeInv, Moved
<1>13. RowInv(d)'
  <2>1. /\ status'[d] = StatusOf[r] /\ tries'[d] = tries[d] /\ resets'[d] = resets[d]
        /\ effects' = effects
    BY <1>1, <1>2 DEF TypeInv
  <2>2. Len(attempts'[d]) = n /\ DOMAIN attempts'[d] = 1..n /\ attempts'[d][n] = r
    BY <1>1, <1>7, <1>9, <1>10, RowTypes, LenProperties
  <2>3. \A i \in DOMAIN attempts'[d] :
            attempts'[d][i] \in {"ALREADY_COMPLETED", "DRY_RUN_SUCCESS"} =>
                i = n /\ StatusOf[r] \in Completed
    <3> SUFFICES ASSUME NEW i \in 1..n,
                        attempts'[d][i] \in {"ALREADY_COMPLETED", "DRY_RUN_SUCCESS"}
                 PROVE  i = n /\ StatusOf[r] \in Completed
      BY <2>2
    <3>1. CASE i = n BY <1>2, <2>2, <3>1, StatusOfResults
    <3>2. CASE i # n
      <4>1. attempts'[d][i] = attempts[d][i] BY <1>9, <1>10, <3>2
      <4>2. i \in DOMAIN attempts[d] BY <1>1, <1>2, <1>7, RowTypes
      <4>3. status[d] \in Completed BY <1>6, <4>1, <4>2 DEF RowInv
      <4> QED BY <1>2, <4>3, StatusesApart
    <3> QED BY <3>1, <3>2
  <2>4. Len(attempts'[d]) <= RetryLimit * resets'[d] + tries'[d]
    BY <1>6, <1>7, <2>1, <2>2 DEF RowInv
  <2> QED BY <1>2, <1>11, <2>1, <2>2, <2>3, <2>4 DEF RowInv
<1>14. \A e \in Deliveries : e # d => SameRow(e)
  BY <1>1, <1>2 DEF TypeInv, SameRow
<1> QED BY <1>4, <1>5, <1>12, <1>13, <1>14, Transaction

LEMMA ResetKeeps ==
    ASSUME IInv, NEW d \in Deliveries, ManualReset(d)
    PROVE  IInv'
<1>1. TypeInv BY DEF IInv
<1>2. /\ status[d] \notin Completed
      /\ status' = [status EXCEPT ![d] = "PENDING"]
      /\ tries' = [tries EXCEPT ![d] = 0]
      /\ timer' = [timer EXCEPT ![d] = "none"]
      /\ token' = [token EXCEPT ![d] = 0]
      /\ resets' = [resets EXCEPT ![d] = @ + 1]
      /\ UNCHANGED <<attempts, solved, effects, objects, page, wk>>
  BY DEF ManualReset, Resettable
<1>3. KeepsCompleted /\ Rest
  BY <1>1, <1>2 DEF KeepsCompleted, Rest, TypeInv
<1>4. TypeInv'
  <2>1. status' \in [Deliveries -> Statuses] BY <1>1, <1>2, StatusesApart DEF TypeInv
  <2>2. tries' \in [Deliveries -> 0..RetryLimit]
    BY <1>1, <1>2, RetryLimitAssumption DEF TypeInv
  <2>3. /\ resets' \in [Deliveries -> Nat] /\ token' \in [Deliveries -> Nat]
        /\ timer' \in [Deliveries -> {"none", "running", "due"}]
    BY <1>1, <1>2 DEF TypeInv
  <2> QED BY <1>1, <1>2, <2>1, <2>2, <2>3 DEF TypeInv
<1>5. RowInv(d)'
  <2>1. RowInv(d) BY RowsOfInvariant DEF IInv
  <2>2. /\ status'[d] = "PENDING" /\ tries'[d] = 0 /\ resets'[d] = resets[d] + 1
        /\ attempts'[d] = attempts[d]
    BY <1>1, <1>2 DEF TypeInv
  <2>3. Len(attempts'[d]) <= RetryLimit * resets'[d] + tries'[d]
    <3> DEFINE used == RetryLimit * resets[d]
    <3>1. used \in Nat /\ RetryLimit * (resets[d] + 1) = used + RetryLimit
      BY <1>1, RowTypes, OneMoreBudget
    <3>2. Len(attempts[d]) <= used + tries[d] BY <2>1 DEF RowInv
    <3> HIDE DEF used
    <3>3. Len(attempts[d]) <= used + RetryLimit BY <1>1, <3>1, <3>2, RowTypes
    <3>4. Len(attempts[d]) <= RetryLimit * resets'[d] BY <2>2, <3>1, <3>3
    <3> QED BY <1>1, <1>4, <2>2, <3>1, <3>4, RowTypes
  <2> QED BY <1>2, <2>1, <2>2, <2>3, StatusesApart DEF RowInv
<1>6. \A e \in Deliveries : e # d => SameRow(e)
  BY <1>1, <1>2 DEF TypeInv, SameRow
<1> QED BY <1>2, <1>3, <1>4, <1>5, <1>6, Transaction

LEMMA ResolveKeeps ==
    ASSUME IInv, NEW w \in Dispatchers, Resolve(w)
    PROVE  IInv'
<1>0. PICK d \in Deliveries : d = wk[w].d
  BY DEF Resolve, IInv, WorkInv
<1> DEFINE next == IF wk[w].at = "found" THEN "SUCCEEDED" ELSE "RETRYABLE_FAILED"
           x == [Idle EXCEPT !.at = "syncing"]
<1>1. TypeInv BY DEF IInv
<1>2. /\ d \in Deliveries /\ status[d] = "UNCERTAIN"
      /\ next \in {"SUCCEEDED", "RETRYABLE_FAILED"}
      /\ next = "SUCCEEDED" => d \in effects
      /\ status' = [status EXCEPT ![d] = next]
      /\ timer' = [timer EXCEPT ![d] = IF wk[w].at = "found" THEN "none" ELSE "due"]
      /\ token' = [token EXCEPT ![d] = 0]
      /\ solved' = [solved EXCEPT ![d] = @ + 1]
      /\ wk' = [wk EXCEPT ![w] = x]
      /\ UNCHANGED <<tries, attempts, resets, effects, objects, page>>
  BY <1>0 DEF Resolve, Resolution, IInv, WorkInv
<1>3. x \in Works /\ x.at = "syncing" /\ x.seen = None
  BY IdleWorks DEF Works, Phases, Idle
<1> HIDE DEF next, x
<1>4. Moved(w) BY <1>1, <1>2, <1>3, MovedBy
<1>5. KeepsCompleted /\ Rest
  BY <1>1, <1>2 DEF KeepsCompleted, Rest, TypeInv, Completed
<1>6. TypeInv'
  <2>1. status' \in [Deliveries -> Statuses]
    BY <1>1, <1>2 DEF TypeInv, Statuses, Completed
  <2>2. /\ token' \in [Deliveries -> Nat] /\ solved' \in [Deliveries -> Nat]
        /\ timer' \in [Deliveries -> {"none", "running", "due"}]
    BY <1>1, <1>2 DEF TypeInv
  <2> QED BY <1>1, <1>2, <1>4, <2>1, <2>2 DEF TypeInv, Moved
<1>7. RowInv(d)'
  <2>1. RowInv(d) BY <1>2, RowsOfInvariant DEF IInv
  <2>2. /\ status'[d] = next /\ solved'[d] = solved[d] + 1 /\ solved[d] \in Nat
        /\ UNCHANGED <<tries, attempts, resets, effects>>
    BY <1>1, <1>2 DEF TypeInv
  <2>3. solved'[d] # 0 /\ next # "CLAIMED" /\ (next \in Completed => d \in effects)
    BY <1>2, <2>2, StatusesApart
  <2>4. status[d] \notin Completed BY <1>2 DEF Completed
  <2> QED BY <2>1, <2>2, <2>3, <2>4 DEF RowInv
<1>8. \A e \in Deliveries : e # d => SameRow(e)
  BY <1>1, <1>2 DEF TypeInv, SameRow
<1> QED BY <1>4, <1>5, <1>6, <1>7, <1>8, Transaction

LEMMA ElapseKeeps ==
    ASSUME IInv, NEW d \in Deliveries, Elapse(d)
    PROVE  IInv'
<1>1. KeepsCompleted /\ Rest /\ wk' = wk /\ \A e \in Deliveries : SameRow(e)
  BY DEF Elapse, KeepsCompleted, Rest, SameRow
<1>2. TypeInv' BY DEF Elapse, IInv, TypeInv
<1> QED BY <1>1, <1>2, Transaction

LEMMA RecoverKeeps ==
    ASSUME IInv, RecoverAbandoned
    PROVE  IInv'
<1>1. TypeInv BY DEF IInv
<1>2. /\ status' = [d \in Deliveries |-> IF d \in Abandoned THEN "RETRYABLE_FAILED" ELSE status[d]]
      /\ token' = [d \in Deliveries |-> IF d \in Abandoned THEN 0 ELSE token[d]]
      /\ UNCHANGED <<tries, timer, resets, solved, effects, objects, page, wk>>
      /\ \A d \in Abandoned : d \in Deliveries /\ status[d] = "CLAIMED"
  BY DEF RecoverAbandoned, Abandoned
<1>3. ASSUME NEW d \in Deliveries, d \in Abandoned
      PROVE  /\ attempts'[d] \in Seq(AttemptStatuses)
             /\ Len(attempts'[d]) = Len(attempts[d])
             /\ DOMAIN attempts'[d] = DOMAIN attempts[d]
             /\ \A i \in DOMAIN attempts[d] :
                   attempts'[d][i] = IF attempts[d][i] = "CLAIMED" THEN "ABANDONED" ELSE attempts[d][i]
  <2> DEFINE s == attempts[d]
             t == [i \in DOMAIN s |-> IF s[i] = "CLAIMED" THEN "ABANDONED" ELSE s[i]]
  <2>1. attempts'[d] = t BY <1>3 DEF RecoverAbandoned
  <2>2. s \in Seq(AttemptStatuses) /\ s \in [DOMAIN s -> AttemptStatuses]
    BY <1>1, RowTypes, LenProperties
  <2>3. t \in [DOMAIN s -> AttemptStatuses] BY <2>2 DEF AttemptStatuses
  <2>4. \A i \in DOMAIN s : t[i] = IF s[i] = "CLAIMED" THEN "ABANDONED" ELSE s[i]
    OBVIOUS
  <2> HIDE DEF s, t
  <2>5. t \in Seq(AttemptStatuses) /\ Len(t) = Len(s) /\ DOMAIN t = DOMAIN s
    BY <2>2, <2>3, Rewritten
  <2> QED BY <2>1, <2>4, <2>5 DEF s
<1>4. ASSUME NEW d \in Deliveries, d \notin Abandoned
      PROVE  SameRow(d)
  BY <1>2, <1>4 DEF RecoverAbandoned, SameRow
<1>5. KeepsCompleted /\ Rest
  BY <1>2, StatusesApart DEF KeepsCompleted, Rest
<1>6. TypeInv'
  <2>1. attempts' \in [Deliveries -> Seq(AttemptStatuses)]
    <3>1. \A d \in Deliveries : attempts'[d] \in Seq(AttemptStatuses)
      BY <1>1, <1>3, <1>4, RowTypes DEF SameRow
    <3>2. attempts' = [d \in Deliveries |-> attempts'[d]]
      BY DEF RecoverAbandoned
    <3> QED BY <3>1, <3>2
  <2>2. status' \in [Deliveries -> Statuses]
    BY <1>1, <1>2, StatusesApart DEF TypeInv
  <2>3. token' \in [Deliveries -> Nat]
    BY <1>1, <1>2 DEF TypeInv
  <2> QED BY <1>1, <1>2, <2>1, <2>2, <2>3 DEF TypeInv
<1>7. ASSUME NEW d \in Deliveries, d \in Abandoned
      PROVE  RowInv(d)'
  <2>1. RowInv(d) BY RowsOfInvariant DEF IInv
  <2>2. status'[d] = "RETRYABLE_FAILED" /\ status[d] = "CLAIMED"
    BY <1>2, <1>7
  <2>3. \A i \in DOMAIN attempts'[d] : attempts'[d][i] \notin {"ALREADY_COMPLETED", "DRY_RUN_SUCCESS"}
    BY <1>3, <1>7, <2>1, <2>2, StatusesApart DEF RowInv
  <2>4. Len(attempts'[d]) <= RetryLimit * resets'[d] + tries'[d]
    BY <1>2, <1>3, <1>7, <2>1 DEF RowInv
  <2> QED BY <2>2, <2>3, <2>4, StatusesApart DEF RowInv
<1> QED BY <1>2, <1>4, <1>5, <1>6, <1>7, Transaction

----------------------------------------------------------------------------
(* The invariant holds, and what follows from it *)

LEMMA InitHolds == ASSUME Init PROVE IInv
<1>1. \A d \in Deliveries : /\ status[d] = "ABSENT" /\ attempts[d] = <<>> /\ tries[d] = 0
                            /\ resets[d] = 0 /\ solved[d] = 0
  BY DEF Init
<1>2. TypeInv
  <2>1. wk \in [Dispatchers -> Works] BY IdleWorks DEF Init
  <2>2. attempts \in [Deliveries -> Seq(AttemptStatuses)]
    BY EmptySeq DEF Init
  <2>3. tries \in [Deliveries -> 0..RetryLimit] BY RetryLimitAssumption DEF Init
  <2> QED BY <2>1, <2>2, <2>3, StatusesApart DEF Init, TypeInv
<1>3. ASSUME NEW d \in Deliveries PROVE RowInv(d)
  <2>1. RetryLimit * resets[d] + tries[d] = 0 BY <1>1, RetryLimitAssumption
  <2>2. Len(attempts[d]) = 0 /\ DOMAIN attempts[d] = {} BY <1>1, EmptySeq, LenProperties
  <2> QED BY <1>1, <2>1, <2>2, StatusesApart DEF RowInv
<1>4. Shown(page) BY DEF Init, Shown
<1>5. \A w \in Dispatchers : WorkInv(w)
  BY IdleWorks DEF Init, WorkInv, Shown
<1> QED BY <1>2, <1>3, <1>4, <1>5, RowsOfInvariant DEF IInv

LEMMA StutterKeeps == ASSUME IInv, UNCHANGED vars PROVE IInv'
<1> USE DEF vars
<1>1. TypeInv' BY DEF IInv, TypeInv
<1>2. (ClaimedHasAttempt /\ LatestClaimDecides /\ BudgetInv /\ CompletedHasEffect)'
  BY DEF IInv, ClaimedHasAttempt, LatestClaimDecides, BudgetInv, CompletedHasEffect
<1>3. Shown(page)' BY DEF IInv, Shown
<1>4. \A w \in Dispatchers : WorkInv(w)' BY DEF IInv, WorkInv, Shown
<1> QED BY <1>1, <1>2, <1>3, <1>4 DEF IInv

\* The operations of the store that change rows; all else leaves them alone.
StoreStep ==
    \/ \E types \in SUBSET Deliveries : CompileThesis(types)
    \/ \E w \in Dispatchers :
           (\E d \in Deliveries : Claim(w, d) \/ RefuseAtLimit(w, d)) \/ Finish(w) \/ Resolve(w)
    \/ RecoverAbandoned
    \/ \E d \in Deliveries : ManualReset(d) \/ Elapse(d)

LEMMA StepCases ==
    ASSUME IInv, Next
    PROVE  StoreStep \/ \E w \in Dispatchers : LocalStep(w)
  BY OutsideTheStore DEF Next, StoreStep, Dispatch, Reconcile

LEMMA StepKeeps == IInv /\ [Next]_vars => IInv'
<1> SUFFICES ASSUME IInv, [Next]_vars PROVE IInv' OBVIOUS
<1>1. CASE \E w \in Dispatchers : LocalStep(w) BY <1>1, LocalKeeps
<1>2. CASE StoreStep
  BY <1>2, CompileKeeps, ClaimKeeps, RefuseKeeps, FinishKeeps, ResolveKeeps, RecoverKeeps,
     ResetKeeps, ElapseKeeps DEF StoreStep
<1>3. CASE UNCHANGED vars BY <1>3, StutterKeeps
<1> QED BY <1>1, <1>2, <1>3, StepCases

\* The strengthening is inductive.
THEOREM Invariance == Spec => []IInv
  BY InitHolds, StepKeeps, PTL DEF Spec

\* Every row, claim, page and dispatcher of the output store has its type.
THEOREM TypesCorrect == Spec => []TypeOK
<1>1. IInv => TypeOK
  BY DEF IInv, TypeInv, TypeOK, Works, Phases, AttemptStatuses
<1> QED BY <1>1, Invariance, PTL

\* Whatever dispatchers were overtaken by a recovery or a reset, the result
\* a delivery shows is the one of its latest claim.
THEOREM LatestDecides == Spec => []LatestClaimDecides
<1>1. IInv => LatestClaimDecides BY DEF IInv
<1> QED BY <1>1, Invariance, PTL

\* Abandoned claims count: retry_limit attempts between two operator resets.
THEOREM AttemptsBudgeted == Spec => []AttemptBudget
<1>1. IInv => AttemptBudget
  <2> SUFFICES ASSUME IInv, NEW d \in Deliveries
               PROVE  Len(attempts[d]) <= RetryLimit * (1 + resets[d])
    BY DEF AttemptBudget
  <2> DEFINE used == RetryLimit * resets[d]
  <2>1. TypeInv BY DEF IInv
  <2>2. used \in Nat /\ RetryLimit * (1 + resets[d]) = used + RetryLimit
    BY <2>1, RowTypes, OneMoreBudget
  <2>3. Len(attempts[d]) <= used + tries[d] BY DEF IInv, BudgetInv
  <2> HIDE DEF used
  <2> QED BY <2>1, <2>2, <2>3, RowTypes
<1> QED BY <1>1, Invariance, PTL

\* No delivery is completed, by a result or by an operator, whose effect the
\* lookup of its transport would not find.
THEOREM EffectsHappened == Spec => []CompletedHasEffect
<1>1. IInv => CompletedHasEffect BY DEF IInv
<1> QED BY <1>1, Invariance, PTL

\* The page of NOTION may lag, but never shows an unfinished delivery done.
THEOREM PageHonest == Spec => []PageIsHonest
<1>1. IInv => PageIsHonest BY DEF IInv, Shown, PageIsHonest
<1> QED BY <1>1, Invariance, PTL

\* No operation of the store, nor of any dispatcher, moves a completed
\* delivery.
THEOREM CompletedStays == Spec => CompletedIsFinal
<1>1. IInv /\ [Next]_vars => KeepsCompleted
  <2> SUFFICES ASSUME IInv, [Next]_vars, NEW d \in Deliveries, status[d] \in Completed
               PROVE  status'[d] = status[d]
    BY DEF KeepsCompleted
  <2>0. TypeInv /\ status[d] \notin {"ABSENT", "PENDING", "CLAIMED", "RETRYABLE_FAILED", "UNCERTAIN"}
    BY StatusesApart DEF IInv, Completed
  <2>1. CASE \E w \in Dispatchers : LocalStep(w) BY <2>1 DEF LocalStep, Rows
  <2>2. CASE UNCHANGED vars BY <2>2 DEF vars
  <2>3. CASE StoreStep
    <3>1. ASSUME NEW types \in SUBSET Deliveries, CompileThesis(types) PROVE FALSE
      BY <2>0, <3>1 DEF CompileThesis
    <3>2. ASSUME NEW w \in Dispatchers, NEW e \in Deliveries, Claim(w, e) \/ RefuseAtLimit(w, e)
          PROVE  status'[d] = status[d]
      BY <2>0, <3>2 DEF Claim, RefuseAtLimit, Claimable, Open, TypeInv
    <3>3. ASSUME NEW w \in Dispatchers, Finish(w) \/ Resolve(w) PROVE status'[d] = status[d]
      BY <2>0, <3>3 DEF Finish, HoldsClaim, Resolve, TypeInv
    <3>4. CASE RecoverAbandoned
      BY <2>0, <3>4 DEF RecoverAbandoned, Abandoned
    <3>5. ASSUME NEW e \in Deliveries, ManualReset(e) \/ Elapse(e) PROVE status'[d] = status[d]
      BY <2>0, <3>5 DEF ManualReset, Resettable, Elapse, TypeInv
    <3> QED BY <2>3, <3>1, <3>2, <3>3, <3>4, <3>5 DEF StoreStep
  <2> QED BY <2>1, <2>2, <2>3, StepCases
<1> QED BY <1>1, Invariance, PTL DEF Spec, CompletedIsFinal, KeepsCompleted

\* A failed, blocked or uncertain delivery is released by an audited
\* operation only: a reset or a reconciliation.
THEOREM OperatorsRelease == Spec => OperatorReleases
<1> DEFINE Audited ==
      \A d \in Deliveries :
          status[d] \in Stopped /\ status'[d] # status[d] =>
              resets'[d] + solved'[d] > resets[d] + solved[d]
<1>1. IInv /\ [Next]_vars => Audited
  <2> SUFFICES ASSUME IInv, [Next]_vars, NEW d \in Deliveries, status[d] \in Stopped,
                      status'[d] # status[d]
               PROVE  resets'[d] + solved'[d] > resets[d] + solved[d]
    OBVIOUS
  <2>0. /\ TypeInv /\ resets[d] \in Nat /\ solved[d] \in Nat
        /\ status[d] \notin {"ABSENT", "PENDING", "CLAIMED", "RETRYABLE_FAILED"}
    BY StatusesApart, RowTypes DEF IInv
  <2>1. StoreStep
    BY StepCases DEF LocalStep, Rows, vars
  <2>2. ASSUME NEW types \in SUBSET Deliveries, CompileThesis(types) PROVE FALSE
    BY <2>0, <2>2 DEF CompileThesis
  <2>3. ASSUME NEW w \in Dispatchers, NEW e \in Deliveries, Claim(w, e) \/ RefuseAtLimit(w, e)
        PROVE  FALSE
    BY <2>0, <2>3 DEF Claim, RefuseAtLimit, Claimable, Open, TypeInv
  <2>4. ASSUME NEW w \in Dispatchers, Finish(w) PROVE FALSE
    BY <2>0, <2>4 DEF Finish, HoldsClaim, TypeInv
  <2>5. CASE RecoverAbandoned
    BY <2>0, <2>5 DEF RecoverAbandoned, Abandoned
  <2>6. ASSUME NEW e \in Deliveries, Elapse(e) PROVE FALSE
    BY <2>6 DEF Elapse
  <2>7. ASSUME NEW w \in Dispatchers, Resolve(w)
        PROVE  resets'[d] = resets[d] /\ solved'[d] = solved[d] + 1
    <3>1. d = wk[w].d BY <2>0, <2>7 DEF Resolve, TypeInv
    <3> QED BY <2>0, <2>7, <3>1 DEF Resolve, TypeInv
  <2>8. ASSUME NEW e \in Deliveries, ManualReset(e)
        PROVE  resets'[d] = resets[d] + 1 /\ solved'[d] = solved[d]
    <3>1. d = e BY <2>0, <2>8 DEF ManualReset, TypeInv
    <3> QED BY <2>0, <2>8, <3>1 DEF ManualReset, TypeInv
  <2> QED BY <2>0, <2>1, <2>2, <2>3, <2>4, <2>5, <2>6, <2>7, <2>8 DEF StoreStep
<1> QED BY <1>1, Invariance, PTL DEF Spec, OperatorReleases

============================================================================
