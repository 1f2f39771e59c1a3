------------------------- MODULE ReviewAuditProofs --------------------------
(***************************************************************************)
(* Proofs about the AI reviews of one request, for any number of           *)
(* reviewers, dispatches, replies and attempts: the lock excludes, the     *)
(* completed verdict is written once and is the last one audited, the      *)
(* model is called within its budget, and only waiters break the chain.    *)
(***************************************************************************)
EXTENDS ReviewAudit, TLAPS, FiniteSetTheorems

Candidates == {reply.candidate : reply \in Replies}
Fingerprints == {d.fingerprint : d \in Dispatches}
Results == [attempt : 1..MaxReviews, verdict : Candidates]
Outcomes == {"NONE", "VERDICT", "INPUT_REJECTION", "TECHNICAL_FAILURE"}
Guarded == {"metadata", "preflight", "load", "invoke", "save", "release"}
Phases == Guarded \cup {"idle", "lock", "read", "append"}
Reviews ==
    [pc : Phases, attempt : 0..MaxReviews, dispatch : Dispatches \cup {Nothing},
     prev : 0..MaxReviews, outcome : Outcomes, candidate : Candidates \cup {Nothing},
     locked : BOOLEAN]
Entries ==
    [attempt : 0..MaxReviews, prev : 0..MaxReviews, outcome : Outcomes, locked : BOOLEAN,
     verdict : Candidates \cup {Nothing}]

Tails == {"whole", "partial", "glued"}

TypeOK ==
    /\ now \in Nat
    /\ lock \in Reviewers \cup {Free, Stale}
    /\ metadata \in Fingerprints \cup {Nothing, Torn}
    /\ chain \in Seq(Entries)
    /\ tail \in Tails
    /\ completed \in Results \cup {Nothing, Torn}
    /\ rv \in [Reviewers -> Reviews]
    /\ started \in 0..MaxReviews
    /\ called \in SUBSET (1..MaxReviews)
    /\ released \in SUBSET Results

----------------------------------------------------------------------------
(* The inductive invariant: what each review may rely on, in its phase.    *)

\* The lock is held where the code is inside its with block; a review that
\* records a failure without it knows so.
LockInv(r) ==
    /\ rv[r].pc \in Guarded => lock = r
    /\ rv[r].pc \in {"idle", "lock"} => lock # r
    /\ rv[r].pc \in {"read", "append"} => (rv[r].locked <=> lock = r)

\* Each review has an attempt number of its own; it is not in the chain
\* before it is appended, nor counted as a call before the call.
NumberInv(r) ==
    /\ rv[r].pc # "idle" => rv[r].attempt \in 1..started /\ rv[r].dispatch \in Dispatches
    /\ rv[r].pc \notin {"idle", "save", "release"} =>
          \A i \in DOMAIN chain : chain[i].attempt # rv[r].attempt
    /\ rv[r].pc \in {"lock", "metadata", "preflight", "load"} => rv[r].attempt \notin called
    /\ rv[r].pc \in {"read", "append"} /\ rv[r].attempt \in called => rv[r].locked

\* The last verdict of the chain is this one.
Audited(attempt, verdict) ==
    \E i \in DOMAIN chain :
        /\ chain[i].attempt = attempt /\ chain[i].verdict = verdict
        /\ \A j \in i + 1 .. Len(chain) : chain[j].outcome # "VERDICT"

Verdict(r) == rv[r].pc \in {"read", "append"} /\ rv[r].outcome = "VERDICT"

\* Who calls the model, or carries its verdict, found no result and keeps
\* everybody else from writing one.
ResultInv(r) ==
    /\ rv[r].pc \in {"invoke", "save"} \/ Verdict(r) => completed = Nothing
    /\ Verdict(r) => rv[r].locked /\ rv[r].candidate \in Candidates
    /\ rv[r].pc = "save" => rv[r].candidate \in Candidates /\ Audited(rv[r].attempt, rv[r].candidate)
    /\ rv[r].pc = "release" => rv[r].candidate \in Candidates /\ completed = Result(r)

\* Under the lock, the last record is the one that was read, or a waiter's.
ChainInv(r) ==
    rv[r].pc = "append" /\ rv[r].locked =>
        rv[r].prev = LastAttempt \/ (chain # <<>> /\ ~chain[Len(chain)].locked)

ReviewInv(r) == LockInv(r) /\ NumberInv(r) /\ ResultInv(r) /\ ChainInv(r)

Distinct ==
    \A r, s \in Reviewers :
        r # s /\ rv[r].pc # "idle" /\ rv[s].pc # "idle" => rv[r].attempt # rv[s].attempt

Numbers ==
    /\ called \in SUBSET (1..started)
    /\ \A i \in DOMAIN chain : chain[i].attempt <= started

InFlight(r) == rv[r].pc \in {"invoke", "read", "append"} /\ rv[r].attempt \in called

Budget ==
    /\ Cardinality(CallsRecorded) <= MaxAttempts
    /\ \A r \in Reviewers : InFlight(r) => Cardinality(CallsRecorded) < MaxAttempts

IInv ==
    /\ TypeOK
    /\ \A r \in Reviewers : ReviewInv(r)
    /\ Distinct /\ Numbers /\ Budget
    /\ CompletedIsLastVerdict /\ OnlyWaitersBreakTheChain

----------------------------------------------------------------------------
(* Steps that leave the files of results alone *)

\* The lock moves only to a reviewer that finds it free, or away from the
\* one that holds it.
LockStep(r) ==
    \/ lock' = lock
    \/ lock = Free /\ lock' = r
    \/ lock = r /\ lock' \in {Free, Stale}

Quiet == UNCHANGED <<chain, completed, called, started>>

Moves(r) ==
    /\ rv' \in [Reviewers -> Reviews]
    /\ \A s \in Reviewers : s # r => rv'[s] = rv[s]

\* What other reviews rely on survives a step that leaves those files alone.
LEMMA OthersQuiet ==
    ASSUME IInv, NEW r \in Reviewers, NEW s \in Reviewers, s # r, rv'[s] = rv[s], Quiet, LockStep(r)
    PROVE  ReviewInv(s)'
<1> USE DEF Quiet
<1>1. LockInv(s)'
  BY LockAssumption DEF IInv, ReviewInv, LockInv, LockStep, TypeOK
<1>2. NumberInv(s)'
  BY DEF IInv, ReviewInv, NumberInv
<1>3. ResultInv(s)'
  BY DEF IInv, ReviewInv, ResultInv, Verdict, Audited, Result
<1>4. ChainInv(s)'
  BY DEF IInv, ReviewInv, ChainInv, LastAttempt
<1> QED BY <1>1, <1>2, <1>3, <1>4 DEF ReviewInv

\* A step of one review that leaves those files alone keeps the invariant
\* when the review itself does.
LEMMA QuietStep ==
    ASSUME IInv, NEW r \in Reviewers, Moves(r), Quiet, LockStep(r), TypeOK', ReviewInv(r)',
           rv'[r].pc = "idle" \/ (rv[r].pc # "idle" /\ rv'[r].attempt = rv[r].attempt),
           InFlight(r)' => InFlight(r)
    PROVE  IInv'
<1> USE DEF Quiet
<1>1. \A s \in Reviewers : ReviewInv(s)'
  BY OthersQuiet DEF Moves
<1>2. Distinct'
  BY DEF IInv, Distinct, Moves
<1>3. Numbers'
  BY DEF IInv, Numbers
<1>4. CallsRecorded' = CallsRecorded
  BY DEF CallsRecorded
<1>5. Budget'
  BY <1>4 DEF IInv, Budget, InFlight, Moves
<1>6. CompletedIsLastVerdict' /\ OnlyWaitersBreakTheChain'
  BY DEF IInv, CompletedIsLastVerdict, OnlyWaitersBreakTheChain, Written
<1> QED BY <1>1, <1>2, <1>3, <1>5, <1>6 DEF IInv

\* A review that returns, raises or stops.
Ends(r) ==
    /\ rv' = [rv EXCEPT ![r] = Idle]
    /\ (lock = r /\ lock' \in {Free, Stale}) \/ (lock # r /\ lock' = lock)

LEMMA LeaveEnds ==
    ASSUME NEW r \in Reviewers, Leave(r)
    PROVE  Ends(r)
BY DEF Leave, Ends, Holds

LEMMA EndsMoves ==
    ASSUME TypeOK, NEW r \in Reviewers, Ends(r)
    PROVE  /\ Moves(r) /\ rv'[r] = Idle /\ LockStep(r) /\ lock' # r
           /\ lock' \in Reviewers \cup {Free, Stale}
<1>1. Idle \in Reviews
  BY ReviewBounds DEF Idle, Reviews, Phases, Guarded, Outcomes
<1>2. Moves(r) /\ rv'[r] = Idle
  BY <1>1 DEF Ends, Moves, TypeOK
<1>3. LockStep(r) /\ lock' # r /\ lock' \in Reviewers \cup {Free, Stale}
  BY LockAssumption DEF Ends, LockStep, TypeOK
<1> QED BY <1>2, <1>3

LEMMA IdleInv ==
    ASSUME NEW r \in Reviewers, rv'[r] = Idle, lock' # r
    PROVE  ReviewInv(r)' /\ ~InFlight(r)'
BY DEF Idle, ReviewInv, LockInv, NumberInv, ResultInv, Verdict, ChainInv, Guarded, InFlight

LEMMA EndsStep ==
    ASSUME IInv, NEW r \in Reviewers, Ends(r), Quiet, now' = now, released' \in SUBSET Results,
           metadata' \in Fingerprints \cup {Nothing, Torn}, tail' \in Tails
    PROVE  IInv'
<1>1. Moves(r) /\ rv'[r] = Idle /\ LockStep(r) /\ lock' # r /\ lock' \in Reviewers \cup {Free, Stale}
  BY EndsMoves DEF IInv
<1>2. TypeOK'
  BY <1>1 DEF IInv, TypeOK, Moves, Quiet
<1>3. ReviewInv(r)' /\ ~InFlight(r)'
  BY <1>1, IdleInv
<1>4. rv'[r].pc = "idle"
  BY <1>1 DEF Idle
<1>5. InFlight(r)' => InFlight(r)
  BY <1>3
<1> QED BY <1>1, <1>2, <1>3, <1>4, <1>5, QuietStep

\* A review that goes on under the lock.
LEMMA GotoStep ==
    ASSUME IInv, NEW r \in Reviewers, NEW pc \in {"metadata", "preflight", "load"}, Goto(r, pc),
           rv[r].pc \in {"lock", "metadata", "preflight"}, lock \in {r, Free}, lock' = r, Quiet,
           now' = now, tail' = tail, released' = released, metadata' \in Fingerprints \cup {Nothing, Torn}
    PROVE  IInv'
<1>0. rv \in [Reviewers -> Reviews] /\ rv[r] \in Reviews /\ ReviewInv(r)
  BY DEF IInv, TypeOK
<1> DEFINE X == [rv[r] EXCEPT !.pc = pc]
<1>1. X \in Reviews
  BY <1>0 DEF Reviews, Phases, Guarded
<1>2. Moves(r) /\ rv'[r] = X
  BY <1>0, <1>1 DEF Goto, Moves
<1>3. /\ rv'[r].pc = pc /\ rv'[r].attempt = rv[r].attempt /\ rv'[r].dispatch = rv[r].dispatch
      /\ pc # "idle" /\ rv[r].pc # "idle"
  BY <1>0, <1>2 DEF Reviews
<1> HIDE DEF X
<1>4. TypeOK'
  BY <1>2 DEF IInv, TypeOK, Moves, Quiet
<1>5. ReviewInv(r)'
  BY <1>0, <1>3 DEF ReviewInv, LockInv, NumberInv, ResultInv, Verdict, ChainInv, Guarded, Quiet
<1>6. InFlight(r)' => InFlight(r)
  BY <1>3 DEF InFlight
<1>7. LockStep(r)
  BY DEF LockStep
<1> QED BY <1>2, <1>3, <1>4, <1>5, <1>6, <1>7, QuietStep

\* A review that takes up the recording of an outcome.
LEMMA RecordStep ==
    ASSUME IInv, NEW r \in Reviewers, NEW o \in {"INPUT_REJECTION", "TECHNICAL_FAILURE"},
           rv[r].pc \in {"lock", "metadata", "preflight", "load", "invoke"}, Record(r, o), Quiet,
           UNCHANGED <<now, lock, metadata, tail, released>>
    PROVE  IInv'
<1> USE DEF Quiet
<1>0. rv \in [Reviewers -> Reviews] /\ rv[r] \in Reviews
  BY DEF IInv, TypeOK
<1> DEFINE X == [rv[r] EXCEPT !.pc = "read", !.outcome = o, !.locked = (lock = r)]
<1>x. X \in Reviews
  BY <1>0 DEF Reviews, Outcomes, Phases
<1>1. Moves(r) /\ rv'[r] = X
  BY <1>0, <1>x DEF Record, Moves, Holds
<1>2. TypeOK'
  BY <1>1 DEF IInv, TypeOK, Moves
<1>3. ReviewInv(r)
  BY DEF IInv
<1>4. /\ rv'[r].pc = "read" /\ rv'[r].attempt = rv[r].attempt /\ rv'[r].outcome = o
      /\ rv'[r].dispatch = rv[r].dispatch
  BY <1>0, <1>1 DEF Reviews
<1>5. rv'[r].locked = (lock = r) /\ lock' = lock
  BY <1>0, <1>1 DEF Reviews
<1> HIDE DEF X
<1>6. ReviewInv(r)'
  <2>1. rv'[r].pc \notin Guarded \cup {"idle", "lock"}
    BY <1>4 DEF Guarded
  <2>2. LockInv(r)'
    BY <1>5, <2>1, Zenon DEF LockInv
  <2>3. lock = r => rv'[r].locked
    BY <1>5, Zenon
  <2>4. NumberInv(r)'
    BY <1>3, <1>4, <2>3 DEF ReviewInv, NumberInv, LockInv, Guarded
  <2>5. ResultInv(r)'
    BY <1>4 DEF ResultInv, Verdict
  <2>6. ChainInv(r)'
    BY <1>4 DEF ChainInv
  <2> QED BY <2>2, <2>4, <2>5, <2>6 DEF ReviewInv
<1>7. InFlight(r)' => InFlight(r)
  BY <1>3, <1>4 DEF InFlight, ReviewInv, NumberInv
<1> QED BY <1>1, <1>2, <1>4, <1>6, <1>7, QuietStep DEF LockStep

----------------------------------------------------------------------------
(* Steps that begin a review, call the model, audit or write a result      *)

LEMMA ChainTypes ==
    ASSUME TypeOK
    PROVE  /\ Len(chain) \in Nat /\ DOMAIN chain = 1..Len(chain)
           /\ \A i \in DOMAIN chain : chain[i] \in Entries /\ chain[i].attempt \in 0..MaxReviews
<1>1. chain \in Seq(Entries)
  BY DEF TypeOK
<1>2. Len(chain) \in Nat /\ DOMAIN chain = 1..Len(chain) /\ \A i \in DOMAIN chain : chain[i] \in Entries
  BY <1>1
<1> QED BY <1>2 DEF Entries

LEMMA StartStep ==
    ASSUME IInv, NEW r \in Reviewers, NEW d \in Dispatches, Start(r, d)
    PROVE  IInv'
<1>0. rv \in [Reviewers -> Reviews] /\ ReviewInv(r)
  BY DEF IInv, TypeOK
<1> DEFINE X == [Idle EXCEPT !.pc = "lock", !.attempt = started + 1, !.dispatch = d]
<1>1a. started + 1 \in 0..MaxReviews /\ started + 1 \in 1..MaxReviews
  BY ReviewBounds DEF Start, IInv, TypeOK
<1>1b. Idle \in Reviews
  BY ReviewBounds DEF Idle, Reviews, Phases, Guarded, Outcomes
<1>1. /\ rv' = [rv EXCEPT ![r] = X] /\ started' = started + 1
      /\ UNCHANGED <<now, lock, metadata, chain, tail, completed, called, released>>
  BY DEF Start, files
<1>2. X \in Reviews
  BY <1>1a, <1>1b DEF Reviews, Phases
<1>3. /\ rv' \in [Reviewers -> Reviews] /\ rv'[r] = X
      /\ \A s \in Reviewers : s # r => rv'[s] = rv[s]
  BY <1>0, <1>1, <1>2
<1>4. rv'[r].pc = "lock" /\ rv'[r].attempt = started + 1 /\ rv'[r].dispatch = d
  BY <1>1b, <1>3 DEF Reviews
<1> HIDE DEF X
<1>5. TypeOK'
  BY <1>1, <1>1a, <1>3 DEF IInv, TypeOK
<1>6. started \in Nat /\ started' = started + 1
  BY <1>1, ReviewBounds DEF IInv, TypeOK
<1>7. ReviewInv(r)'
  <2>1. lock # r
    BY <1>0 DEF ReviewInv, LockInv, Start, At
  <2>2. \A i \in DOMAIN chain : chain[i].attempt \in 0..MaxReviews
    BY ChainTypes DEF IInv
  <2>3. NumberInv(r)'
    BY <1>1, <1>4, <1>6, <2>2 DEF NumberInv, IInv, Numbers
  <2> QED BY <1>1, <1>4, <2>1, <2>3 DEF ReviewInv, LockInv, ResultInv, Verdict, ChainInv, Guarded
<1>8. ASSUME NEW s \in Reviewers, s # r
      PROVE  ReviewInv(s)'
  <2>1. ReviewInv(s) /\ rv'[s] = rv[s]
    BY <1>3, <1>8 DEF IInv
  <2>2. LockInv(s)' /\ ChainInv(s)'
    BY <1>1, <2>1 DEF ReviewInv, LockInv, ChainInv, LastAttempt
  <2>3. NumberInv(s)'
    BY <1>1, <1>6, <2>1 DEF ReviewInv, NumberInv
  <2>4. ResultInv(s)'
    BY <1>1, <2>1 DEF ReviewInv, ResultInv, Verdict, Audited, Result
  <2> QED BY <2>2, <2>3, <2>4 DEF ReviewInv
<1>9. Distinct'
  <2>1. \A s \in Reviewers : rv[s].pc # "idle" => rv[s].attempt \in 1..started
    BY DEF IInv, ReviewInv, NumberInv
  <2> QED BY <1>3, <1>4, <1>6, <2>1 DEF IInv, Distinct
<1>10. Numbers'
  <2>1. \A i \in DOMAIN chain : chain[i].attempt \in 0..MaxReviews
    BY ChainTypes DEF IInv
  <2> QED BY <1>1, <1>6, <2>1 DEF IInv, Numbers
<1>11. Budget'
  <2>1. CallsRecorded' = CallsRecorded
    BY <1>1 DEF CallsRecorded
  <2> QED BY <1>1, <1>3, <1>4, <2>1 DEF IInv, Budget, InFlight
<1>12. CompletedIsLastVerdict' /\ OnlyWaitersBreakTheChain'
  BY <1>1 DEF IInv, CompletedIsLastVerdict, OnlyWaitersBreakTheChain, Written
<1> QED BY <1>5, <1>7, <1>8, <1>9, <1>10, <1>11, <1>12 DEF IInv

\* Fewer calls are recorded than records are in the chain.
LEMMA RecordedInChain ==
    ASSUME TypeOK
    PROVE  IsFiniteSet(CallsRecorded) /\ Cardinality(CallsRecorded) \in Nat
           /\ Cardinality(CallsRecorded) <= Len(chain)
<1>1. Len(chain) \in Nat /\ CallsRecorded \subseteq 1..Len(chain)
  BY DEF TypeOK, CallsRecorded
<1>2. IsFiniteSet(1..Len(chain)) /\ Cardinality(1..Len(chain)) = Len(chain)
  BY <1>1, FS_Interval
<1> QED BY <1>1, <1>2, FS_Subset, FS_CardinalityType

LEMMA InvokeStep ==
    ASSUME IInv, NEW r \in Reviewers, Invoke(r)
    PROVE  IInv'
<1>0. rv \in [Reviewers -> Reviews] /\ rv[r] \in Reviews /\ ReviewInv(r) /\ rv[r].pc = "load"
  BY DEF IInv, TypeOK, Invoke, NoResult, At
<1> DEFINE X == [rv[r] EXCEPT !.pc = "invoke"]
<1>1. /\ rv' = [rv EXCEPT ![r] = X] /\ called' = called \cup {rv[r].attempt}
      /\ UNCHANGED <<now, lock, metadata, chain, tail, completed, started, released>>
      /\ completed = Nothing /\ ~Exhausted
  BY DEF Invoke, NoResult, Goto, files
<1>2. X \in Reviews
  BY <1>0 DEF Reviews, Phases, Guarded
<1>3. /\ rv' \in [Reviewers -> Reviews] /\ rv'[r] = X
      /\ \A s \in Reviewers : s # r => rv'[s] = rv[s]
  BY <1>0, <1>1, <1>2
<1>4. rv'[r].pc = "invoke" /\ rv'[r].attempt = rv[r].attempt /\ rv'[r].dispatch = rv[r].dispatch
  BY <1>0, <1>3 DEF Reviews
<1> HIDE DEF X
<1>5. rv[r].attempt \in 1..started /\ \A i \in DOMAIN chain : chain[i].attempt # rv[r].attempt
  BY <1>0 DEF ReviewInv, NumberInv
<1>5a. rv[r].attempt \in 1..MaxReviews
  BY <1>5, ReviewBounds DEF IInv, TypeOK
<1>6. TypeOK'
  BY <1>1, <1>3, <1>5a DEF IInv, TypeOK
<1>7. ReviewInv(r)'
  BY <1>0, <1>1, <1>4 DEF ReviewInv, LockInv, NumberInv, ResultInv, Verdict, ChainInv, Guarded
<1>8. ASSUME NEW s \in Reviewers, s # r
      PROVE  ReviewInv(s)'
  <2>1. ReviewInv(s) /\ rv'[s] = rv[s]
    BY <1>3, <1>8 DEF IInv
  <2>2. LockInv(s)' /\ ChainInv(s)'
    BY <1>1, <2>1 DEF ReviewInv, LockInv, ChainInv, LastAttempt
  <2>3. rv[s].pc # "idle" => rv[s].attempt # rv[r].attempt
    BY <1>0, <1>8 DEF IInv, Distinct
  <2>4. NumberInv(s)'
    BY <1>1, <2>1, <2>3 DEF ReviewInv, NumberInv
  <2>5. ResultInv(s)'
    BY <1>1, <2>1 DEF ReviewInv, ResultInv, Verdict, Audited, Result
  <2> QED BY <2>2, <2>4, <2>5 DEF ReviewInv
<1>9. Distinct' /\ Numbers'
  BY <1>0, <1>1, <1>3, <1>4, <1>5 DEF IInv, Distinct, Numbers
<1>10. Budget'
  <2>1. CallsRecorded' = CallsRecorded
    BY <1>1, <1>5 DEF CallsRecorded
  <2>2. Cardinality(CallsRecorded) < MaxAttempts
    <3>1. Len(chain) \in Nat /\ Len(chain) < MaxAttempts
      BY <1>1, ReviewBounds DEF Exhausted, Lines, IInv, TypeOK
    <3> QED BY <3>1, RecordedInChain, ReviewBounds DEF IInv
  <2> QED BY <2>1, <2>2, RecordedInChain, ReviewBounds DEF Budget, IInv
<1>11. CompletedIsLastVerdict' /\ OnlyWaitersBreakTheChain'
  BY <1>1 DEF IInv, CompletedIsLastVerdict, OnlyWaitersBreakTheChain, Written
<1> QED BY <1>6, <1>7, <1>8, <1>9, <1>10, <1>11 DEF IInv

\* Two calls cannot be in flight at once.
LEMMA OneInFlight ==
    ASSUME IInv, NEW r \in Reviewers, InFlight(r)
    PROVE  lock = r
<1>1. ReviewInv(r)
  BY DEF IInv
<1> QED BY <1>1 DEF InFlight, ReviewInv, LockInv, NumberInv, Guarded

\* A record is appended.  It is a verdict of the review that holds the lock,
\* which goes on to save it, or the review ends here.
LEMMA AppendStep ==
    ASSUME IInv, NEW r \in Reviewers, At(r, "append"), chain' = Appended(r),
           \/ rv[r].outcome = "VERDICT" /\ Goto(r, "save") /\ lock' = lock
           \/ Leave(r),
           tail' \in Tails, UNCHANGED <<now, metadata, completed, started, called, released>>
    PROVE  IInv'
<1> DEFINE e == Entry(rv[r].attempt, rv[r].prev, rv[r].outcome, rv[r].locked, rv[r].candidate)
           n == Len(chain)
<1>0. /\ rv \in [Reviewers -> Reviews] /\ rv[r] \in Reviews /\ ReviewInv(r) /\ rv[r].pc = "append"
      /\ TypeOK /\ chain \in Seq(Entries) /\ n \in Nat
  BY ChainTypes DEF IInv, TypeOK, At
<1>1. /\ e \in Entries /\ e.attempt = rv[r].attempt /\ e.verdict = rv[r].candidate
      /\ e.outcome = rv[r].outcome /\ e.locked = rv[r].locked /\ e.prev = rv[r].prev
  BY <1>0 DEF Entry, Entries, Reviews
<1> HIDE DEF e
<1>2. /\ chain' \in Seq(Entries) /\ Len(chain') = n + 1 /\ chain'[n + 1] = e
      /\ \A i \in 1..n : chain'[i] = chain[i]
      /\ DOMAIN chain = 1..n /\ DOMAIN chain' = 1..(n + 1)
  BY <1>0, <1>1 DEF Appended, e
<1>3. /\ Moves(r) /\ lock' \in Reviewers \cup {Free, Stale} /\ LockStep(r)
      /\ rv'[r].pc \in {"save", "idle"}
      /\ rv'[r].pc = "save" => /\ rv[r].outcome = "VERDICT" /\ lock' = lock
                              /\ rv'[r].attempt = rv[r].attempt /\ rv'[r].candidate = rv[r].candidate
                              /\ rv'[r].dispatch = rv[r].dispatch
      /\ rv'[r].pc = "idle" => lock' # r
  <2>1. CASE rv[r].outcome = "VERDICT" /\ Goto(r, "save") /\ lock' = lock
    <3>1. [rv[r] EXCEPT !.pc = "save"] \in Reviews
      BY <1>0 DEF Reviews, Phases, Guarded
    <3>2. rv' = [rv EXCEPT ![r] = [rv[r] EXCEPT !.pc = "save"]]
      BY <2>1 DEF Goto
    <3>3. Moves(r) /\ rv'[r] = [rv[r] EXCEPT !.pc = "save"]
      BY <3>1, <3>2, <1>0 DEF Moves
    <3>4. lock' \in Reviewers \cup {Free, Stale} /\ LockStep(r)
      BY <2>1, <1>0 DEF TypeOK, LockStep
    <3> QED BY <2>1, <3>3, <3>4, <1>0 DEF Reviews
  <2>2. CASE Leave(r)
    <3>1. Moves(r) /\ rv'[r] = Idle /\ LockStep(r) /\ lock' # r /\ lock' \in Reviewers \cup {Free, Stale}
      BY <2>2, <1>0, LeaveEnds, EndsMoves
    <3> QED BY <3>1 DEF Idle
  <2> QED BY <2>1, <2>2
<1>4. TypeOK'
  BY <1>0, <1>2, <1>3 DEF TypeOK, Moves
<1>5. rv[r].outcome = "VERDICT" => /\ rv[r].locked /\ lock = r /\ completed = Nothing
                                   /\ rv[r].candidate \in Candidates
  BY <1>0 DEF ReviewInv, ResultInv, LockInv, Verdict
<1>6. ReviewInv(r)'
  <2>1. LockInv(r)'
    BY <1>3, <1>5 DEF LockInv, Guarded
  <2>2. NumberInv(r)'
    BY <1>0, <1>3 DEF NumberInv, ReviewInv
  <2>3. ResultInv(r)'
    <3>0. n + 1 \in 1..(n + 1) /\ n + 1 + 1 .. n + 1 = {}
      BY <1>0
    <3>1. rv'[r].pc = "save" => Audited(rv[r].attempt, rv[r].candidate)'
      BY <1>1, <1>2, <1>3, <3>0 DEF Audited
    <3>2. rv'[r].pc = "save" => Audited(rv[r].attempt, rv[r].candidate)' /\ completed' = Nothing
                               /\ rv'[r].candidate \in Candidates
      BY <3>1, <1>3, <1>5
    <3> QED BY <3>2, <1>3 DEF ResultInv, Verdict, Audited
  <2>4. ChainInv(r)'
    BY <1>3 DEF ChainInv
  <2> QED BY <2>1, <2>2, <2>3, <2>4 DEF ReviewInv
<1>7. ASSUME NEW s \in Reviewers, s # r
      PROVE  ReviewInv(s)'
  <2>1. ReviewInv(s) /\ rv'[s] = rv[s] /\ (rv[s].pc # "idle" => rv[s].attempt # rv[r].attempt)
    BY <1>0, <1>3, <1>7 DEF IInv, Moves, Distinct
  <2>2. LockInv(s)'
    BY <1>3, <1>7, <2>1, LockAssumption DEF ReviewInv, LockInv, LockStep
  <2>3. NumberInv(s)'
    BY <1>1, <1>2, <2>1 DEF ReviewInv, NumberInv
  <2>4. rv[s].pc = "save" => rv[r].outcome # "VERDICT"
    BY <1>5, <1>7, <2>1 DEF ReviewInv, LockInv, Guarded
  <2>5. rv[s].pc = "save" => Audited(rv[s].attempt, rv[s].candidate)'
    <3>1. SUFFICES ASSUME rv[s].pc = "save"
                   PROVE  Audited(rv[s].attempt, rv[s].candidate)'
      OBVIOUS
    <3>2. PICK i \in 1..n : /\ chain[i].attempt = rv[s].attempt /\ chain[i].verdict = rv[s].candidate
                            /\ \A j \in i + 1 .. n : chain[j].outcome # "VERDICT"
      BY <3>1, <2>1, <1>2 DEF ReviewInv, ResultInv, Audited
    <3>3. \A j \in i + 1 .. n + 1 : chain'[j].outcome # "VERDICT"
      BY <3>1, <3>2, <2>4, <1>0, <1>1, <1>2
    <3> QED BY <3>2, <3>3, <2>1, <1>0, <1>2 DEF Audited
  <2>6. ResultInv(s)'
    BY <2>1, <2>5 DEF ReviewInv, ResultInv, Verdict, Audited, Result
  <2>7. ChainInv(s)'
    <3>1. rv[s].pc = "append" /\ rv[s].locked => ~rv[r].locked
      BY <1>0, <1>7, <2>1 DEF ReviewInv, LockInv
    <3>2. chain' # <<>>
      BY <1>0, <1>2
    <3> QED BY <1>0, <1>1, <1>2, <2>1, <3>1, <3>2 DEF ChainInv
  <2> QED BY <2>2, <2>3, <2>6, <2>7 DEF ReviewInv
<1>8. Distinct'
  BY <1>0, <1>3 DEF IInv, Distinct, Moves
<1>9. Numbers'
  <2>1. rv[r].attempt <= started
    BY <1>0, ReviewBounds DEF ReviewInv, NumberInv, TypeOK
  <2> QED BY <1>0, <1>1, <1>2, <2>1 DEF IInv, Numbers
<1>10. Budget'
  <2>1. \A s \in Reviewers : InFlight(s)' => s # r /\ InFlight(s)
    BY <1>3 DEF InFlight, Moves
  <2>2. CASE rv[r].attempt \in called
    <3>1. InFlight(r)
      BY <2>2, <1>0 DEF InFlight
    <3>2. \A s \in Reviewers : ~InFlight(s)'
      BY <2>1, <3>1, OneInFlight
    <3>3. CallsRecorded' = CallsRecorded \cup {n + 1}
      BY <2>2, <1>0, <1>1, <1>2 DEF CallsRecorded
    <3>a. IsFiniteSet(CallsRecorded) /\ Cardinality(CallsRecorded) \in Nat
      BY <1>0, RecordedInChain
    <3>b. /\ Cardinality(CallsRecorded \cup {n + 1}) <= Cardinality(CallsRecorded) + 1
          /\ Cardinality(CallsRecorded \cup {n + 1}) \in Nat
      <4>1. Cardinality(CallsRecorded \cup {n + 1})
              = IF n + 1 \in CallsRecorded THEN Cardinality(CallsRecorded)
                ELSE Cardinality(CallsRecorded) + 1
        BY <3>a, FS_AddElement
      <4> QED BY <3>a, <4>1
    <3>4. Cardinality(CallsRecorded') <= Cardinality(CallsRecorded) + 1
      BY <3>3, <3>b
    <3>5. Cardinality(CallsRecorded) < MaxAttempts
      BY <3>1 DEF IInv, Budget
    <3>6. Cardinality(CallsRecorded') \in Nat
      BY <3>3, <3>b
    <3> QED BY <1>0, <3>2, <3>4, <3>5, <3>6, RecordedInChain, ReviewBounds DEF Budget
  <2>3. CASE rv[r].attempt \notin called
    <3>1. CallsRecorded' = CallsRecorded
      BY <2>3, <1>0, <1>1, <1>2 DEF CallsRecorded
    <3> QED BY <2>1, <3>1 DEF IInv, Budget
  <2> QED BY <2>2, <2>3
<1>11. CompletedIsLastVerdict'
  <2>1. SUFFICES ASSUME Written
                 PROVE  Audited(completed.attempt, completed.verdict)'
    BY DEF CompletedIsLastVerdict, Written, Audited
  <2>2. rv[r].outcome # "VERDICT"
    BY <2>1, <1>5 DEF Written
  <2>3. PICK i \in 1..n : /\ chain[i].attempt = completed.attempt /\ chain[i].verdict = completed.verdict
                          /\ \A j \in i + 1 .. n : chain[j].outcome # "VERDICT"
    BY <2>1, <1>2 DEF IInv, CompletedIsLastVerdict
  <2>4. \A j \in i + 1 .. n + 1 : chain'[j].outcome # "VERDICT"
    BY <2>2, <2>3, <1>0, <1>1, <1>2
  <2> QED BY <2>3, <2>4, <1>0, <1>2 DEF Audited
<1>12. OnlyWaitersBreakTheChain'
  <2>1. SUFFICES ASSUME NEW i \in 1..(n + 1),
                        chain'[i].prev # (IF i = 1 THEN 0 ELSE chain'[i - 1].attempt)
                 PROVE  ~chain'[i].locked \/ (i > 1 /\ ~chain'[i - 1].locked)
    BY <1>2 DEF OnlyWaitersBreakTheChain
  <2>2. CASE i \in 1..n
    <3>1. chain'[i] = chain[i] /\ (i > 1 => chain'[i - 1] = chain[i - 1])
      BY <2>2, <1>0, <1>2
    <3> QED BY <2>1, <2>2, <3>1, <1>2 DEF IInv, OnlyWaitersBreakTheChain
  <2>3. CASE i = n + 1
    <3>1. rv[r].locked => rv[r].prev = LastAttempt \/ (chain # <<>> /\ ~chain[n].locked)
      BY <1>0 DEF ReviewInv, ChainInv
    <3>2. chain = <<>> <=> n = 0
      BY <1>0
    <3>3. n > 0 => chain'[n] = chain[n]
      BY <1>0, <1>2
    <3> QED BY <2>1, <2>3, <3>1, <3>2, <3>3, <1>0, <1>1, <1>2 DEF LastAttempt
  <2> QED BY <2>2, <2>3
<1> QED BY <1>4, <1>6, <1>7, <1>8, <1>9, <1>10, <1>11, <1>12 DEF IInv

\* The verdict is written, in whole or in part.
LEMMA WriteStep ==
    ASSUME IInv, NEW r \in Reviewers, At(r, "save"), completed' \in {Nothing, Torn, Result(r)},
           \/ Goto(r, "release") /\ lock' = lock /\ completed' = Result(r)
           \/ Ends(r),
           UNCHANGED <<now, metadata, chain, tail, started, called, released>>
    PROVE  IInv'
<1>0. /\ rv \in [Reviewers -> Reviews] /\ rv[r] \in Reviews /\ ReviewInv(r) /\ rv[r].pc = "save"
      /\ TypeOK /\ lock = r
  BY DEF IInv, TypeOK, At, ReviewInv, LockInv, Guarded
<1>1. /\ rv[r].attempt \in 1..MaxReviews /\ rv[r].candidate \in Candidates /\ Result(r) \in Results
      /\ Audited(rv[r].attempt, rv[r].candidate)
  <2>1. rv[r].attempt \in 1..started /\ rv[r].candidate \in Candidates
        /\ Audited(rv[r].attempt, rv[r].candidate)
    BY <1>0 DEF ReviewInv, NumberInv, ResultInv
  <2>2. rv[r].attempt \in 1..MaxReviews
    BY <2>1, <1>0, ReviewBounds DEF TypeOK
  <2> QED BY <2>1, <2>2 DEF Result, Results
<1>2. /\ Moves(r) /\ LockStep(r) /\ lock' \in Reviewers \cup {Free, Stale}
      /\ rv'[r].pc \in {"release", "idle"}
      /\ rv'[r].pc = "release" => /\ completed' = Result(r) /\ lock' = r
                                 /\ rv'[r].attempt = rv[r].attempt /\ rv'[r].candidate = rv[r].candidate
                                 /\ rv'[r].dispatch = rv[r].dispatch
      /\ rv'[r].pc = "idle" => lock' # r
  <2>1. CASE Goto(r, "release") /\ lock' = lock /\ completed' = Result(r)
    <3>1. [rv[r] EXCEPT !.pc = "release"] \in Reviews
      BY <1>0 DEF Reviews, Phases, Guarded
    <3>2. rv' = [rv EXCEPT ![r] = [rv[r] EXCEPT !.pc = "release"]]
      BY <2>1 DEF Goto
    <3>3. Moves(r) /\ rv'[r] = [rv[r] EXCEPT !.pc = "release"]
      BY <3>1, <3>2, <1>0 DEF Moves
    <3>4. lock' \in Reviewers \cup {Free, Stale} /\ LockStep(r)
      BY <2>1, <1>0 DEF TypeOK, LockStep
    <3> QED BY <2>1, <3>3, <3>4, <1>0 DEF Reviews
  <2>2. CASE Ends(r)
    <3>1. Moves(r) /\ rv'[r] = Idle /\ LockStep(r) /\ lock' # r /\ lock' \in Reviewers \cup {Free, Stale}
      BY <2>2, <1>0, EndsMoves
    <3> QED BY <3>1 DEF Idle
  <2> QED BY <2>1, <2>2
<1>3. TypeOK'
  BY <1>0, <1>1, <1>2 DEF TypeOK, Moves
<1>4. ReviewInv(r)'
  <2>1. LockInv(r)'
    BY <1>2 DEF LockInv, Guarded
  <2>2. NumberInv(r)'
    BY <1>0, <1>2 DEF NumberInv, ReviewInv
  <2>3. ResultInv(r)'
    BY <1>1, <1>2 DEF ResultInv, Verdict, Result
  <2>4. ChainInv(r)'
    BY <1>2 DEF ChainInv
  <2> QED BY <2>1, <2>2, <2>3, <2>4 DEF ReviewInv
<1>5. ASSUME NEW s \in Reviewers, s # r
      PROVE  ReviewInv(s)'
  <2>1. ReviewInv(s) /\ rv'[s] = rv[s]
    BY <1>2, <1>5 DEF IInv, Moves
  <2>2. LockInv(s)'
    BY <1>2, <1>5, <2>1, LockAssumption DEF ReviewInv, LockInv, LockStep
  <2>3. NumberInv(s)' /\ ChainInv(s)'
    BY <2>1 DEF ReviewInv, NumberInv, ChainInv, LastAttempt
  <2>4. rv[s].pc \notin {"invoke", "save", "release"} /\ ~Verdict(s)
    BY <1>0, <1>5, <2>1 DEF ReviewInv, LockInv, ResultInv, Verdict, Guarded
  <2>5. ResultInv(s)'
    BY <2>1, <2>4 DEF ResultInv, Verdict
  <2> QED BY <2>2, <2>3, <2>5 DEF ReviewInv
<1>6. Distinct' /\ Numbers'
  BY <1>0, <1>2 DEF IInv, Distinct, Numbers, Moves
<1>7. Budget'
  <2>1. CallsRecorded' = CallsRecorded
    BY DEF CallsRecorded
  <2> QED BY <1>2, <2>1 DEF IInv, Budget, InFlight, Moves
<1>8. CompletedIsLastVerdict'
  <2>1. Written' => completed' = Result(r)
    BY DEF Written
  <2> QED BY <1>1, <2>1 DEF CompletedIsLastVerdict, Audited, Result
<1>9. OnlyWaitersBreakTheChain'
  BY DEF IInv, OnlyWaitersBreakTheChain
<1> QED BY <1>3, <1>4, <1>5, <1>6, <1>7, <1>8, <1>9 DEF IInv

\* The last record is read before another is appended.
LEMMA ReadStep ==
    ASSUME IInv, NEW r \in Reviewers, ReadLast(r)
    PROVE  IInv'
<1>0. rv \in [Reviewers -> Reviews] /\ rv[r] \in Reviews /\ ReviewInv(r) /\ rv[r].pc = "read"
  BY DEF IInv, TypeOK, ReadLast, At
<1> DEFINE X == [rv[r] EXCEPT !.pc = "append", !.prev = LastAttempt]
<1>1. rv' = [rv EXCEPT ![r] = X] /\ Quiet /\ UNCHANGED <<now, lock, metadata, tail, released>>
  BY DEF ReadLast, Quiet, files
<1>2. LastAttempt \in 0..MaxReviews
  BY ChainTypes, ReviewBounds DEF LastAttempt, IInv, TypeOK
<1>3. X \in Reviews
  BY <1>0, <1>2 DEF Reviews, Phases
<1>4. Moves(r) /\ rv'[r] = X
  BY <1>0, <1>1, <1>3 DEF Moves
<1>5. /\ rv'[r].pc = "append" /\ rv'[r].attempt = rv[r].attempt /\ rv'[r].outcome = rv[r].outcome
      /\ rv'[r].locked = rv[r].locked /\ rv'[r].prev = LastAttempt
      /\ rv'[r].candidate = rv[r].candidate /\ rv'[r].dispatch = rv[r].dispatch
  BY <1>0, <1>4 DEF Reviews
<1> HIDE DEF X
<1>6. TypeOK'
  BY <1>1, <1>4 DEF IInv, TypeOK, Moves, Quiet
<1>7. LastAttempt' = LastAttempt
  BY <1>1 DEF LastAttempt, Quiet
<1>8. ReviewInv(r)'
  BY <1>0, <1>1, <1>5, <1>7 DEF ReviewInv, LockInv, NumberInv, ResultInv, Verdict, ChainInv, Guarded, Quiet
<1>9. InFlight(r)' => InFlight(r)
  BY <1>0, <1>1, <1>5 DEF InFlight, Quiet
<1>10. LockStep(r)
  BY <1>1 DEF LockStep
<1> QED BY <1>0, <1>1, <1>4, <1>5, <1>6, <1>8, <1>9, <1>10, QuietStep

\* The model's verdict passes the gates and is about to be recorded.
LEMMA VerdictStep ==
    ASSUME IInv, NEW r \in Reviewers, NEW reply \in Replies, At(r, "invoke"),
           rv' = [rv EXCEPT ![r].pc = "read", ![r].outcome = "VERDICT",
                            ![r].locked = Holds(r), ![r].candidate = reply.candidate],
           UNCHANGED <<now, lock, files, started, called, released>>
    PROVE  IInv'
<1>0. rv \in [Reviewers -> Reviews] /\ rv[r] \in Reviews /\ ReviewInv(r) /\ rv[r].pc = "invoke"
  BY DEF IInv, TypeOK, At
<1>1. lock = r /\ completed = Nothing
  BY <1>0 DEF ReviewInv, LockInv, ResultInv, Guarded
<1> DEFINE X == [rv[r] EXCEPT !.pc = "read", !.outcome = "VERDICT", !.locked = Holds(r),
                              !.candidate = reply.candidate]
<1>2. X \in Reviews
  BY <1>0 DEF Reviews, Outcomes, Phases, Candidates, Holds
<1>3. Moves(r) /\ rv'[r] = X
  BY <1>0, <1>2 DEF Moves
<1>4. /\ rv'[r].pc = "read" /\ rv'[r].attempt = rv[r].attempt /\ rv'[r].outcome = "VERDICT"
      /\ rv'[r].candidate = reply.candidate /\ rv'[r].dispatch = rv[r].dispatch
  BY <1>0, <1>3 DEF Reviews
<1>5. rv'[r].locked = Holds(r)
  BY <1>0, <1>3 DEF Reviews
<1>6. rv'[r].locked
  BY <1>1, <1>5 DEF Holds
<1> HIDE DEF X
<1>7. Quiet /\ lock' = lock /\ LockStep(r)
  BY DEF Quiet, LockStep, files
<1>8. TypeOK'
  BY <1>3, <1>7 DEF IInv, TypeOK, Moves, Quiet, files
<1>9. ReviewInv(r)'
  <2>1. LockInv(r)'
    BY <1>1, <1>4, <1>6, <1>7 DEF LockInv, Guarded
  <2>2. NumberInv(r)'
    BY <1>0, <1>4, <1>6, <1>7 DEF ReviewInv, NumberInv, Quiet
  <2>3. ResultInv(r)'
    BY <1>1, <1>4, <1>6, <1>7 DEF ResultInv, Verdict, Candidates, Quiet
  <2>4. ChainInv(r)'
    BY <1>4 DEF ChainInv
  <2> QED BY <2>1, <2>2, <2>3, <2>4 DEF ReviewInv
<1>10. InFlight(r)' => InFlight(r)
  BY <1>0, <1>4, <1>7 DEF InFlight, Quiet
<1> QED BY <1>0, <1>3, <1>4, <1>7, <1>8, <1>9, <1>10, QuietStep

\* A review stops, whatever it was doing.
LEMMA CrashStep ==
    ASSUME IInv, NEW r \in Reviewers, Crash(r)
    PROVE  IInv'
<1>1. Ends(r)
  BY DEF Crash, Ends, Holds
<1>2. metadata' \in Fingerprints \cup {Nothing, Torn} /\ tail' \in Tails
  BY DEF Crash, IInv, TypeOK, Tails
<1>3. CASE At(r, "save")
  <2>1. completed = Nothing
    BY <1>3 DEF IInv, ReviewInv, ResultInv, At
  <2>2. completed' \in {Nothing, Torn}
    BY <1>3, <2>1 DEF Crash
  <2>3. CASE metadata' = metadata
    BY <1>1, <1>3, <2>2, <2>3, WriteStep DEF Crash, At
  <2>4. CASE metadata' # metadata
    BY <1>3, <2>4 DEF Crash, At
  <2> QED BY <2>3, <2>4
<1>4. CASE ~At(r, "save")
  <2>1. Quiet
    BY <1>4 DEF Crash, Quiet
  <2> QED BY <1>1, <1>2, <2>1, EndsStep DEF Crash, IInv, TypeOK
<1> QED BY <1>3, <1>4

\* Steps that are no review's: the clock, and the operator.
LEMMA OutsideStep ==
    ASSUME IInv, RemoveStaleLock \/ Tick
    PROVE  IInv'
<1>1. UNCHANGED <<metadata, chain, tail, completed, rv, started, called, released>>
  BY DEF RemoveStaleLock, Tick, files
<1>2. lock' = lock \/ (lock = Stale /\ lock' = Free)
  BY DEF RemoveStaleLock, Tick
<1>3. TypeOK'
  BY <1>1, <1>2 DEF IInv, TypeOK, RemoveStaleLock, Tick
<1>4. ASSUME NEW r \in Reviewers
      PROVE  ReviewInv(r)'
  <2>1. ReviewInv(r)
    BY DEF IInv
  <2>2. LockInv(r)'
    BY <1>1, <1>2, <2>1, LockAssumption DEF ReviewInv, LockInv
  <2> QED BY <1>1, <2>1, <2>2 DEF ReviewInv, NumberInv, ResultInv, Verdict, Audited, Result, ChainInv,
                                   LastAttempt
<1>5. Distinct' /\ Numbers' /\ Budget'
  BY <1>1 DEF IInv, Distinct, Numbers, Budget, InFlight, CallsRecorded
<1>6. CompletedIsLastVerdict' /\ OnlyWaitersBreakTheChain'
  BY <1>1 DEF IInv, CompletedIsLastVerdict, OnlyWaitersBreakTheChain, Written
<1> QED BY <1>3, <1>4, <1>5, <1>6 DEF IInv

\* What a review does under the lock before it calls the model.
LEMMA EnterSteps ==
    ASSUME IInv, NEW r \in Reviewers,
           \/ Acquire(r) \/ PinFingerprint(r) \/ SameFingerprint(r) \/ Gates(r)
    PROVE  IInv'
<1>0. ReviewInv(r) /\ TypeOK
  BY DEF IInv
<1>1. CASE Acquire(r)
  BY <1>0, <1>1, GotoStep DEF Acquire, Unlocked, At, Quiet, files, TypeOK
<1>2. CASE PinFingerprint(r)
  <2>1. lock = r /\ Fingerprint(r) \in Fingerprints
    BY <1>0, <1>2 DEF PinFingerprint, At, ReviewInv, LockInv, NumberInv, Guarded, Fingerprint, Fingerprints
  <2> QED BY <1>0, <1>2, <2>1, GotoStep DEF PinFingerprint, At, Quiet, TypeOK
<1>3. CASE SameFingerprint(r)
  <2>1. lock = r
    BY <1>0, <1>3 DEF SameFingerprint, At, ReviewInv, LockInv, Guarded
  <2> QED BY <1>0, <1>3, <2>1, GotoStep DEF SameFingerprint, At, Quiet, files, TypeOK
<1>4. CASE Gates(r)
  <2>1. lock = r /\ rv[r].pc = "preflight"
    BY <1>0, <1>4 DEF Gates, At, ReviewInv, LockInv, Guarded
  <2>2. /\ Quiet /\ UNCHANGED <<now, lock, metadata, tail, released>>
        /\ \/ Goto(r, "load")
           \/ \E o \in {"INPUT_REJECTION", "TECHNICAL_FAILURE"} : Record(r, o)
    BY <1>4 DEF Gates, Quiet, files
  <2>3. CASE Goto(r, "load")
    BY <1>0, <2>1, <2>2, <2>3, GotoStep DEF TypeOK
  <2>4. CASE \E o \in {"INPUT_REJECTION", "TECHNICAL_FAILURE"} : Record(r, o)
    BY <2>1, <2>2, <2>4, RecordStep
  <2> QED BY <2>2, <2>3, <2>4
<1> QED BY <1>1, <1>2, <1>3, <1>4

\* The failures of a review that are recorded.
LEMMA FailureSteps ==
    ASSUME IInv, NEW r \in Reviewers,
           LockTimeout(r) \/ DuplicateConflict(r) \/ RetryLimit(r) \/ ExpireCached(r)
    PROVE  IInv'
<1>1. /\ rv[r].pc \in {"lock", "metadata", "preflight", "load", "invoke"}
      /\ Quiet /\ UNCHANGED <<now, lock, metadata, tail, released>>
      /\ Record(r, "TECHNICAL_FAILURE") \/ Record(r, "INPUT_REJECTION")
  BY DEF LockTimeout, DeadlineDue, DuplicateConflict, RetryLimit, NoResult, ExpireCached, Cached, At, Quiet, files
<1> QED BY <1>1, RecordStep

\* The ends of a review that leave the results alone.
LEMMA EndSteps ==
    ASSUME IInv, NEW r \in Reviewers,
           \/ MetadataUnreadable(r) \/ WithholdCached(r) \/ ServeCached(r) \/ RawResponseLost(r)
           \/ HistoryUnreadable(r) \/ Release(r)
    PROVE  IInv'
<1>0. ReviewInv(r) /\ TypeOK
  BY DEF IInv
<1>1. Leave(r) /\ Quiet /\ now' = now /\ metadata' = metadata /\ tail' = tail
  BY DEF MetadataUnreadable, WithholdCached, ServeCached, RawResponseLost, HistoryUnreadable, Release, Unrecorded, Quiet, files
<1>2. released' \in SUBSET Results
  <2>1. CASE ServeCached(r)
    BY <1>0, <2>1 DEF ServeCached, Cached, Written, TypeOK
  <2>2. CASE Release(r)
    <3>1. completed = Result(r) /\ rv[r].attempt \in Nat
      BY <1>0, <2>2, ReviewBounds DEF Release, At, ReviewInv, ResultInv, TypeOK, Reviews
    <3>2. Result(r) \in Results
      <4>1. rv[r].candidate \in Candidates /\ rv[r].attempt \in 1..started
        BY <1>0, <2>2 DEF Release, At, ReviewInv, ResultInv, NumberInv
      <4>2. rv[r].attempt \in 1..MaxReviews
        BY <1>0, <4>1, ReviewBounds DEF TypeOK
      <4> QED BY <4>1, <4>2 DEF Result, Results
    <3> QED BY <1>0, <2>2, <3>2 DEF Release, TypeOK
  <2>3. CASE ~ServeCached(r) /\ ~Release(r)
    BY <1>0, <2>3 DEF MetadataUnreadable, WithholdCached, RawResponseLost, HistoryUnreadable, Unrecorded,
                      TypeOK
  <2> QED BY <2>1, <2>2, <2>3
<1> QED BY <1>0, <1>1, <1>2, LeaveEnds, EndsStep DEF TypeOK

\* The model answers, and what follows is audited and written.
LEMMA ResultSteps ==
    ASSUME IInv, NEW r \in Reviewers,
           \/ \E reply \in Replies : Answer(r, reply)
           \/ AppendAttempt(r) \/ AppendFails(r) \/ SaveCompleted(r) \/ SaveFails(r)
    PROVE  IInv'
<1>1. CASE \E reply \in Replies : Answer(r, reply)
  <2>1. PICK reply \in Replies : Answer(r, reply)
    BY <1>1
  <2>2. rv[r].pc = "invoke" /\ Quiet /\ UNCHANGED <<now, lock, metadata, tail, files, started, called, released>>
    BY <2>1 DEF Answer, At, Quiet, files
  <2>3. CASE Invocation(reply) = "OK" /\ PostValidate(reply.candidate, rv[r].dispatch, now) = "OK"
    BY <2>1, <2>2, <2>3, VerdictStep DEF Answer
  <2>4. CASE ~(Invocation(reply) = "OK" /\ PostValidate(reply.candidate, rv[r].dispatch, now) = "OK")
    BY <2>1, <2>2, <2>4, RecordStep DEF Answer
  <2> QED BY <2>3, <2>4
<1>2. CASE AppendAttempt(r)
  BY <1>2, AppendStep DEF AppendAttempt, TailAfterLine, Tails
<1>3. CASE AppendFails(r)
  <2>0. tail' \in Tails
    BY <1>3 DEF AppendFails, TailAfterLine, Tails, IInv, TypeOK
  <2>1. CASE chain' = chain
    BY <1>3, <2>0, <2>1, LeaveEnds, EndsStep DEF AppendFails, Quiet, IInv, TypeOK
  <2>2. CASE chain' = Appended(r)
    BY <1>3, <2>0, <2>2, AppendStep DEF AppendFails
  <2> QED BY <1>3, <2>1, <2>2 DEF AppendFails
<1>4. CASE SaveCompleted(r)
  BY <1>4, WriteStep DEF SaveCompleted
<1>5. CASE SaveFails(r)
  BY <1>5, LeaveEnds, WriteStep DEF SaveFails
<1> QED BY <1>1, <1>2, <1>3, <1>4, <1>5

----------------------------------------------------------------------------
(* The theorems *)

LEMMA InitInv ==
    ASSUME Init
    PROVE  IInv
<1>1. \A r \in Reviewers : rv[r] = Idle
  BY DEF Init
<1>2. Idle \in Reviews
  BY ReviewBounds DEF Idle, Reviews, Phases, Guarded, Outcomes
<1>3. TypeOK
  BY <1>2, ReviewBounds DEF Init, TypeOK, Tails
<1>4. \A r \in Reviewers : ReviewInv(r) /\ ~InFlight(r)
  BY <1>1, LockAssumption
     DEF Init, Idle, ReviewInv, LockInv, NumberInv, ResultInv, Verdict, ChainInv, Guarded, InFlight
<1>5. Distinct /\ Numbers
  BY <1>1 DEF Init, Idle, Distinct, Numbers
<1>6. Budget
  <2>1. CallsRecorded = {}
    BY DEF Init, CallsRecorded
  <2> QED BY <1>4, <2>1, FS_EmptySet, ReviewBounds DEF Budget
<1>7. CompletedIsLastVerdict /\ OnlyWaitersBreakTheChain
  BY DEF Init, CompletedIsLastVerdict, OnlyWaitersBreakTheChain, Written
<1> QED BY <1>3, <1>4, <1>5, <1>6, <1>7 DEF IInv

LEMMA StepInv ==
    ASSUME IInv, NEW r \in Reviewers, Step(r)
    PROVE  IInv'
BY EnterSteps, FailureSteps, InvokeStep, ReadStep, EndSteps, ResultSteps DEF Step

LEMMA NextInv ==
    ASSUME IInv, [Next]_reviewVars
    PROVE  IInv'
<1>1. CASE \E r \in Reviewers : \E d \in Dispatches : Start(r, d)
  BY <1>1, StartStep
<1>2. CASE \E r \in Reviewers : Step(r)
  BY <1>2, StepInv
<1>3. CASE \E r \in Reviewers : Crash(r)
  BY <1>3, CrashStep
<1>4. CASE RemoveStaleLock \/ Tick
  BY <1>4, OutsideStep
<1>5. CASE UNCHANGED reviewVars
  BY <1>5 DEF reviewVars, IInv, TypeOK, ReviewInv, LockInv, NumberInv, ResultInv, Verdict, Audited,
              Result, ChainInv, LastAttempt, Distinct, Numbers, Budget, InFlight, CallsRecorded,
              CompletedIsLastVerdict, OnlyWaitersBreakTheChain, Written
<1> QED BY <1>1, <1>2, <1>3, <1>4, <1>5 DEF Next

\* The inductive invariant holds in every reachable state.
THEOREM Invariance == Spec => []IInv
<1>1. Init => IInv
  BY InitInv
<1>2. IInv /\ [Next]_reviewVars => IInv'
  BY NextInv
<1> QED BY <1>1, <1>2, PTL DEF Spec

\* The values of every variable stay within their types.
THEOREM TypesHold == Spec => []TypeOK
<1>1. IInv => TypeOK
  BY DEF IInv
<1> QED BY <1>1, Invariance, PTL

\* completed.json always holds the last verdict audited in attempts.jsonl.
THEOREM CompletedVerdictIsLast == Spec => []CompletedIsLastVerdict
<1>1. IInv => CompletedIsLastVerdict
  BY DEF IInv
<1> QED BY <1>1, Invariance, PTL

\* Only reviews that gave up waiting for the lock break the hash chain.
THEOREM ChainBreaksAtWaiters == Spec => []OnlyWaitersBreakTheChain
<1>1. IInv => OnlyWaitersBreakTheChain
  BY DEF IInv
<1> QED BY <1>1, Invariance, PTL

\* The calls recorded and in flight never exceed the attempts allowed.
THEOREM CallsStayInBudget == Spec => []CallBudget
<1>1. ASSUME IInv PROVE CallBudget
  <2>1. Cardinality(CallsRecorded) \in Nat
    BY <1>1, RecordedInChain DEF IInv
  <2>2. CASE CallsInFlight = {}
    BY <1>1, <2>1, <2>2, FS_EmptySet, ReviewBounds DEF CallBudget, IInv, Budget
  <2>3. CASE CallsInFlight # {}
    <3>1. PICK r \in Reviewers : InFlight(r)
      BY <2>3 DEF CallsInFlight, InFlight
    <3>2. CallsInFlight = {r}
      BY <1>1, <3>1, OneInFlight DEF CallsInFlight, InFlight
    <3>3. Cardinality(CallsInFlight) = 1
      BY <3>2, FS_Singleton
    <3>4. Cardinality(CallsRecorded) < MaxAttempts
      BY <1>1, <3>1 DEF IInv, Budget
    <3> QED BY <2>1, <3>3, <3>4, ReviewBounds DEF CallBudget
  <2> QED BY <2>2, <2>3
<1> QED BY <1>1, Invariance, PTL

\* A result is neither an absent nor an empty file.
LEMMA ResultIsWritten ==
    ASSUME NEW x \in Results
    PROVE  x # Nothing /\ x # Torn
<1>1. PICK a \in 1..MaxReviews, reply \in Replies : x = [attempt |-> a, verdict |-> reply.candidate]
  BY DEF Results, Candidates
<1> QED BY <1>1, FileAssumption

storeValue == [k \in {"request"} |-> IF Written THEN completed ELSE Nothing]
storeServed == [k \in {"request"} |-> released]

\* What a step of the reviews does to the store of the verdict.
LEMMA StoreMoves ==
    ASSUME IInv, [Next]_reviewVars
    PROVE  \/ completed' = completed /\ released' = released
           \/ completed = Nothing /\ released' = released
           \/ Written /\ completed' = completed /\ released' = released \cup {completed}
<1>1. CASE \E r \in Reviewers : Step(r)
  <2>1. PICK r \in Reviewers : Step(r)
    BY <1>1
  <2>2. CASE ServeCached(r)
    BY <2>2 DEF ServeCached, Cached, files
  <2>3. CASE Release(r)
    <3>1. rv[r].pc = "release" /\ ReviewInv(r) /\ TypeOK
      BY <2>3 DEF Release, At, IInv
    <3>2. completed = Result(r) /\ rv[r].candidate \in Candidates /\ rv[r].attempt \in 1..started
      BY <3>1 DEF ReviewInv, ResultInv, NumberInv
    <3>3. Result(r) \in Results
      <4>1. rv[r].attempt \in 1..MaxReviews
        BY <3>1, <3>2, ReviewBounds DEF TypeOK
      <4> QED BY <3>2, <4>1 DEF Result, Results
    <3> QED BY <2>3, <3>2, <3>3, ResultIsWritten DEF Release, Written, files
  <2>4. CASE SaveCompleted(r) \/ SaveFails(r)
    BY <2>4 DEF SaveCompleted, SaveFails
  <2>5. CASE ~(ServeCached(r) \/ Release(r) \/ SaveCompleted(r) \/ SaveFails(r))
    BY <2>1, <2>5
       DEF Step, Acquire, LockTimeout, PinFingerprint, SameFingerprint, DuplicateConflict,
           MetadataUnreadable, Gates, RetryLimit, Invoke, WithholdCached, Unrecorded, ExpireCached,
           Answer, RawResponseLost, ReadLast, HistoryUnreadable, AppendAttempt, AppendFails, files
  <2> QED BY <2>2, <2>3, <2>4, <2>5
<1>2. CASE \E r \in Reviewers : Crash(r)
  <2>1. PICK r \in Reviewers : Crash(r)
    BY <1>2
  <2>2. CASE At(r, "save")
    BY <2>1, <2>2 DEF Crash, IInv, ReviewInv, ResultInv, At
  <2>3. CASE ~At(r, "save")
    BY <2>1, <2>3 DEF Crash
  <2> QED BY <2>2, <2>3
<1>3. CASE ~(\E r \in Reviewers : Step(r)) /\ ~(\E r \in Reviewers : Crash(r))
  BY <1>3 DEF Next, Start, RemoveStaleLock, Tick, reviewVars, files
<1> QED BY <1>1, <1>2, <1>3

\* The reviews implement a store that is written once.
THEOREM ReviewsImplementStore == Spec => OneVerdictServed
<1>1. Init => Store!Init
  BY DEF Init, Store!Init, Written
<1>2. IInv /\ [Next]_reviewVars => [Store!Next]_<<storeValue, storeServed>>
  <2> SUFFICES ASSUME IInv, [Next]_reviewVars
               PROVE  [Store!Next]_<<storeValue, storeServed>>
    OBVIOUS
  <2>1. CASE completed' = completed /\ released' = released
    BY <2>1 DEF storeValue, storeServed, Written
  <2>2. CASE completed = Nothing /\ released' = released
    <3>1. Store!Write("request")
      BY <2>2 DEF Store!Write, Written
    <3> QED BY <3>1 DEF Store!Next
  <2>3. CASE Written /\ completed' = completed /\ released' = released \cup {completed}
    <3>1. Store!Serve("request")
      BY <2>3 DEF Store!Serve, Written
    <3> QED BY <3>1 DEF Store!Next
  <2> QED BY <2>1, <2>2, <2>3, StoreMoves
<1> QED BY <1>1, <1>2, Invariance, PTL DEF Spec, OneVerdictServed, Store!Spec, storeValue, storeServed
=============================================================================
