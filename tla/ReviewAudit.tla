---------------------------- MODULE ReviewAudit -----------------------------
(***************************************************************************)
(* Concurrent AI reviews of one request (project_a_ai_review/service.py    *)
(* and audit.py).                                                          *)
(*                                                                         *)
(* A review takes the lock file of the request, pins its fingerprint,      *)
(* passes the gates, answers from completed.json if there is one, and      *)
(* otherwise calls the model, appends an attempt to the hash chain and     *)
(* writes completed.json.  A review that waits too long for the lock       *)
(* appends its failure to the same chain without holding it.  A review may *)
(* stop anywhere; its lock file stays until the operator removes it.       *)
(***************************************************************************)
EXTENDS Integers, Sequences, FiniteSets, ReviewGates

CONSTANTS
    Reviewers,     \* processes or threads that run review()
    Dispatches,    \* dispatch envelopes of the request
    Replies,       \* how the model process may end
    Policy,        \* RuntimePolicy: maxAge, maxSkew
    MaxAttempts,   \* policy.max_attempts (2 by default)
    MaxReviews,    \* bound: reviews started
    MaxTime,       \* bound: the clock
    Free, Stale,   \* the lock file is absent, or left by a dead process
    Nothing, Torn  \* no file; an empty file, left by a crash or a failed write

ASSUME ReviewBounds ==
    MaxAttempts \in Nat \ {0} /\ MaxReviews \in Nat /\ MaxTime \in Nat
ASSUME LockAssumption == Free \notin Reviewers /\ Stale \notin Reviewers /\ Free # Stale
ASSUME FileAssumption ==
    /\ Nothing # Torn
    /\ \A a \in 1..MaxReviews, reply \in Replies :
          [attempt |-> a, verdict |-> reply.candidate] \notin {Nothing, Torn}

VARIABLES
    now,         \* the trusted clock
    lock,        \* .lock: Free, its holder, or Stale
    metadata,    \* request.json: Nothing, Torn, or the pinned fingerprint
    chain,       \* attempts.jsonl, its records
    tail,        \* whether its last line is whole, partial or glued to a partial one
    completed,   \* completed.json: Nothing, Torn, or a result
    rv,          \* reviewer -> what its review is doing
    started,     \* reviews started, which also numbers the attempts
    called,      \* attempts that called the model
    released     \* verdicts returned to a caller

reviewVars == <<now, lock, metadata, chain, tail, completed, rv, started, called, released>>
files == <<metadata, chain, tail, completed>>

----------------------------------------------------------------------------
Idle == [pc |-> "idle", attempt |-> 0, dispatch |-> Nothing, prev |-> 0,
         outcome |-> "NONE", candidate |-> Nothing, locked |-> FALSE]

Init ==
    /\ now = 0
    /\ lock = Free
    /\ metadata = Nothing
    /\ chain = <<>>
    /\ tail = "whole"
    /\ completed = Nothing
    /\ rv = [r \in Reviewers |-> Idle]
    /\ started = 0
    /\ called = {}
    /\ released = {}

At(r, pc) == rv[r].pc = pc
Holds(r) == lock = r
Goto(r, pc) == rv' = [rv EXCEPT ![r].pc = pc]

\* The review returns, or raises; the finally of lock() removes the file.
Leave(r) ==
    /\ rv' = [rv EXCEPT ![r] = Idle]
    /\ lock' = IF Holds(r) THEN Free ELSE lock

\* _failure_result: the failure is recorded before it is returned.
Record(r, outcome) ==
    rv' = [rv EXCEPT ![r].pc = "read", ![r].outcome = outcome, ![r].locked = Holds(r)]

Start(r, d) ==
    /\ At(r, "idle") /\ started < MaxReviews
    /\ started' = started + 1
    /\ rv' = [rv EXCEPT ![r] = [Idle EXCEPT !.pc = "lock", !.attempt = started + 1,
                                            !.dispatch = d]]
    /\ UNCHANGED <<now, lock, files, called, released>>

\* Mutant: the lock file is opened without O_EXCL.
LockIsFree == lock \in {Free} \cup Reviewers

Unlocked == lock = Free

Acquire(r) ==
    /\ At(r, "lock") /\ Unlocked
    /\ lock' = r
    /\ Goto(r, "metadata")
    /\ UNCHANGED <<now, files, started, called, released>>

\* Mutant: the wait for the lock has no deadline.
NeverDue(r) == At(r, "lock") /\ lock = r

DeadlineDue(r) == At(r, "lock") /\ lock # Free

\* CONCURRENT_IN_FLIGHT, recorded by a review that does not hold the lock.
LockTimeout(r) ==
    /\ DeadlineDue(r)
    /\ Record(r, "TECHNICAL_FAILURE")
    /\ UNCHANGED <<now, lock, files, started, called, released>>

Fingerprint(r) == rv[r].dispatch.fingerprint

\* ensure_request_metadata: the first review pins the fingerprint.
PinFingerprint(r) ==
    /\ At(r, "metadata") /\ metadata = Nothing
    /\ metadata' = Fingerprint(r)
    /\ Goto(r, "preflight")
    /\ UNCHANGED <<now, lock, chain, tail, completed, started, called, released>>

SameFingerprint(r) ==
    /\ At(r, "metadata") /\ metadata = Fingerprint(r)
    /\ Goto(r, "preflight")
    /\ UNCHANGED <<now, lock, files, started, called, released>>

DuplicateConflict(r) ==
    /\ At(r, "metadata") /\ metadata \notin {Nothing, Torn, Fingerprint(r)}
    /\ Record(r, "INPUT_REJECTION")
    /\ UNCHANGED <<now, lock, files, started, called, released>>

\* An empty request.json is no JSON, and review() raises.
MetadataUnreadable(r) ==
    /\ At(r, "metadata") /\ metadata = Torn
    /\ Leave(r)
    /\ UNCHANGED <<now, files, started, called, released>>

\* The artifacts are read again by every review and may have changed.
Gates(r) ==
    /\ At(r, "preflight")
    /\ \E d \in {[rv[r].dispatch EXCEPT !.artifacts = intact] : intact \in BOOLEAN} :
         \E verdict \in {Preflight(d, now, Policy)} :
            CASE verdict = "OK" -> Goto(r, "load")
              [] verdict = "RR_FAILURE" -> Record(r, "TECHNICAL_FAILURE")
              [] OTHER -> Record(r, "INPUT_REJECTION")
    /\ UNCHANGED <<now, lock, files, started, called, released>>

Unrecorded(r) ==
    /\ Leave(r)
    /\ UNCHANGED <<now, files, started, called, released>>

Entry(a, prev, outcome, locked, verdict) ==
    [attempt |-> a, prev |-> prev, outcome |-> outcome, locked |-> locked, verdict |-> verdict]

LastAttempt == IF chain = <<>> THEN 0 ELSE chain[Len(chain)].attempt

\* A line that was cut short is no JSON, alone or with the next one glued to it.
Readable == tail = "whole"

\* verify_chain: every record names the one before it.
ChainIntact ==
    Readable /\ \A i \in DOMAIN chain : chain[i].prev = IF i = 1 THEN 0 ELSE chain[i - 1].attempt

Written == completed \notin {Nothing, Torn}

\* The cached verdict must be the last thing audited.
FinalRecordMatches ==
    /\ chain # <<>>
    /\ chain[Len(chain)].outcome = "VERDICT"
    /\ chain[Len(chain)].attempt = completed.attempt

NoResult(r) == At(r, "load") /\ completed = Nothing

\* attempt_count: a partial line at the end counts, glued ones are one line.
Lines == Len(chain) + (IF tail = "partial" THEN 1 ELSE 0)

\* Mutant: one attempt too many.
ExhaustedLate == Lines > MaxAttempts

\* Every line counts as an attempt, those of waiting reviews too.
Exhausted == Lines >= MaxAttempts

RetryLimit(r) ==
    /\ NoResult(r) /\ Exhausted
    /\ Record(r, "TECHNICAL_FAILURE")
    /\ UNCHANGED <<now, lock, files, started, called, released>>

\* The model process starts.
Invoke(r) ==
    /\ NoResult(r) /\ ~Exhausted
    /\ called' = called \cup {rv[r].attempt}
    /\ Goto(r, "invoke")
    /\ UNCHANGED <<now, lock, files, started, released>>

Cached(r) == At(r, "load") /\ Written

\* A cached verdict that is damaged, or no longer the last record, is
\* withheld, and this refusal is not recorded.
WithholdCached(r) ==
    /\ \/ At(r, "load") /\ completed = Torn
       \/ Cached(r) /\ ~(ChainIntact /\ FinalRecordMatches)
    /\ Unrecorded(r)

\* One that is out of date is withheld and the failure recorded.
ExpireCached(r) ==
    /\ Cached(r) /\ ChainIntact /\ FinalRecordMatches
    /\ PostValidate(completed.verdict, rv[r].dispatch, now) # "OK"
    /\ Record(r, "TECHNICAL_FAILURE")
    /\ UNCHANGED <<now, lock, files, started, called, released>>

ServeCached(r) ==
    /\ Cached(r) /\ ChainIntact /\ FinalRecordMatches
    /\ PostValidate(completed.verdict, rv[r].dispatch, now) = "OK"
    /\ released' = released \cup {completed}
    /\ Leave(r)
    /\ UNCHANGED <<now, files, started, called>>

\* The model answers, fails, or answers what the gates refuse.
Answer(r, reply) ==
    /\ At(r, "invoke")
    /\ IF Invocation(reply) = "OK" /\ PostValidate(reply.candidate, rv[r].dispatch, now) = "OK"
       THEN rv' = [rv EXCEPT ![r].pc = "read", ![r].outcome = "VERDICT",
                             ![r].locked = Holds(r), ![r].candidate = reply.candidate]
       ELSE Record(r, "TECHNICAL_FAILURE")
    /\ UNCHANGED <<now, lock, files, started, called, released>>

\* store_raw_response fails: nothing is recorded.
RawResponseLost(r) == At(r, "invoke") /\ Unrecorded(r)

\* append_attempt reads the hash of the last record ...
ReadLast(r) ==
    /\ At(r, "read") /\ Readable
    /\ rv' = [rv EXCEPT ![r].pc = "append", ![r].prev = LastAttempt]
    /\ UNCHANGED <<now, lock, files, started, called, released>>

\* ... or cannot: the outcome is returned, or the error raised, unrecorded.
HistoryUnreadable(r) == At(r, "read") /\ ~Readable /\ Unrecorded(r)

Appended(r) ==
    Append(chain, Entry(rv[r].attempt, rv[r].prev, rv[r].outcome, rv[r].locked, rv[r].candidate))

TailAfterLine == IF Readable THEN "whole" ELSE "glued"

\* Mutant: the verdict is released as soon as it is audited.
ReleaseUnsaved(r) ==
    /\ At(r, "append")
    /\ chain' = Appended(r) /\ tail' = TailAfterLine
    /\ IF rv[r].outcome = "VERDICT" THEN Goto(r, "release") /\ UNCHANGED lock ELSE Leave(r)
    /\ UNCHANGED <<now, metadata, completed, started, called, released>>

\* ... and appends its own, which a verdict follows by completed.json.
AppendAttempt(r) ==
    /\ At(r, "append")
    /\ chain' = Appended(r) /\ tail' = TailAfterLine
    /\ IF rv[r].outcome = "VERDICT" THEN Goto(r, "save") /\ UNCHANGED lock ELSE Leave(r)
    /\ UNCHANGED <<now, metadata, completed, started, called, released>>

\* An OSError before, while or after the line is written: no verdict is
\* released.
AppendFails(r) ==
    /\ At(r, "append")
    /\ \/ chain' = chain /\ tail' \in {tail, "partial"}
       \/ chain' = Appended(r) /\ tail' = TailAfterLine
    /\ Leave(r)
    /\ UNCHANGED <<now, metadata, completed, started, called, released>>

Result(r) == [attempt |-> rv[r].attempt, verdict |-> rv[r].candidate]

\* save_completed.  The review holds the lock since it found no result, so
\* the branch for a different one is not taken.
SaveCompleted(r) ==
    /\ At(r, "save") /\ completed = Nothing
    /\ completed' = Result(r)
    /\ Goto(r, "release")
    /\ UNCHANGED <<now, lock, metadata, chain, tail, started, called, released>>

SaveFails(r) ==
    /\ At(r, "save") /\ completed = Nothing
    /\ completed' \in {Nothing, Torn, Result(r)}
    /\ Leave(r)
    /\ UNCHANGED <<now, metadata, chain, tail, started, called, released>>

Release(r) ==
    /\ At(r, "release")
    /\ released' = released \cup {Result(r)}
    /\ Leave(r)
    /\ UNCHANGED <<now, files, started, called>>

----------------------------------------------------------------------------
\* The process stops.  What it was creating is left empty, the line it was
\* appending is cut short, its lock stays.
Crash(r) ==
    /\ ~At(r, "idle")
    /\ rv' = [rv EXCEPT ![r] = Idle]
    /\ lock' = IF Holds(r) THEN Stale ELSE lock
    /\ metadata' \in {metadata} \cup (IF At(r, "metadata") /\ metadata = Nothing THEN {Torn} ELSE {})
    /\ completed' \in {completed} \cup (IF At(r, "save") THEN {Torn} ELSE {})
    /\ tail' \in {tail} \cup (IF At(r, "append") THEN {"partial"} ELSE {})
    /\ UNCHANGED <<now, chain, started, called, released>>

\* The operator removes the lock of a process confirmed dead.
RemoveStaleLock ==
    /\ lock = Stale
    /\ lock' = Free
    /\ UNCHANGED <<now, files, rv, started, called, released>>

Tick ==
    /\ now < MaxTime
    /\ now' = now + 1
    /\ UNCHANGED <<lock, files, rv, started, called, released>>

\* What a running review does next, whatever fails.
Step(r) ==
    \/ Acquire(r) \/ LockTimeout(r)
    \/ PinFingerprint(r) \/ SameFingerprint(r) \/ DuplicateConflict(r) \/ MetadataUnreadable(r)
    \/ Gates(r) \/ RetryLimit(r) \/ Invoke(r)
    \/ WithholdCached(r) \/ ExpireCached(r) \/ ServeCached(r)
    \/ \E reply \in Replies : Answer(r, reply)
    \/ RawResponseLost(r)
    \/ ReadLast(r) \/ HistoryUnreadable(r) \/ AppendAttempt(r) \/ AppendFails(r)
    \/ SaveCompleted(r) \/ SaveFails(r) \/ Release(r)

Next ==
    \/ \E r \in Reviewers :
         \/ \E d \in Dispatches : Start(r, d)
         \/ Step(r)
         \/ Crash(r)
    \/ RemoveStaleLock
    \/ Tick

Spec == Init /\ [][Next]_reviewVars

\* A thread that runs is scheduled; model calls end by their timeout.
FairSpec == Spec /\ \A r \in Reviewers : WF_reviewVars(Step(r))

----------------------------------------------------------------------------
Store == INSTANCE WriteOnce WITH
    Keys <- {"request"},
    value <- [k \in {"request"} |-> IF Written THEN completed ELSE Nothing],
    served <- [k \in {"request"} |-> released]

\* The directory of a request promises one completed verdict: it is written
\* once, never changed, and no caller is answered with anything else, however
\* many reviews run, stop or come back.
OneVerdictServed == Store!Spec

\* The completed verdict is the last one audited, although its line may be
\* glued to a partial one.  A verdict that was audited and then lost to a
\* crash is superseded, never resurrected.
CompletedIsLastVerdict ==
    Written => \E i \in DOMAIN chain :
        /\ chain[i].attempt = completed.attempt
        /\ chain[i].verdict = completed.verdict
        /\ \A j \in i + 1 .. Len(chain) : chain[j].outcome # "VERDICT"

CallsRecorded == {i \in DOMAIN chain : chain[i].attempt \in called}
CallsInFlight == {r \in Reviewers : rv[r].pc \in {"invoke", "read", "append"} /\ rv[r].attempt \in called}

\* The model is called at most MaxAttempts times per request, but for calls
\* that stopped before they could be recorded, or found attempts.jsonl
\* unreadable; a second review that is waiting cannot slip one in.
CallBudget == Cardinality(CallsRecorded) + Cardinality(CallsInFlight) <= MaxAttempts

\* The hash chain breaks only where a review that timed out waiting for the
\* lock wrote its failure; those that hold the lock never break it.
OnlyWaitersBreakTheChain ==
    \A i \in DOMAIN chain :
        chain[i].prev # (IF i = 1 THEN 0 ELSE chain[i - 1].attempt) =>
            ~chain[i].locked \/ (i > 1 /\ ~chain[i - 1].locked)

\* Every review ends, also behind a lock whose holder is dead.
ReviewsEnd == \A r \in Reviewers : ~At(r, "idle") ~> At(r, "idle")
=============================================================================
