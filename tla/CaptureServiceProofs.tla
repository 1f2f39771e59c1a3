------------------------ MODULE CaptureServiceProofs ------------------------
(***************************************************************************)
(* Proofs about the capture service, for any calls, requests, plans, pages *)
(* and any number of changes and crashes: one thread reads the browser at  *)
(* a time, a committed result stays replayable, and the ledger is a store  *)
(* that is written once per request.                                       *)
(***************************************************************************)
EXTENDS CaptureService, ChecksProofs, FiniteSetTheorems

CallFields ==
    {"pc", "job", "document", "attached", "started", "firstRead", "lastRead", "todo", "before",
     "after", "shots", "seen", "result"}

\* The shape of the variables: what their values are is left open.
Shape ==
    /\ DOMAIN calls = Callers /\ calls = [c \in Callers |-> calls[c]]
    /\ \A c \in Callers : DOMAIN calls[c] = CallFields /\ DOMAIN calls[c].shots = Roles
    /\ DOMAIN results = Jobs /\ results = [j \in Jobs |-> results[j]]
    /\ DOMAIN served = Jobs /\ served = [j \in Jobs |-> served[j]]

\* What a worker may rely on.
CallInv(c) ==
    /\ ~CallAt(c, "idle") => calls[c].job \in Jobs /\ calls[c].document \in Documents
    /\ calls[c].pc \notin {"idle", "queued"} => semaphore = c
    /\ CallAt(c, "replay") => results[calls[c].job] # None
    /\ CallAt(c, "commit") => calls[c].result # None /\ Whole(calls[c].job, calls[c].result)
    /\ CallAt(c, "write") => calls[c].result # None /\ calls[c].result = results[calls[c].job]
    /\ \A r \in Roles : calls[c].shots[r] # None =>
          <<calls[c].job, r, calls[c].shots[r], TRUE>> \in images
    /\ calls[c].pc \in {"after", "compile"} =>
          \A r \in PlanRoles(c) : calls[c].shots[r] # None

IInv == Shape /\ (\A c \in Callers : CallInv(c)) /\ ResultsReplayable

LEMMA IdleShape ==
    /\ DOMAIN IdleCall = CallFields /\ DOMAIN IdleCall.shots = Roles
    /\ IdleCall.pc = "idle" /\ \A r \in Roles : IdleCall.shots[r] = None
  BY DEF IdleCall, CallFields, NoPages

----------------------------------------------------------------------------
(* Steps of one worker *)

\* Only the ledger's first result for a job is written, images stay, and the
\* lock moves to or from this worker.
WorkerStep(c) ==
    /\ calls' = [calls EXCEPT ![c] = calls'[c]]
    /\ DOMAIN calls'[c] = CallFields /\ DOMAIN calls'[c].shots = Roles
    /\ DOMAIN results' = Jobs /\ results' = [j \in Jobs |-> results'[j]]
    /\ DOMAIN served' = Jobs /\ served' = [j \in Jobs |-> served'[j]]
    /\ \A j \in Jobs : results[j] # None => results'[j] = results[j]
    /\ \A j \in Jobs : results'[j] # None => results'[j] = results[j] \/ Whole(j, results'[j])
    /\ images \subseteq images'
    /\ \/ semaphore' = semaphore
       \/ semaphore = Nobody /\ semaphore' = c
       \/ semaphore = c /\ semaphore' = Nobody
    /\ CallInv(c)'

LEMMA WorkerKeeps ==
    ASSUME IInv, NEW c \in Callers, WorkerStep(c)
    PROVE  IInv'
<1> USE DEF WorkerStep
<1>1. \A d \in Callers : d # c => calls'[d] = calls[d]
  BY DEF IInv, Shape
<1>2. Shape'
  <2>1. DOMAIN calls' = Callers /\ calls' = [d \in Callers |-> calls'[d]]
    BY DEF IInv, Shape
  <2> QED BY <1>1, <2>1 DEF IInv, Shape
<1>3. ASSUME NEW d \in Callers, d # c PROVE CallInv(d)'
  <2>1. calls'[d] = calls[d] /\ CallInv(d) BY <1>1, <1>3 DEF IInv
  <2>2. calls[d].pc \notin {"idle", "queued"} => semaphore' = d
    BY <1>3, <2>1, NobodyAssumption DEF CallInv
  <2> QED BY <2>1, <2>2 DEF CallInv, CallAt, PlanRoles, Whole
<1>4. ResultsReplayable'
  BY DEF IInv, ResultsReplayable, Whole
<1> QED BY <1>2, <1>3, <1>4 DEF IInv

\* A worker that ends.
LEMMA EndKeeps ==
    ASSUME IInv, NEW c \in Callers, End(c), UNCHANGED <<results, images>>,
           DOMAIN served' = Jobs /\ served' = [j \in Jobs |-> served'[j]]
    PROVE  IInv'
<1>1. calls'[c] = IdleCall /\ calls' = [calls EXCEPT ![c] = calls'[c]]
  BY DEF End, IInv, Shape
<1>2. CallInv(c)'
  BY <1>1, IdleShape DEF CallInv, CallAt
<1>3. WorkerStep(c)
  BY <1>1, <1>2, IdleShape DEF WorkerStep, End, IInv, Shape
<1> QED BY <1>3, WorkerKeeps

\* A worker that goes on with what it has.
LEMMA ProceedKeeps ==
    ASSUME IInv, NEW c \in Callers, NEW pc, calls' = [calls EXCEPT ![c] = calls'[c]],
           DOMAIN calls'[c] = CallFields,
           calls'[c].pc = pc, calls'[c].job = calls[c].job, calls'[c].document = calls[c].document,
           calls'[c].shots = calls[c].shots,
           calls[c].pc # "idle",
           pc \notin {"replay", "commit", "write", "after", "compile"},
           semaphore' = c, semaphore \in {c, Nobody},
           UNCHANGED <<results, images, served>>
    PROVE  IInv'
<1>1. CallInv(c)'
  BY DEF IInv, CallInv, CallAt
<1>2. WorkerStep(c)
  BY <1>1 DEF WorkerStep, IInv, Shape
<1> QED BY <1>2, WorkerKeeps

LEMMA AcceptedKeeps ==
    ASSUME IInv, NEW c \in Callers, NEW j \in Jobs, NEW d \in Documents, Accepted(c, j, d)
    PROVE  IInv'
<1> DEFINE x == [IdleCall EXCEPT !.pc = "queued", !.job = j, !.document = d, !.attached = TRUE]
<1>1. calls' = [calls EXCEPT ![c] = x] /\ UNCHANGED <<semaphore, results, images, served>>
  BY DEF Accepted, ledger, disk
<1>2. x.pc = "queued" /\ x.job = j /\ x.document = d /\ x.shots = IdleCall.shots /\ DOMAIN x = CallFields
  BY DEF IdleCall, CallFields
<1> HIDE DEF x
<1>3. calls'[c] = x BY <1>1 DEF IInv, Shape
<1>4. CallInv(c)'
  BY <1>2, <1>3, IdleShape DEF CallInv, CallAt
<1>5. WorkerStep(c)
  BY <1>1, <1>2, <1>3, <1>4, IdleShape DEF WorkerStep, IInv, Shape
<1> QED BY <1>5, WorkerKeeps

\* A worker that changes nothing a property reads but its own record.
LEMMA OwnRecordKeeps ==
    ASSUME IInv, NEW c \in Callers, calls' = [calls EXCEPT ![c] = calls'[c]],
           DOMAIN calls'[c] = CallFields, DOMAIN calls'[c].shots = Roles,
           UNCHANGED <<semaphore, results, images, served>>, CallInv(c)'
    PROVE  IInv'
<1>1. WorkerStep(c)
  BY DEF WorkerStep, IInv, Shape
<1> QED BY <1>1, WorkerKeeps

LEMMA NothingReadKeeps ==
    ASSUME IInv, UNCHANGED <<calls, semaphore, results, images, served>>
    PROVE  IInv'
  BY DEF IInv, Shape, CallInv, CallAt, PlanRoles, Whole, ResultsReplayable

LEMMA FailKeeps ==
    ASSUME IInv, NEW c \in Callers, Fail(c)
    PROVE  IInv'
<1>1. End(c) /\ UNCHANGED <<results, images, served>>
  BY DEF Fail, disk
<1> QED BY <1>1, EndKeeps DEF IInv, Shape

LEMMA EnterKeeps ==
    ASSUME IInv, NEW c \in Callers, Enter(c)
    PROVE  IInv'
<1>1. calls'[c] = [calls[c] EXCEPT !.pc = "begin", !.started = clock]
  BY DEF Enter, IInv, Shape
<1>2. calls' = [calls EXCEPT ![c] = calls'[c]]
  BY DEF Enter, IInv, Shape
<1>3. UNCHANGED <<results, images, served>> /\ semaphore' = c /\ semaphore = Nobody
  BY DEF Enter, ledger, disk
<1>4. /\ calls'[c].pc = "begin" /\ calls'[c].job = calls[c].job
      /\ calls'[c].document = calls[c].document /\ calls'[c].shots = calls[c].shots
      /\ DOMAIN calls'[c] = CallFields /\ calls[c].pc # "idle"
  BY <1>1 DEF Enter, CallAt, IInv, Shape, CallFields
<1> QED BY <1>2, <1>3, <1>4, ProceedKeeps

LEMMA CancelKeeps ==
    ASSUME IInv, NEW c \in Callers, Cancel(c)
    PROVE  IInv'
<1>1. UNCHANGED <<semaphore, results, images, served>>
  BY DEF Cancel, ledger, disk
<1>2. calls' = [calls EXCEPT ![c] = calls'[c]]
  BY DEF Cancel, IInv, Shape
<1>3. CASE CallAt(c, "queued")
  <2>1. calls'[c] = IdleCall BY <1>3 DEF Cancel, IInv, Shape
  <2>2. CallInv(c)' BY <2>1, IdleShape DEF CallInv, CallAt
  <2> QED BY <1>1, <1>2, <2>1, <2>2, IdleShape, OwnRecordKeeps
<1>4. CASE ~CallAt(c, "queued")
  <2>1. calls'[c] = [calls[c] EXCEPT !.attached = FALSE] BY <1>4 DEF Cancel, IInv, Shape
  <2>2. /\ calls'[c].pc = calls[c].pc /\ calls'[c].job = calls[c].job
        /\ calls'[c].document = calls[c].document /\ calls'[c].shots = calls[c].shots
        /\ calls'[c].result = calls[c].result /\ DOMAIN calls'[c] = CallFields
    BY <2>1 DEF IInv, Shape, CallFields
  <2>3. CallInv(c)' BY <1>1, <2>2 DEF IInv, CallInv, CallAt, PlanRoles, Whole
  <2> QED BY <1>1, <1>2, <2>2, <2>3, OwnRecordKeeps DEF IInv, Shape
<1> QED BY <1>3, <1>4

LEMMA ReplayKeeps ==
    ASSUME IInv, NEW c \in Callers, Replay(c)
    PROVE  IInv'
<1>1. UNCHANGED <<semaphore, results, images, served>>
  BY DEF Replay, ledger, disk
<1>2. calls' = [calls EXCEPT ![c] = calls'[c]]
  BY DEF Replay, Proceed, IInv, Shape
<1>3. calls'[c] = [calls[c] EXCEPT !.pc = "replay"] /\ calls[c].pc = "begin"
  BY DEF Replay, Proceed, CallAt, IInv, Shape
<1>4. /\ calls'[c].pc = "replay" /\ calls'[c].job = calls[c].job
      /\ calls'[c].document = calls[c].document /\ calls'[c].shots = calls[c].shots
      /\ DOMAIN calls'[c] = CallFields
  BY <1>3 DEF IInv, Shape, CallFields
<1>5. results[calls[c].job] # None BY DEF Replay
<1>6. CallInv(c)'
  BY <1>1, <1>3, <1>4, <1>5 DEF IInv, CallInv, CallAt
<1> QED BY <1>1, <1>2, <1>4, <1>6, OwnRecordKeeps DEF IInv, Shape

LEMMA AcceptRequestKeeps ==
    ASSUME IInv, NEW c \in Callers, AcceptRequest(c)
    PROVE  IInv'
<1>1. UNCHANGED <<results, images, served>> BY DEF AcceptRequest, disk
<1>2. CASE calls[c].document.plan
  <2>1. UNCHANGED semaphore /\ calls[c].pc = "begin" /\ semaphore = c
    BY <1>2 DEF AcceptRequest, CallAt, IInv, CallInv
  <2>2. calls' = [calls EXCEPT ![c] = calls'[c]] /\ calls'[c] = [calls[c] EXCEPT !.pc = "discover"]
    BY <1>2 DEF AcceptRequest, Proceed, IInv, Shape
  <2> QED BY <1>1, <2>1, <2>2, ProceedKeeps DEF IInv, Shape, CallFields
<1>3. CASE ~calls[c].document.plan
  BY <1>1, <1>3, EndKeeps DEF AcceptRequest, IInv, Shape
<1> QED BY <1>2, <1>3

LEMMA LoadReplayKeeps ==
    ASSUME IInv, NEW c \in Callers, LoadReplay(c)
    PROVE  IInv'
<1>1. End(c) /\ UNCHANGED <<results, images>> BY DEF LoadReplay, ledger
<1>2. DOMAIN served' = Jobs /\ served' = [j \in Jobs |-> served'[j]]
  BY DEF LoadReplay, IInv, Shape
<1> QED BY <1>1, <1>2, EndKeeps

LEMMA DiscoverKeeps ==
    ASSUME IInv, NEW c \in Callers, Discover(c)
    PROVE  IInv'
<1>1. CASE Fail(c) BY <1>1, FailKeeps
<1>2. CASE ~Fail(c)
  <2>1. UNCHANGED <<semaphore, results, images, served>> /\ calls[c].pc = "discover" /\ semaphore = c
    BY <1>2 DEF Discover, CallAt, IInv, CallInv, ledger, disk
  <2>2. calls' = [calls EXCEPT ![c] = calls'[c]]
        /\ calls'[c] = [calls[c] EXCEPT !.pc = "before", !.todo = PlanRoles(c),
                                        !.firstRead = clock, !.seen = changes]
    BY <1>2 DEF Discover, IInv, Shape
  <2> QED BY <2>1, <2>2, ProceedKeeps DEF IInv, Shape, CallFields
<1> QED BY <1>1, <1>2

LEMMA ReadBeforeKeeps ==
    ASSUME IInv, NEW c \in Callers, NEW r \in Roles, ReadBefore(c, r)
    PROVE  IInv'
<1>1. CASE Fail(c) BY <1>1, FailKeeps
<1>2. CASE ~Fail(c)
  <2>1. UNCHANGED <<semaphore, results, images, served>> /\ calls[c].pc = "before" /\ semaphore = c
    BY <1>2 DEF ReadBefore, CallAt, IInv, CallInv, ledger, disk
  <2>2. calls' = [calls EXCEPT ![c].before[r] = browser[r], ![c].todo = @ \ {r},
                               ![c].pc = IF calls[c].todo = {r} THEN "shoot" ELSE @]
    BY <1>2 DEF ReadBefore
  <2>3. calls' = [calls EXCEPT ![c] = calls'[c]]
    BY <2>2 DEF IInv, Shape
  <2>4. /\ calls'[c].pc \in {"before", "shoot"} /\ calls'[c].job = calls[c].job
        /\ calls'[c].document = calls[c].document /\ calls'[c].shots = calls[c].shots
        /\ DOMAIN calls'[c] = CallFields
    BY <2>1, <2>2 DEF IInv, Shape, CallFields
  <2> QED BY <2>1, <2>3, <2>4, ProceedKeeps
<1> QED BY <1>1, <1>2

LEMMA ShootKeeps ==
    ASSUME IInv, NEW c \in Callers, NEW r \in Roles, Shoot(c, r)
    PROVE  IInv'
<1>1. CASE Fail(c) BY <1>1, FailKeeps
<1>2. CASE ~Fail(c)
  <2>1. ~Damaged(c, r) BY <1>2 DEF Shoot
  <2>2. /\ images' = images \cup {<<calls[c].job, r, browser[r], TRUE>>}
        /\ calls' = [calls EXCEPT ![c].shots[r] = browser[r]]
        /\ UNCHANGED <<semaphore, results, served>> /\ calls[c].pc = "shoot"
    BY <2>1 DEF Shoot, CallAt, Damaged, ledger
  <2>3. calls' = [calls EXCEPT ![c] = calls'[c]]
        /\ calls'[c] = [calls[c] EXCEPT !.shots = [calls[c].shots EXCEPT ![r] = browser[r]]]
    BY <2>2 DEF IInv, Shape
  <2>4. /\ calls'[c].pc = "shoot" /\ calls'[c].job = calls[c].job
        /\ calls'[c].document = calls[c].document /\ DOMAIN calls'[c] = CallFields
        /\ calls'[c].shots = [calls[c].shots EXCEPT ![r] = browser[r]]
    BY <2>2, <2>3 DEF IInv, Shape, CallFields
  <2>5. \A q \in Roles : calls'[c].shots[q] = IF q = r THEN browser[r] ELSE calls[c].shots[q]
    BY <2>4 DEF IInv, Shape
  <2>6. CallInv(c)'
    <3>1. calls'[c].job \in Jobs /\ calls'[c].document \in Documents /\ semaphore' = c
      BY <2>2, <2>4 DEF IInv, CallInv, CallAt
    <3>2. \A q \in Roles : calls[c].shots[q] # None =>
            <<calls[c].job, q, calls[c].shots[q], TRUE>> \in images
      BY DEF IInv, CallInv
    <3>3. \A q \in Roles : calls'[c].shots[q] # None =>
            <<calls'[c].job, q, calls'[c].shots[q], TRUE>> \in images'
      <4> SUFFICES ASSUME NEW q \in Roles, calls'[c].shots[q] # None
                   PROVE  <<calls'[c].job, q, calls'[c].shots[q], TRUE>> \in images'
        OBVIOUS
      <4>1. CASE q = r BY <2>2, <2>4, <2>5, <4>1
      <4>2. CASE q # r
        <5>1. calls'[c].shots[q] = calls[c].shots[q] /\ calls'[c].job = calls[c].job
          BY <2>4, <2>5, <4>2
        <5>2. <<calls[c].job, q, calls[c].shots[q], TRUE>> \in images BY <3>2, <5>1
        <5>3. <<calls'[c].job, q, calls'[c].shots[q], TRUE>>
              = <<calls[c].job, q, calls[c].shots[q], TRUE>>
          BY ONLY <5>1
        <5>4. images \subseteq images' BY <2>2
        <5> QED BY ONLY <5>2, <5>3, <5>4
      <4> QED BY <4>1, <4>2
    <3>4. calls'[c].pc = "shoot" BY <2>4
    <3> QED BY <3>1, <3>3, <3>4 DEF CallInv, CallAt
  <2>7. WorkerStep(c)
    BY <2>2, <2>3, <2>4, <2>6 DEF WorkerStep, IInv, Shape
  <2> QED BY <2>7, WorkerKeeps
<1> QED BY <1>1, <1>2

LEMMA LookAgainKeeps ==
    ASSUME IInv, NEW c \in Callers, LookAgain(c)
    PROVE  IInv'
<1>1. UNCHANGED <<semaphore, results, images, served>> /\ calls[c].pc = "shoot"
  BY DEF LookAgain, CallAt, ledger, disk
<1>2. calls' = [calls EXCEPT ![c] = calls'[c]]
      /\ calls'[c] = [calls[c] EXCEPT !.pc = "after", !.todo = PlanRoles(c), !.lastRead = clock]
  BY DEF LookAgain, IInv, Shape
<1>3. /\ calls'[c].pc = "after" /\ calls'[c].job = calls[c].job
      /\ calls'[c].document = calls[c].document /\ calls'[c].shots = calls[c].shots
      /\ DOMAIN calls'[c] = CallFields
  BY <1>2 DEF IInv, Shape, CallFields
<1>4. CallInv(c)'
  <2>1. \A r \in PlanRoles(c) : calls[c].shots[r] # None BY DEF LookAgain
  <2>2. calls'[c].job \in Jobs /\ calls'[c].document \in Documents /\ semaphore' = c
    BY <1>1, <1>3 DEF IInv, CallInv, CallAt
  <2>3. \A r \in Roles : calls[c].shots[r] # None =>
          <<calls[c].job, r, calls[c].shots[r], TRUE>> \in images
    BY DEF IInv, CallInv
  <2> QED BY <1>1, <1>3, <2>1, <2>2, <2>3 DEF CallInv, CallAt, PlanRoles
<1> QED BY <1>1, <1>2, <1>3, <1>4, OwnRecordKeeps DEF IInv, Shape

LEMMA ReadAfterKeeps ==
    ASSUME IInv, NEW c \in Callers, NEW r \in Roles, ReadAfter(c, r)
    PROVE  IInv'
<1>1. CASE Fail(c) BY <1>1, FailKeeps
<1>2. CASE ~Fail(c)
  <2>1. UNCHANGED <<semaphore, results, images, served>> /\ calls[c].pc = "after"
    BY <1>2 DEF ReadAfter, CallAt, ledger, disk
  <2>0. calls' = [calls EXCEPT ![c].after[r] = browser[r], ![c].todo = @ \ {r},
                               ![c].pc = IF calls[c].todo = {r} THEN "compile" ELSE @]
    BY <1>2 DEF ReadAfter
  <2>2. calls' = [calls EXCEPT ![c] = calls'[c]]
    BY <2>0 DEF IInv, Shape
  <2>3. /\ calls'[c].pc \in {"after", "compile"} /\ calls'[c].job = calls[c].job
        /\ calls'[c].document = calls[c].document /\ calls'[c].shots = calls[c].shots
        /\ DOMAIN calls'[c] = CallFields
    BY <2>1, <2>0 DEF IInv, Shape, CallFields
  <2>4. CallInv(c)'
    BY <2>1, <2>3 DEF IInv, CallInv, CallAt, PlanRoles
  <2> QED BY <2>1, <2>2, <2>3, <2>4, OwnRecordKeeps DEF IInv, Shape
<1> QED BY <1>1, <1>2

\* The result names the files of the views that were photographed.
LEMMA CompileKeeps ==
    ASSUME IInv, NEW c \in Callers, Result(c) # None, Compile(c)
    PROVE  IInv'
<1>1. CASE Fail(c) BY <1>1, FailKeeps
<1>2. CASE ~Fail(c)
  <2> DEFINE x == [IdleCall EXCEPT !.pc = "commit", !.job = calls[c].job,
                                   !.document = calls[c].document,
                                   !.attached = calls[c].attached, !.result = Result(c)]
  <2>1. UNCHANGED <<semaphore, results, images, served>> /\ calls[c].pc = "compile"
        /\ calls' = [calls EXCEPT ![c] = x]
    BY <1>2 DEF Compile, CallAt, ledger, disk
  <2>2. /\ x.pc = "commit" /\ x.job = calls[c].job /\ x.document = calls[c].document
        /\ x.result = Result(c) /\ x.shots = IdleCall.shots /\ DOMAIN x = CallFields
    BY DEF IdleCall, CallFields
  <2> HIDE DEF x
  <2>3. calls'[c] = x BY <2>1 DEF IInv, Shape
  <2>4. calls[c].job \in Jobs /\ calls[c].document \in Documents /\ semaphore = c
    BY <2>1 DEF IInv, CallInv, CallAt
  <2>5. Whole(calls[c].job, Result(c))
    <3>1. PlanRoles(c) \subseteq Roles BY <2>4, RolesAssumption DEF PlanRoles
    <3>2. \A r \in PlanRoles(c) : calls[c].shots[r] # None
      BY <2>1 DEF IInv, CallInv
    <3>3. \A r \in PlanRoles(c) : <<calls[c].job, r, calls[c].shots[r], TRUE>> \in images
      BY <3>1, <3>2 DEF IInv, CallInv
    <3>4. Result(c).shots = [r \in PlanRoles(c) |-> calls[c].shots[r]]
      BY DEF Result
    <3> QED BY <3>3, <3>4 DEF Whole
  <2>6. CallInv(c)'
    <3>1. calls'[c].pc = "commit" /\ calls'[c].job \in Jobs /\ calls'[c].document \in Documents
          /\ semaphore' = c
      BY <2>1, <2>2, <2>3, <2>4
    <3>2. calls'[c].result # None /\ Whole(calls[c].job, calls[c].result)'
      <4>1. calls'[c].result = Result(c) /\ calls'[c].job = calls[c].job /\ images' = images
        BY <2>1, <2>2, <2>3
      <4>2. \A k \in DOMAIN Result(c).shots :
              <<calls[c].job, k, Result(c).shots[k], TRUE>> \in images
        BY <2>5 DEF Whole
      <4> HIDE DEF Result
      <4>3. \A k \in DOMAIN calls'[c].result.shots :
              <<calls'[c].job, k, calls'[c].result.shots[k], TRUE>> \in images'
        BY ONLY <4>1, <4>2
      <4> QED BY <4>1, <4>3 DEF Whole
    <3>3. \A r \in Roles : calls'[c].shots[r] = None BY <2>2, <2>3, IdleShape
    <3> QED BY <3>1, <3>2, <3>3 DEF CallInv, CallAt
  <2> QED BY <2>1, <2>2, <2>3, <2>6, IdleShape, OwnRecordKeeps
<1> QED BY <1>1, <1>2

LEMMA CommitKeeps ==
    ASSUME IInv, NEW c \in Callers, Commit(c)
    PROVE  IInv'
<1>1. CASE Fail(c) BY <1>1, FailKeeps
<1>2. CASE ~Fail(c)
  <2> DEFINE j == calls[c].job
  <2>1. /\ results[j] = None /\ results' = [results EXCEPT ![j] = calls[c].result]
        /\ calls' = [calls EXCEPT ![c].pc = "write"]
        /\ UNCHANGED <<semaphore, images, served>> /\ calls[c].pc = "commit"
    BY <1>2 DEF Commit, Proceed, CallAt, disk
  <2>2. /\ j \in Jobs /\ calls[c].document \in Documents /\ semaphore = c
        /\ calls[c].result # None /\ Whole(j, calls[c].result)
        /\ \A r \in Roles : calls[c].shots[r] # None => <<j, r, calls[c].shots[r], TRUE>> \in images
    BY <2>1 DEF IInv, CallInv, CallAt
  <2>3. /\ calls' = [calls EXCEPT ![c] = calls'[c]] /\ calls'[c] = [calls[c] EXCEPT !.pc = "write"]
    BY <2>1 DEF IInv, Shape
  <2>4. /\ calls'[c].pc = "write" /\ calls'[c].job = j
        /\ calls'[c].document = calls[c].document /\ calls'[c].shots = calls[c].shots
        /\ calls'[c].result = calls[c].result /\ DOMAIN calls'[c] = CallFields
    BY <2>3 DEF IInv, Shape, CallFields
  <2>5. /\ DOMAIN results' = Jobs /\ results' = [k \in Jobs |-> results'[k]]
        /\ results'[j] = calls[c].result /\ \A k \in Jobs : k # j => results'[k] = results[k]
    BY <2>1, <2>2 DEF IInv, Shape
  <2>6. CallInv(c)'
    <3>1. /\ calls'[c].pc = "write" /\ calls'[c].job \in Jobs /\ calls'[c].document \in Documents
          /\ semaphore' = c /\ calls'[c].result # None /\ calls'[c].result = results'[calls'[c].job]
      BY <2>1, <2>2, <2>4, <2>5
    <3>2. \A r \in Roles : calls'[c].shots[r] # None =>
            <<calls'[c].job, r, calls'[c].shots[r], TRUE>> \in images'
      <4>1. calls'[c].job = calls[c].job /\ calls'[c].shots = calls[c].shots /\ images' = images
        BY <2>1, <2>4
      <4>2. \A r \in Roles : calls[c].shots[r] # None =>
              <<calls[c].job, r, calls[c].shots[r], TRUE>> \in images
        BY <2>2
      <4> QED BY ONLY <4>1, <4>2
    <3> QED BY <3>1, <3>2 DEF CallInv, CallAt
  <2>7. \A k \in Jobs : results'[k] # None => results'[k] = results[k] \/ Whole(k, results'[k])
    BY <2>2, <2>5
  <2>8. \A k \in Jobs : results[k] # None => results'[k] = results[k]
    BY <2>1, <2>5
  <2>9. WorkerStep(c)
    BY <2>1, <2>3, <2>4, <2>5, <2>6, <2>7, <2>8 DEF WorkerStep, IInv, Shape
  <2> QED BY <2>9, WorkerKeeps
<1> QED BY <1>1, <1>2

LEMMA WriteResultKeeps ==
    ASSUME IInv, NEW c \in Callers, WriteResult(c)
    PROVE  IInv'
<1>1. End(c) /\ UNCHANGED <<results, images>> BY DEF WriteResult, ledger
<1>2. DOMAIN served' = Jobs /\ served' = [j \in Jobs |-> served'[j]]
  BY DEF WriteResult, IInv, Shape
<1> QED BY <1>1, <1>2, EndKeeps

\* A crash leaves no worker, and what it tears was not there whole.
LEMMA CrashKeeps ==
    ASSUME IInv, Crash
    PROVE  IInv'
<1>1. calls' = [c \in Callers |-> IdleCall] /\ UNCHANGED <<results, served>>
  BY DEF Crash, ledger
<1>6. images \subseteq images'
  <2>1. PICK torn \in SUBSET Unfinished :
               images' = images \cup {t \in torn : <<t[1], t[2], t[3], TRUE>> \notin images}
    BY DEF Crash
  <2> QED BY <2>1
<1>2. \A c \in Callers : calls'[c] = IdleCall BY <1>1
<1>3. Shape' BY <1>1, <1>2, IdleShape DEF IInv, Shape
<1>4. \A c \in Callers : CallInv(c)' BY <1>2, IdleShape DEF CallInv, CallAt
<1>5. ResultsReplayable' BY <1>1, <1>6 DEF IInv, ResultsReplayable, Whole
<1> QED BY <1>3, <1>4, <1>5 DEF IInv

----------------------------------------------------------------------------
(* The theorems *)

\* What stands for no result is not a result.
NoneIsNoResult ==
    \A s, v, f, l, m : [shots |-> s, views |-> v, fields |-> f, lastRead |-> l, moves |-> m] # None

LEMMA WorkersKeep ==
    ASSUME NoneIsNoResult, IInv, NEW c \in Callers, Worker(c)
    PROVE  IInv'
<1>1. CASE Enter(c) BY <1>1, EnterKeeps
<1>2. CASE Expired(c) \/ Escape(c)
  BY <1>2, EndKeeps DEF Expired, Escape, ledger, disk, IInv, Shape
<1>3. CASE ReplayConflict(c)
  BY <1>3, EndKeeps DEF ReplayConflict, disk, IInv, Shape
<1>4. CASE Replay(c) BY <1>4, ReplayKeeps
<1>5. CASE AcceptRequest(c) BY <1>5, AcceptRequestKeeps
<1>6. CASE LoadReplay(c) BY <1>6, LoadReplayKeeps
<1>7. CASE Discover(c) BY <1>7, DiscoverKeeps
<1>8. CASE TimedOut(c) \/ BrowserRefuses(c) BY <1>8, FailKeeps DEF TimedOut, BrowserRefuses
<1>9. CASE LookAgain(c) BY <1>9, LookAgainKeeps
<1>10. CASE \E r \in Roles : ReadBefore(c, r) \/ Shoot(c, r) \/ ReadAfter(c, r)
  BY <1>10, ReadBeforeKeeps, ShootKeeps, ReadAfterKeeps
<1>11. CASE Compile(c)
  <2>1. Result(c) # None BY DEF Result, NoneIsNoResult
  <2> QED BY <1>11, <2>1, CompileKeeps
<1>12. CASE Commit(c) BY <1>12, CommitKeeps
<1>13. CASE WriteResult(c) BY <1>13, WriteResultKeeps
<1> QED
  BY <1>1, <1>2, <1>3, <1>4, <1>5, <1>6, <1>7, <1>8, <1>9, <1>10, <1>11, <1>12, <1>13 DEF Worker

LEMMA InitHolds == Init => IInv
<1> SUFFICES ASSUME Init PROVE IInv OBVIOUS
<1>1. \A c \in Callers : calls[c] = IdleCall BY DEF Init
<1>2. Shape BY <1>1, IdleShape DEF Init, Shape
<1>3. \A c \in Callers : CallInv(c) BY <1>1, IdleShape DEF CallInv, CallAt
<1>4. ResultsReplayable BY DEF Init, ResultsReplayable
<1> QED BY <1>2, <1>3, <1>4 DEF IInv

LEMMA StepKeeps ==
    ASSUME NoneIsNoResult, IInv, [Next]_captureVars
    PROVE  IInv'
<1>1. CASE UNCHANGED captureVars
  BY <1>1, NothingReadKeeps DEF captureVars
<1>2. ASSUME NEW c \in Callers, \E j \in Jobs, d \in Documents : Accepted(c, j, d) PROVE IInv'
  BY <1>2, AcceptedKeeps
<1>3. ASSUME NEW c \in Callers, RateLimited(c) PROVE IInv'
  BY <1>3, NothingReadKeeps DEF RateLimited, ledger, disk
<1>4. ASSUME NEW c \in Callers, Cancel(c) PROVE IInv'
  BY <1>4, CancelKeeps
<1>5. ASSUME NEW c \in Callers, Worker(c) PROVE IInv'
  BY <1>5, WorkersKeep
<1>6. CASE \E r \in Roles : BrowserChanges(r)
  BY <1>6, NothingReadKeeps DEF BrowserChanges, ledger, disk
<1>7. CASE Tick
  BY <1>7, NothingReadKeeps DEF Tick, ledger, disk
<1>8. CASE Crash
  BY <1>8, CrashKeeps
<1> QED BY <1>1, <1>2, <1>3, <1>4, <1>5, <1>6, <1>7, <1>8 DEF Next

\* Everything below rests on this invariant.
THEOREM Invariance ==
    ASSUME NoneIsNoResult
    PROVE  Spec => []IInv
  BY InitHolds, StepKeeps, PTL DEF Spec

\* One thread at a time reads the browser, whichever callers have left: a
\* worker past the queue holds the lock of run_serialized_capture.
THEOREM CapturesAreSerial ==
    ASSUME NoneIsNoResult
    PROVE  Spec => []OneCaptureAtATime
<1>1. IInv => OneCaptureAtATime
  <2> SUFFICES ASSUME IInv PROVE OneCaptureAtATime OBVIOUS
  <2> DEFINE S == {c \in Callers : calls[c].pc \notin {"idle", "queued"}}
  <2>1. S \subseteq {semaphore} BY DEF IInv, CallInv
  <2>2. IsFiniteSet({semaphore}) /\ Cardinality({semaphore}) = 1 BY FS_Singleton
  <2>3. Cardinality(S) <= 1 BY <2>1, <2>2, FS_Subset
  <2> QED BY <2>3 DEF OneCaptureAtATime
<1> QED BY <1>1, Invariance, PTL

\* A committed result can be replayed: the images it names stay on disk
\* complete, whatever is captured, refused or torn by a crash afterwards.
THEOREM CommittedReplays ==
    ASSUME NoneIsNoResult
    PROVE  Spec => []ResultsReplayable
<1>1. IInv => ResultsReplayable BY DEF IInv
<1> QED BY <1>1, Invariance, PTL

\* record_result never replaces a result, and every caller is answered with
\* the one of the ledger: capture_results is a store written once.
LEMMA StepRefines ==
    ASSUME IInv, [Next]_captureVars
    PROVE  [Store!Next]_<<results, served>>
<1>1. CASE UNCHANGED <<results, served>> BY <1>1
<1>2. ASSUME NEW c \in Callers, LoadReplay(c), ~UNCHANGED <<results, served>>
      PROVE  Store!Next
  <2>1. calls[c].job \in Jobs /\ results[calls[c].job] # None
    BY <1>2 DEF LoadReplay, IInv, CallInv, CallAt
  <2>2. /\ UNCHANGED results
        /\ served' = [served EXCEPT ![calls[c].job] = @ \cup {results[calls[c].job]}]
    BY <1>2 DEF LoadReplay, ledger
  <2> QED BY <2>1, <2>2 DEF Store!Next, Store!Serve
<1>3. ASSUME NEW c \in Callers, WriteResult(c), ~UNCHANGED <<results, served>>
      PROVE  Store!Next
  <2>1. /\ calls[c].job \in Jobs /\ results[calls[c].job] # None
        /\ calls[c].result = results[calls[c].job]
    BY <1>3 DEF WriteResult, IInv, CallInv, CallAt
  <2>2. /\ UNCHANGED results
        /\ served' = [served EXCEPT ![calls[c].job] = @ \cup {calls[c].result}]
    BY <1>3 DEF WriteResult, ledger
  <2> QED BY <2>1, <2>2 DEF Store!Next, Store!Serve
<1>4. ASSUME NEW c \in Callers, Commit(c), ~UNCHANGED <<results, served>>
      PROVE  Store!Next
  <2>1. calls[c].job \in Jobs BY <1>4 DEF Commit, IInv, CallInv, CallAt
  <2>2. /\ results[calls[c].job] = None /\ UNCHANGED served
        /\ results' = [results EXCEPT ![calls[c].job] = calls[c].result]
    BY <1>4 DEF Commit, Fail
  <2>3. results' = [results EXCEPT ![calls[c].job] = results'[calls[c].job]]
    BY <2>1, <2>2 DEF IInv, Shape
  <2> QED BY <2>1, <2>2, <2>3 DEF Store!Next, Store!Write
<1>5. ASSUME NEW c \in Callers, Worker(c), ~LoadReplay(c), ~WriteResult(c), ~Commit(c)
      PROVE  UNCHANGED <<results, served>>
  BY <1>5 DEF Worker, Enter, Expired, ReplayConflict, Replay, AcceptRequest, Discover, TimedOut,
              LookAgain, ReadBefore, Shoot, ReadAfter, Compile, Escape, BrowserRefuses, Fail, ledger
<1>6. ASSUME NEW c \in Callers,
             RateLimited(c) \/ Cancel(c) \/ \E j \in Jobs, d \in Documents : Accepted(c, j, d)
      PROVE  UNCHANGED <<results, served>>
  BY <1>6 DEF RateLimited, Cancel, Accepted, ledger
<1>7. CASE UNCHANGED captureVars \/ Tick \/ Crash \/ \E r \in Roles : BrowserChanges(r)
  <2>1. UNCHANGED captureVars => UNCHANGED <<results, served>> BY DEF captureVars
  <2>2. Tick => UNCHANGED <<results, served>> BY DEF Tick, ledger
  <2>3. Crash => UNCHANGED <<results, served>> BY DEF Crash, ledger
  <2>4. \A r \in Roles : BrowserChanges(r) => UNCHANGED <<results, served>> BY DEF BrowserChanges, ledger
  <2> QED BY <1>7, <2>1, <2>2, <2>3, <2>4
<1> QED BY <1>1, <1>2, <1>3, <1>4, <1>5, <1>6, <1>7 DEF Next

THEOREM ServiceImplementsStore ==
    ASSUME NoneIsNoResult
    PROVE  Spec => OneResultPerRequest
<1>1. Init => Store!Init BY DEF Init, Store!Init
<1>2. IInv /\ [Next]_captureVars => [Store!Next]_<<results, served>> BY StepRefines
<1> QED BY <1>1, <1>2, Invariance, PTL DEF OneResultPerRequest, Store!Spec, Spec

----------------------------------------------------------------------------
(* What a result says *)

\* What a passed check of a page, a chart or a quote says of it.
LEMMA ChartPasses ==
    ASSUME NEW view, NEW chart, NEW now, ChartFailure(view, chart, now) = "OK"
    PROVE  chart.symbol = view.symbol
<1>1. PICK checks : checks = <<
        <<chart.symbol # view.symbol, "SYMBOL_MISMATCH">>,
        <<chart.timeframe \notin DOMAIN view.types, "TIMEFRAME_MISMATCH">>,
        <<chart.timeframe \in DOMAIN view.types => chart.type # view.types[chart.timeframe],
          "CHART_TYPE_MISMATCH">>,
        <<chart.bars = <<>>, "SOURCE_STALE">>,
        <<chart.current > now + Limits.skew, "SOURCE_STALE">>,
        <<chart.type = NumericType /\ now - chart.current > Limits.bar, "SOURCE_STALE">> >>
  OBVIOUS
<1>2. DOMAIN checks = 1 .. 6 /\ \A i \in 1 .. 6 : checks[i][2] # "OK" BY <1>1
<1>3. checks[1][1] <=> chart.symbol # view.symbol BY <1>1
<1>4. FirstFailure(checks) = "OK" BY <1>1 DEF ChartFailure
<1>5. \A i \in 1 .. 6 : ~checks[i][1] BY <1>2, <1>4, NothingFailed
<1> QED BY <1>3, <1>5

LEMMA ViewPasses ==
    ASSUME NEW view, NEW page, NEW now, ViewFailure(view, page, now) = "OK"
    PROVE  page.layout = view.layout /\ \A c \in page.charts : c.symbol = view.symbol
<1>1. PICK checks : checks = <<
        <<~page.script, "SCRIPT_INTEGRITY_FAILURE">>,
        <<~page.ready, "STRUCTURED_READ_INCOMPLETE">>,
        <<page.layout # view.layout, "LAYOUT_MISMATCH">>,
        <<AccountFailure(page.markers) # "OK", "ACCOUNT_MISMATCH">>,
        <<Cardinality(page.charts) # Cardinality(DOMAIN view.types), "TIMEFRAME_MISMATCH">>,
        <<\E c \in page.charts : ChartFailure(view, c, now) # "OK", "CHART_REFUSED">>,
        <<{c.timeframe : c \in page.charts} # DOMAIN view.types, "TIMEFRAME_MISMATCH">> >>
  OBVIOUS
<1>2. DOMAIN checks = 1 .. 7 /\ \A i \in 1 .. 7 : checks[i][2] # "OK" BY <1>1
<1>3. /\ checks[3][1] <=> page.layout # view.layout
      /\ checks[6][1] <=> \E c \in page.charts : ChartFailure(view, c, now) # "OK"
  BY <1>1
<1>4. FirstFailure(checks) = "OK" BY <1>1 DEF ViewFailure
<1>5. \A i \in 1 .. 7 : ~checks[i][1] BY <1>2, <1>4, NothingFailed
<1> QED BY <1>3, <1>5, ChartPasses

LEMMA QuotePasses ==
    ASSUME NEW view, NEW chart, NEW at, QuoteFailure(view, chart, at) = "OK"
    PROVE  ~(at - chart.quote.time > Limits.quote)
<1> DEFINE quote == chart.quote
<1>1. PICK checks : checks = <<
        <<~quote.source, "STRUCTURED_READ_INCOMPLETE">>,
        <<quote.symbol # view.symbol, "SYMBOL_MISMATCH">>,
        <<quote.time > at + Limits.skew, "SOURCE_STALE">>,
        <<at - quote.time > Limits.quote, "SOURCE_STALE">>,
        <<quote.bid <= 0 \/ quote.ask <= 0, "STRUCTURED_READ_INCOMPLETE">>,
        <<quote.ask < quote.bid, "STRUCTURED_READ_INCOMPLETE">>,
        <<AtrFailure(chart.bars) # "OK", "STRUCTURED_READ_INCOMPLETE">>,
        <<chart.bars # <<>> /\ chart.bars[1].time # chart.closed, "STRUCTURED_READ_INCOMPLETE">>,
        <<chart.bars # <<>> /\ chart.bars[1].time > at + Limits.skew, "SOURCE_STALE">>,
        <<chart.bars # <<>> /\ at - chart.bars[1].time > Limits.atr, "SOURCE_STALE">> >>
  OBVIOUS
<1>2. DOMAIN checks = 1 .. 10 /\ \A i \in 1 .. 10 : checks[i][2] # "OK" BY <1>1
<1>3. checks[4][1] <=> at - quote.time > Limits.quote BY <1>1
<1>4. FirstFailure(checks) = "OK" BY <1>1 DEF QuoteFailure
<1>5. \A i \in 1 .. 10 : ~checks[i][1] BY <1>2, <1>4, NothingFailed
<1> QED BY <1>3, <1>5

LEMMA FieldsPass ==
    ASSUME NEW view, NEW page, NEW at, NEW level, FieldsFailure(view, page, at, level) = "OK"
    PROVE  \A c \in NumericCharts(page) : ~(at - c.quote.time > Limits.quote)
<1>1. PICK checks : checks = <<
        <<NumericCharts(page) = {}, "CAPTURE_PLAN_MISMATCH">>,
        <<\E c \in NumericCharts(page) : QuoteFailure(view, c, at) # "OK", "QUOTE_REFUSED">>,
        <<level.symbol # view.symbol, "SYMBOL_MISMATCH">> >>
  OBVIOUS
<1>2. DOMAIN checks = 1 .. 3 /\ \A i \in 1 .. 3 : checks[i][2] # "OK" BY <1>1
<1>3. checks[2][1] <=> \E c \in NumericCharts(page) : QuoteFailure(view, c, at) # "OK" BY <1>1
<1>4. FirstFailure(checks) = "OK" BY <1>1 DEF FieldsFailure
<1>5. \A i \in 1 .. 3 : ~checks[i][1] BY <1>2, <1>4, NothingFailed
<1> QED BY <1>3, <1>5, QuotePasses

LEMMA CompilePasses ==
    ASSUME NEW c, CompileFailure(c) = "OK"
    PROVE  /\ ~Moved(c)
           /\ \A r \in QuotedRoles(c) : FieldsFailure(Views[r], calls[c].before[r], calls[c].firstRead,
                                                      calls[c].document.level) = "OK"
<1>1. PICK checks : checks = <<
        <<Moved(c), "BROWSER_STATE_CHANGED">>,
        <<\E r \in QuotedRoles(c) :
            FieldsFailure(Views[r], calls[c].before[r], calls[c].firstRead, calls[c].document.level) # "OK",
          "STRUCTURED_READ_INCOMPLETE">> >>
  OBVIOUS
<1>2. DOMAIN checks = 1 .. 2 /\ \A i \in 1 .. 2 : checks[i][2] # "OK" BY <1>1
<1>3. /\ checks[1][1] <=> Moved(c)
      /\ checks[2][1] <=> \E r \in QuotedRoles(c) :
            FieldsFailure(Views[r], calls[c].before[r], calls[c].firstRead, calls[c].document.level) # "OK"
  BY <1>1
<1>4. FirstFailure(checks) = "OK" BY <1>1 DEF CompileFailure
<1>5. \A i \in 1 .. 2 : ~checks[i][1] BY <1>2, <1>4, NothingFailed
<1> QED BY <1>3, <1>5

\* Two pages that passed the checks of one view and have one fingerprint
\* look alike: the checks have fixed what the fingerprint leaves out.
LEMMA AlikeWhenChecked ==
    ASSUME NEW view, NEW a, NEW b, NEW s, NEW t,
           ViewFailure(view, a, s) = "OK", ViewFailure(view, b, t) = "OK",
           Fingerprint(a) = Fingerprint(b)
    PROVE  Identity(a) = Identity(b)
<1>1. /\ a.layout = b.layout
      /\ \A c \in a.charts : c.symbol = view.symbol
      /\ \A c \in b.charts : c.symbol = view.symbol
  BY ViewPasses
<1>2. {<<c.timeframe, c.type>> : c \in a.charts} = {<<c.timeframe, c.type>> : c \in b.charts}
  BY DEF Fingerprint
<1>3. a.charts = {} <=> b.charts = {} BY <1>2
<1>4. {c.symbol : c \in a.charts} = {c.symbol : c \in b.charts} BY <1>1, <1>3
<1> QED BY <1>1, <1>4 DEF Identity

Same(p, q) == Identity(p) = Identity(q)

\* The roles a worker has read before the picture, taken and read after it.
LookedBefore(c, r) ==
    /\ calls[c].pc \in {"before", "shoot", "after", "compile"} /\ r \in PlanRoles(c)
    /\ calls[c].pc = "before" => r \notin calls[c].todo
Shot(c, r) ==
    calls[c].pc \in {"shoot", "after", "compile"} /\ r \in PlanRoles(c) /\ calls[c].shots[r] # None
LookedAfter(c, r) ==
    /\ calls[c].pc \in {"after", "compile"} /\ r \in PlanRoles(c)
    /\ calls[c].pc = "after" => r \notin calls[c].todo

\* The browser shows what was read first until it changes; a picture of
\* another page needs one change, the same page after it a second.
RoleInv(c, r) ==
    LET call == calls[c] IN
    /\ LookedBefore(c, r) =>
         /\ call.before[r] \in Pages[r] /\ ViewFailure(Views[r], call.before[r], call.firstRead) = "OK"
         /\ Same(call.before[r], browser[r]) \/ changes > call.seen
    /\ Shot(c, r) =>
         \/ Same(call.shots[r], call.before[r])
         \/ changes > call.seen /\ ~Same(call.before[r], browser[r])
         \/ changes > call.seen + 1
    /\ LookedAfter(c, r) =>
         /\ ViewFailure(Views[r], call.after[r], call.lastRead) = "OK"
         /\ \/ Same(call.shots[r], call.before[r])
            \/ ~Same(call.after[r], call.before[r])
            \/ changes > call.seen + 1

\* A result that says what its pictures show, of quotes that are not too old.
Truthful(result) ==
    /\ \/ \A r \in DOMAIN result.shots : Same(result.shots[r], result.views[r])
       \/ result.moves >= 2
    /\ \A f \in result.fields : result.lastRead - f.quoteTime <= Limits.quote + Timeout

CallRead(c) ==
    LET call == calls[c] IN
    /\ call.started \in Nat /\ call.firstRead \in Nat /\ call.lastRead \in Nat /\ call.seen \in Nat
    /\ DOMAIN call.before = Roles /\ DOMAIN call.after = Roles
    /\ call.pc \in {"begin", "discover"} => call.started <= clock
    /\ call.pc \in {"queued", "begin", "discover", "before"} => \A r \in Roles : call.shots[r] = None
    /\ call.pc \in {"before", "shoot", "after", "compile"} =>
          call.started <= call.firstRead /\ call.seen <= changes
    /\ call.pc = "after" => call.lastRead <= clock
    /\ call.pc = "compile" => call.lastRead <= call.started + Timeout
    /\ call.pc \in {"commit", "write"} => Truthful(call.result)
    /\ \A r \in Roles : RoleInv(c, r)

WorldShape ==
    /\ clock \in Nat /\ changes \in Nat
    /\ DOMAIN browser = Roles /\ \A r \in Roles : browser[r] \in Pages[r]

ResultsTruthful == \A j \in Jobs : results[j] # None => Truthful(results[j])

\* What the results say, on top of the invariant of the ledger.
ReadInv == WorldShape /\ (\A c \in Callers : CallRead(c)) /\ ResultsTruthful

\* A step of one worker, while the world stands still.
LEMMA OwnReadKeeps ==
    ASSUME IInv, ReadInv, NEW c \in Callers, calls' = [calls EXCEPT ![c] = calls'[c]],
           UNCHANGED <<clock, browser, changes>>, CallRead(c)',
           \A j \in Jobs : results'[j] = results[j] \/ Truthful(results'[j])
    PROVE  ReadInv'
<1>1. ASSUME NEW d \in Callers, d # c PROVE CallRead(d)'
  <2>1. calls'[d] = calls[d] BY <1>1 DEF IInv, Shape
  <2>2. CallRead(d) BY DEF ReadInv
  <2> QED BY <2>1, <2>2 DEF CallRead, RoleInv, LookedBefore, Shot, LookedAfter, PlanRoles, Truthful
<1>2. WorldShape' BY DEF ReadInv, WorldShape
<1>3. ResultsTruthful' BY DEF ReadInv, ResultsTruthful, Truthful
<1> QED BY <1>1, <1>2, <1>3 DEF ReadInv

LEMMA IdleReads ==
    ASSUME NEW call, call = IdleCall
    PROVE  /\ call.pc = "idle" /\ call.started \in Nat /\ call.firstRead \in Nat
           /\ call.lastRead \in Nat /\ call.seen \in Nat
           /\ DOMAIN call.before = Roles /\ DOMAIN call.after = Roles
  BY DEF IdleCall, NoPages

LEMMA EndReads ==
    ASSUME IInv, ReadInv, NEW c \in Callers, End(c), UNCHANGED <<results, clock, browser, changes>>
    PROVE  ReadInv'
<1>1. calls'[c] = IdleCall /\ calls' = [calls EXCEPT ![c] = calls'[c]]
  BY DEF End, IInv, Shape
<1>2. CallRead(c)'
  BY <1>1, IdleReads DEF CallRead, RoleInv, LookedBefore, Shot, LookedAfter
<1> QED BY <1>1, <1>2, OwnReadKeeps

LEMMA FailReads ==
    ASSUME IInv, ReadInv, NEW c \in Callers, Fail(c)
    PROVE  ReadInv'
  BY EndReads DEF Fail, world

\* A worker that is not between its two looks at the browser.
LEMMA QuietReads ==
    ASSUME IInv, ReadInv, NEW c \in Callers, calls' = [calls EXCEPT ![c] = calls'[c]],
           UNCHANGED <<results, clock, browser, changes>>,
           calls'[c].pc \notin {"before", "shoot", "after", "compile"},
           calls'[c].started \in Nat, calls'[c].firstRead \in Nat,
           calls'[c].lastRead \in Nat, calls'[c].seen \in Nat,
           DOMAIN calls'[c].before = Roles, DOMAIN calls'[c].after = Roles,
           calls'[c].pc \in {"begin", "discover"} => calls'[c].started <= clock,
           calls'[c].pc \in {"queued", "begin", "discover"} => \A r \in Roles : calls'[c].shots[r] = None,
           calls'[c].pc \in {"commit", "write"} => Truthful(calls'[c].result)
    PROVE  ReadInv'
<1>1. CallRead(c)'
  BY DEF CallRead, RoleInv, LookedBefore, Shot, LookedAfter, Truthful
<1> QED BY <1>1, OwnReadKeeps

\* A worker that only moves on, before or after it has read the browser.
LEMMA MoveReads ==
    ASSUME IInv, ReadInv, NEW c \in Callers, NEW pc, calls' = [calls EXCEPT ![c].pc = pc],
           UNCHANGED <<results, clock, browser, changes>>,
           \/ calls[c].pc = "begin" /\ pc \in {"discover", "replay"}
           \/ calls[c].pc = "commit" /\ pc = "write"
    PROVE  ReadInv'
<1>1. calls' = [calls EXCEPT ![c] = calls'[c]] /\ calls'[c] = [calls[c] EXCEPT !.pc = pc]
  BY DEF IInv, Shape
<1>2. /\ calls'[c].pc = pc /\ calls'[c].started = calls[c].started
      /\ calls'[c].firstRead = calls[c].firstRead /\ calls'[c].lastRead = calls[c].lastRead
      /\ calls'[c].seen = calls[c].seen /\ calls'[c].result = calls[c].result
      /\ calls'[c].before = calls[c].before /\ calls'[c].after = calls[c].after
      /\ calls'[c].shots = calls[c].shots
  BY <1>1 DEF IInv, Shape, CallFields
<1>3. CallRead(c) BY DEF ReadInv
<1> QED BY <1>1, <1>2, <1>3, QuietReads DEF CallRead, Truthful

LEMMA AcceptedReads ==
    ASSUME IInv, ReadInv, NEW c \in Callers, NEW j, NEW d, Accepted(c, j, d)
    PROVE  ReadInv'
<1> DEFINE x == [IdleCall EXCEPT !.pc = "queued", !.job = j, !.document = d, !.attached = TRUE]
<1>1. calls' = [calls EXCEPT ![c] = x] /\ UNCHANGED <<results, clock, browser, changes>>
  BY DEF Accepted, ledger, world
<1>2. /\ x.pc = "queued" /\ x.started = 0 /\ x.firstRead = 0 /\ x.lastRead = 0 /\ x.seen = 0
      /\ x.before = NoPages /\ x.after = NoPages /\ x.shots = NoPages
  BY DEF IdleCall
<1> HIDE DEF x
<1>3. calls'[c] = x /\ calls' = [calls EXCEPT ![c] = calls'[c]] BY <1>1 DEF IInv, Shape
<1>4. DOMAIN NoPages = Roles /\ \A r \in Roles : NoPages[r] = None BY DEF NoPages
<1>5. CallRead(c)'
  BY <1>2, <1>3, <1>4 DEF CallRead, RoleInv, LookedBefore, Shot, LookedAfter
<1> QED BY <1>1, <1>3, <1>5, OwnReadKeeps

LEMMA EnterReads ==
    ASSUME IInv, ReadInv, NEW c \in Callers, Enter(c)
    PROVE  ReadInv'
<1>1. /\ calls' = [calls EXCEPT ![c] = calls'[c]]
      /\ calls'[c] = [calls[c] EXCEPT !.pc = "begin", !.started = clock]
      /\ UNCHANGED <<results, clock, browser, changes>>
  BY DEF Enter, ledger, world, IInv, Shape
<1>2. /\ calls'[c].pc = "begin" /\ calls'[c].started = clock
      /\ calls'[c].firstRead = calls[c].firstRead /\ calls'[c].lastRead = calls[c].lastRead
      /\ calls'[c].seen = calls[c].seen /\ calls'[c].shots = calls[c].shots
      /\ calls'[c].before = calls[c].before /\ calls'[c].after = calls[c].after
  BY <1>1 DEF IInv, Shape, CallFields
<1>3. CallRead(c) /\ clock \in Nat /\ calls[c].pc = "queued"
  BY DEF ReadInv, WorldShape, Enter, CallAt
<1>4. CallRead(c)'
  BY <1>1, <1>2, <1>3 DEF CallRead, RoleInv, LookedBefore, Shot, LookedAfter
<1> QED BY <1>1, <1>4, OwnReadKeeps

LEMMA CancelReads ==
    ASSUME IInv, ReadInv, NEW c \in Callers, Cancel(c)
    PROVE  ReadInv'
<1>1. UNCHANGED <<results, clock, browser, changes>> /\ calls' = [calls EXCEPT ![c] = calls'[c]]
  BY DEF Cancel, ledger, world, IInv, Shape
<1>2. CASE CallAt(c, "queued")
  <2>1. calls'[c] = IdleCall BY <1>2 DEF Cancel, IInv, Shape
  <2> QED BY <1>1, <2>1, IdleReads, QuietReads
<1>3. CASE ~CallAt(c, "queued")
  <2>1. calls'[c] = [calls[c] EXCEPT !.attached = FALSE] BY <1>3 DEF Cancel, IInv, Shape
  <2>2. /\ calls'[c].pc = calls[c].pc /\ calls'[c].started = calls[c].started
        /\ calls'[c].firstRead = calls[c].firstRead /\ calls'[c].lastRead = calls[c].lastRead
        /\ calls'[c].seen = calls[c].seen /\ calls'[c].result = calls[c].result
        /\ calls'[c].before = calls[c].before /\ calls'[c].after = calls[c].after
        /\ calls'[c].shots = calls[c].shots /\ calls'[c].todo = calls[c].todo
        /\ calls'[c].document = calls[c].document
    BY <2>1 DEF IInv, Shape, CallFields
  <2>3. CallRead(c) BY DEF ReadInv
  <2>4. CallRead(c)'
    BY <1>1, <2>2, <2>3 DEF CallRead, RoleInv, LookedBefore, Shot, LookedAfter, PlanRoles, Truthful
  <2> QED BY <1>1, <2>4, OwnReadKeeps
<1> QED BY <1>2, <1>3

LEMMA DiscoverReads ==
    ASSUME IInv, ReadInv, NEW c \in Callers, Discover(c)
    PROVE  ReadInv'
<1>1. CASE Fail(c) BY <1>1, FailReads
<1>2. CASE ~Fail(c)
  <2>1. /\ UNCHANGED <<results, clock, browser, changes>> /\ calls[c].pc = "discover"
        /\ calls' = [calls EXCEPT ![c] = calls'[c]]
        /\ calls'[c] = [calls[c] EXCEPT !.pc = "before", !.todo = PlanRoles(c),
                                        !.firstRead = clock, !.seen = changes]
    BY <1>2 DEF Discover, CallAt, ledger, world, IInv, Shape
  <2>2. /\ calls'[c].pc = "before" /\ calls'[c].started = calls[c].started
        /\ calls'[c].firstRead = clock /\ calls'[c].lastRead = calls[c].lastRead
        /\ calls'[c].seen = changes /\ calls'[c].todo = PlanRoles(c)
        /\ calls'[c].before = calls[c].before /\ calls'[c].after = calls[c].after
        /\ calls'[c].document = calls[c].document /\ calls'[c].shots = calls[c].shots
    BY <2>1 DEF IInv, Shape, CallFields
  <2>3. CallRead(c) /\ WorldShape BY DEF ReadInv
  <2>4. \A r \in Roles : RoleInv(c, r)'
    BY <2>2 DEF RoleInv, LookedBefore, Shot, LookedAfter, PlanRoles
  <2>5. CallRead(c)'
    BY <2>1, <2>2, <2>3, <2>4 DEF CallRead, WorldShape
  <2> QED BY <2>1, <2>5, OwnReadKeeps
<1> QED BY <1>1, <1>2

\* The first look at a page: nothing has been photographed yet.
LEMMA ReadBeforeReads ==
    ASSUME IInv, ReadInv, NEW c \in Callers, NEW q \in Roles, ReadBefore(c, q)
    PROVE  ReadInv'
<1>1. CASE Fail(c) BY <1>1, FailReads
<1>2. CASE ~Fail(c)
  <2> DEFINE call == calls[c]
             new == calls'[c]
  <2>1. /\ UNCHANGED <<results, clock, browser, changes>> /\ call.pc = "before"
        /\ ViewFailure(Views[q], browser[q], call.firstRead) = "OK"
        /\ calls' = [calls EXCEPT ![c].before[q] = browser[q], ![c].todo = @ \ {q},
                                  ![c].pc = IF calls[c].todo = {q} THEN "shoot" ELSE @]
    BY <1>2 DEF ReadBefore, CallAt, ledger, world
  <2>2. calls' = [calls EXCEPT ![c] = calls'[c]] BY <2>1 DEF IInv, Shape
  <2>3. CallRead(c) /\ WorldShape BY DEF ReadInv
  <2>4. /\ new.pc = (IF call.todo = {q} THEN "shoot" ELSE "before") /\ new.started = call.started
        /\ new.firstRead = call.firstRead /\ new.lastRead = call.lastRead
        /\ new.seen = call.seen /\ new.todo = call.todo \ {q} /\ new.shots = call.shots
        /\ new.after = call.after /\ new.document = call.document
        /\ new.before = [call.before EXCEPT ![q] = browser[q]]
    BY <2>1 DEF IInv, Shape, CallFields
  <2>5. DOMAIN new.before = Roles
        /\ \A r \in Roles : new.before[r] = IF r = q THEN browser[q] ELSE call.before[r]
    BY <2>3, <2>4 DEF CallRead
  <2>6. \A r \in Roles : call.shots[r] = None
    BY <2>1, <2>3 DEF CallRead
  <2>7. ASSUME NEW r \in Roles PROVE RoleInv(c, r)'
    <3>1. ~Shot(c, r)' /\ ~LookedAfter(c, r)' BY <2>4, <2>6 DEF Shot, LookedAfter
    <3>2. CASE r = q
      BY <2>1, <2>3, <2>4, <2>5, <3>1, <3>2 DEF RoleInv, WorldShape, Same
    <3>3. CASE r # q
      <4>1. LookedBefore(c, r)' => LookedBefore(c, r)
        BY <2>1, <2>4, <3>3 DEF LookedBefore, PlanRoles
      <4>2. RoleInv(c, r) BY <2>3 DEF CallRead
      <4> QED BY <2>1, <2>4, <2>5, <3>1, <3>3, <4>1, <4>2 DEF RoleInv
    <3> QED BY <3>2, <3>3
  <2>8. /\ call.started \in Nat /\ call.firstRead \in Nat /\ call.lastRead \in Nat /\ call.seen \in Nat
        /\ call.started <= call.firstRead /\ call.seen <= changes /\ DOMAIN call.after = Roles
    BY <2>1, <2>3 DEF CallRead
  <2>9. new.pc \in {"before", "shoot"} /\ \A r \in Roles : new.shots[r] = None
    BY <2>4, <2>6
  <2>10. /\ new.started \in Nat /\ new.firstRead \in Nat /\ new.lastRead \in Nat /\ new.seen \in Nat
         /\ new.started <= new.firstRead /\ new.seen <= changes /\ DOMAIN new.after = Roles
    BY <2>4, <2>8
  <2>11. CallRead(c)'
    <3> HIDE DEF new, call
    <3> QED BY <2>1, <2>5, <2>7, <2>9, <2>10 DEF CallRead, new
  <2> QED BY <2>1, <2>2, <2>11, OwnReadKeeps
<1> QED BY <1>1, <1>2

\* The picture may show another page than was read: then the browser shows
\* that page now, and has changed.
LEMMA ShootReads ==
    ASSUME IInv, ReadInv, NEW c \in Callers, NEW q \in Roles, Shoot(c, q)
    PROVE  ReadInv'
<1>1. CASE Fail(c) BY <1>1, FailReads
<1>2. CASE ~Fail(c)
  <2> DEFINE call == calls[c]
             new == calls'[c]
  <2>1. /\ UNCHANGED <<results, clock, browser, changes>> /\ call.pc = "shoot"
        /\ calls' = [calls EXCEPT ![c].shots[q] = browser[q]]
    BY <1>2 DEF Shoot, CallAt, ledger, world
  <2>2. calls' = [calls EXCEPT ![c] = calls'[c]] BY <2>1 DEF IInv, Shape
  <2>3. CallRead(c) /\ WorldShape BY DEF ReadInv
  <2>4. /\ new.pc = "shoot" /\ new.started = call.started
        /\ new.firstRead = call.firstRead /\ new.lastRead = call.lastRead
        /\ new.seen = call.seen /\ new.todo = call.todo /\ new.before = call.before
        /\ new.after = call.after /\ new.document = call.document
        /\ new.shots = [call.shots EXCEPT ![q] = browser[q]]
    BY <2>1 DEF IInv, Shape, CallFields
  <2>5. \A r \in Roles : new.shots[r] = IF r = q THEN browser[q] ELSE call.shots[r]
    BY <2>4 DEF IInv, Shape
  <2>6. ASSUME NEW r \in Roles PROVE RoleInv(c, r)'
    <3>1. ~LookedAfter(c, r)' BY <2>4 DEF LookedAfter
    <3>2. LookedBefore(c, r)' <=> LookedBefore(c, r)
      BY <2>1, <2>4 DEF LookedBefore, PlanRoles
    <3>3. RoleInv(c, r) BY <2>3 DEF CallRead
    <3>4. Shot(c, r)' => LookedBefore(c, r)
      BY <2>1, <2>4 DEF Shot, LookedBefore, PlanRoles
    <3>5. CASE r = q
      BY <2>1, <2>3, <2>4, <2>5, <3>1, <3>2, <3>3, <3>4, <3>5 DEF RoleInv, WorldShape, Same, CallRead
    <3>6. CASE r # q
      <4>1. Shot(c, r)' => Shot(c, r) BY <2>1, <2>4, <2>5, <3>6 DEF Shot, PlanRoles
      <4> QED BY <2>1, <2>4, <2>5, <3>1, <3>2, <3>3, <3>6, <4>1 DEF RoleInv
    <3> QED BY <3>5, <3>6
  <2>7. CallRead(c)' BY <2>1, <2>3, <2>4, <2>6 DEF CallRead
  <2> QED BY <2>1, <2>2, <2>7, OwnReadKeeps
<1> QED BY <1>1, <1>2

LEMMA LookAgainReads ==
    ASSUME IInv, ReadInv, NEW c \in Callers, LookAgain(c)
    PROVE  ReadInv'
<1> DEFINE call == calls[c]
           new == calls'[c]
<1>1. /\ UNCHANGED <<results, clock, browser, changes>> /\ call.pc = "shoot"
      /\ calls' = [calls EXCEPT ![c] = calls'[c]]
      /\ new = [call EXCEPT !.pc = "after", !.todo = PlanRoles(c), !.lastRead = clock]
  BY DEF LookAgain, CallAt, ledger, world, IInv, Shape
<1>2. /\ new.pc = "after" /\ new.started = call.started
      /\ new.firstRead = call.firstRead /\ new.lastRead = clock
      /\ new.seen = call.seen /\ new.todo = PlanRoles(c) /\ new.before = call.before
      /\ new.after = call.after /\ new.document = call.document /\ new.shots = call.shots
  BY <1>1 DEF IInv, Shape, CallFields
<1>3. CallRead(c) /\ WorldShape BY DEF ReadInv
<1>4. ASSUME NEW r \in Roles PROVE RoleInv(c, r)'
  <2>1. ~LookedAfter(c, r)' BY <1>2 DEF LookedAfter, PlanRoles
  <2>2. (LookedBefore(c, r)' => LookedBefore(c, r)) /\ (Shot(c, r)' => Shot(c, r))
    BY <1>1, <1>2 DEF LookedBefore, Shot, PlanRoles
  <2>3. RoleInv(c, r) BY <1>3 DEF CallRead
  <2> QED BY <1>1, <1>2, <2>1, <2>2, <2>3 DEF RoleInv
<1>5. CallRead(c)' BY <1>1, <1>2, <1>3, <1>4 DEF CallRead, WorldShape
<1> QED BY <1>1, <1>5, OwnReadKeeps

\* The second look at a page; the deadline is that of the capture.
LEMMA ReadAfterReads ==
    ASSUME IInv, ReadInv, NEW c \in Callers, NEW q \in Roles, ReadAfter(c, q)
    PROVE  ReadInv'
<1>1. CASE Fail(c) BY <1>1, FailReads
<1>2. CASE ~Fail(c)
  <2> DEFINE call == calls[c]
             new == calls'[c]
  <2>1. /\ UNCHANGED <<results, clock, browser, changes>> /\ call.pc = "after"
        /\ ~(clock > call.started + Timeout)
        /\ ViewFailure(Views[q], browser[q], call.lastRead) = "OK"
        /\ calls' = [calls EXCEPT ![c].after[q] = browser[q], ![c].todo = @ \ {q},
                                  ![c].pc = IF calls[c].todo = {q} THEN "compile" ELSE @]
    BY <1>2 DEF ReadAfter, Late, CallAt, ledger, world
  <2>2. calls' = [calls EXCEPT ![c] = calls'[c]] BY <2>1 DEF IInv, Shape
  <2>3. CallRead(c) /\ WorldShape BY DEF ReadInv
  <2>4. /\ new.pc = (IF call.todo = {q} THEN "compile" ELSE "after") /\ new.started = call.started
        /\ new.firstRead = call.firstRead /\ new.lastRead = call.lastRead
        /\ new.seen = call.seen /\ new.todo = call.todo \ {q} /\ new.shots = call.shots
        /\ new.before = call.before /\ new.document = call.document
        /\ new.after = [call.after EXCEPT ![q] = browser[q]]
    BY <2>1 DEF IInv, Shape, CallFields
  <2>5. DOMAIN new.after = Roles
        /\ \A r \in Roles : new.after[r] = IF r = q THEN browser[q] ELSE call.after[r]
    BY <2>3, <2>4 DEF CallRead
  <2>6. ASSUME NEW r \in Roles PROVE RoleInv(c, r)'
    <3>1. (LookedBefore(c, r)' => LookedBefore(c, r)) /\ (Shot(c, r)' => Shot(c, r))
      BY <2>1, <2>4 DEF LookedBefore, Shot, PlanRoles
    <3>2. RoleInv(c, r) BY <2>3 DEF CallRead
    <3>3. r \in PlanRoles(c) => Shot(c, r)
      BY <2>1 DEF IInv, CallInv, Shot
    <3>4. LookedAfter(c, r)' => r \in PlanRoles(c)
      BY <2>4 DEF LookedAfter, PlanRoles
    <3>5. CASE r = q
      BY <2>1, <2>3, <2>4, <2>5, <3>1, <3>2, <3>3, <3>4, <3>5 DEF RoleInv, WorldShape, Same
    <3>6. CASE r # q
      <4>1. LookedAfter(c, r)' => LookedAfter(c, r)
        BY <2>1, <2>4, <3>6 DEF LookedAfter, PlanRoles
      <4> QED BY <2>1, <2>4, <2>5, <3>1, <3>2, <3>6, <4>1 DEF RoleInv
    <3> QED BY <3>5, <3>6
  <2>7. new.pc = "compile" => new.lastRead <= new.started + Timeout
    BY <2>1, <2>3, <2>4, TimesAssumption DEF CallRead, WorldShape
  <2>8. CallRead(c)' BY <2>1, <2>3, <2>4, <2>5, <2>6, <2>7 DEF CallRead
  <2> QED BY <2>1, <2>2, <2>8, OwnReadKeeps
<1> QED BY <1>1, <1>2

\* Compiling accepts only pages whose fingerprint is the same, and quotes
\* that were fresh at the first look; both looks lie within the deadline.
LEMMA ResultTruthful ==
    ASSUME IInv, ReadInv, NEW c \in Callers, CallAt(c, "compile"), CompileFailure(c) = "OK"
    PROVE  Truthful(Result(c))
<1> DEFINE call == calls[c]
<1>1. CallRead(c) /\ WorldShape BY DEF ReadInv
<1>2. PlanRoles(c) \subseteq Roles BY RolesAssumption DEF IInv, CallInv, CallAt, PlanRoles
<1>3. ~Moved(c)
      /\ \A r \in QuotedRoles(c) : FieldsFailure(Views[r], call.before[r], call.firstRead,
                                                 call.document.level) = "OK"
  BY CompilePasses
<1>4. \A r \in PlanRoles(c) : Same(call.shots[r], call.before[r]) \/ changes > call.seen + 1
  <2> SUFFICES ASSUME NEW r \in PlanRoles(c)
               PROVE  Same(call.shots[r], call.before[r]) \/ changes > call.seen + 1
    OBVIOUS
  <2>1. RoleInv(c, r) BY <1>1, <1>2 DEF CallRead
  <2>2. LookedBefore(c, r) /\ LookedAfter(c, r) BY DEF LookedBefore, LookedAfter, CallAt
  <2>3. /\ ViewFailure(Views[r], call.before[r], call.firstRead) = "OK"
        /\ ViewFailure(Views[r], call.after[r], call.lastRead) = "OK"
    BY <2>1, <2>2 DEF RoleInv
  <2>4. Fingerprint(call.before[r]) = Fingerprint(call.after[r]) BY <1>3 DEF Moved
  <2>5. Same(call.after[r], call.before[r]) BY <2>3, <2>4, AlikeWhenChecked DEF Same
  <2> QED BY <2>1, <2>2, <2>5 DEF RoleInv
<1> DEFINE result == Result(c)
<1>5. \/ \A r \in DOMAIN result.shots : Same(result.shots[r], result.views[r])
      \/ result.moves >= 2
  <2>1. /\ result.shots = [r \in PlanRoles(c) |-> call.shots[r]]
        /\ result.views = [r \in PlanRoles(c) |-> call.before[r]]
        /\ result.moves = changes - call.seen
    BY DEF Result
  <2>2. changes > call.seen + 1 => result.moves >= 2
    BY <1>1, <2>1 DEF WorldShape, CallRead
  <2> HIDE DEF result
  <2> QED BY <1>4, <2>1, <2>2
<1>6. ASSUME NEW f \in result.fields
      PROVE  result.lastRead - f.quoteTime <= Limits.quote + Timeout
  <2>1. PICK r \in QuotedRoles(c) : f \in Fields(call.before[r], call.document.level)
    BY <1>6 DEF Result
  <2>2. PICK chart \in NumericCharts(call.before[r]) : f.quoteTime = chart.quote.time
    BY <2>1 DEF Fields
  <2>3. r \in PlanRoles(c) /\ r \in Roles BY <1>2 DEF QuotedRoles
  <2>4. call.before[r] \in Pages[r]
    BY <1>1, <2>3 DEF CallRead, RoleInv, LookedBefore, CallAt
  <2>5. chart.quote.time \in Int
    BY <2>2, <2>3, <2>4, TimesAssumption DEF NumericCharts
  <2>6. ~(call.firstRead - chart.quote.time > Limits.quote) BY <1>3, <2>1, <2>2, FieldsPass
  <2>7. /\ call.lastRead \in Nat /\ call.started \in Nat /\ call.firstRead \in Nat
        /\ call.lastRead <= call.started + Timeout /\ call.started <= call.firstRead
    BY <1>1 DEF CallRead, CallAt
  <2>8. call.lastRead - chart.quote.time <= Limits.quote + Timeout
    BY ONLY <2>5, <2>6, <2>7, TimesAssumption
  <2>9. result.lastRead = call.lastRead BY DEF Result
  <2> QED BY <2>2, <2>8, <2>9
<1> QED BY <1>5, <1>6 DEF Truthful

LEMMA CompileReads ==
    ASSUME IInv, ReadInv, NEW c \in Callers, Compile(c)
    PROVE  ReadInv'
<1>1. CASE Fail(c) BY <1>1, FailReads
<1>2. CASE ~Fail(c)
  <2> DEFINE x == [IdleCall EXCEPT !.pc = "commit", !.job = calls[c].job,
                                   !.document = calls[c].document,
                                   !.attached = calls[c].attached, !.result = Result(c)]
  <2>1. /\ UNCHANGED <<results, clock, browser, changes>> /\ CallAt(c, "compile")
        /\ CompileFailure(c) = "OK" /\ calls' = [calls EXCEPT ![c] = x]
    BY <1>2 DEF Compile, ledger, world
  <2>2. /\ x.pc = "commit" /\ x.started = 0 /\ x.firstRead = 0 /\ x.lastRead = 0 /\ x.seen = 0
        /\ x.before = NoPages /\ x.after = NoPages /\ x.result = Result(c)
    BY DEF IdleCall
  <2> HIDE DEF x
  <2>3. calls'[c] = x /\ calls' = [calls EXCEPT ![c] = calls'[c]] BY <2>1 DEF IInv, Shape
  <2>4. DOMAIN NoPages = Roles BY DEF NoPages
  <2>5. Truthful(Result(c)) BY <2>1, ResultTruthful
  <2>6. Truthful(calls'[c].result)
    <3> HIDE DEF Result
    <3> QED BY <2>2, <2>3, <2>5
  <2>7. CallRead(c)'
    BY <2>2, <2>3, <2>4, <2>6 DEF CallRead, RoleInv, LookedBefore, Shot, LookedAfter, Truthful
  <2> QED BY <2>1, <2>3, <2>7, OwnReadKeeps
<1> QED BY <1>1, <1>2

LEMMA CommitReads ==
    ASSUME IInv, ReadInv, NEW c \in Callers, Commit(c)
    PROVE  ReadInv'
<1>1. CASE Fail(c) BY <1>1, FailReads
<1>2. CASE ~Fail(c)
  <2>1. /\ calls[c].pc = "commit" /\ calls' = [calls EXCEPT ![c].pc = "write"]
        /\ results' = [results EXCEPT ![calls[c].job] = calls[c].result]
        /\ UNCHANGED <<clock, browser, changes>>
    BY <1>2 DEF Commit, Proceed, CallAt, world
  <2>2. calls' = [calls EXCEPT ![c] = calls'[c]] /\ calls'[c] = [calls[c] EXCEPT !.pc = "write"]
    BY <2>1 DEF IInv, Shape
  <2>3. /\ calls'[c].pc = "write" /\ calls'[c].started = calls[c].started
        /\ calls'[c].firstRead = calls[c].firstRead /\ calls'[c].lastRead = calls[c].lastRead
        /\ calls'[c].seen = calls[c].seen /\ calls'[c].result = calls[c].result
        /\ calls'[c].before = calls[c].before /\ calls'[c].after = calls[c].after
    BY <2>2 DEF IInv, Shape, CallFields
  <2>4. CallRead(c) /\ Truthful(calls[c].result) BY <2>1 DEF ReadInv, CallRead
  <2>5. CallRead(c)'
    BY <2>3, <2>4 DEF CallRead, RoleInv, LookedBefore, Shot, LookedAfter, Truthful
  <2>6. \A j \in Jobs : results'[j] = results[j] \/ Truthful(results'[j])
    BY <2>1, <2>4 DEF IInv, Shape
  <2> QED BY <2>1, <2>2, <2>5, <2>6, OwnReadKeeps
<1> QED BY <1>1, <1>2

LEMMA WorkersRead ==
    ASSUME IInv, ReadInv, NEW c \in Callers, Worker(c)
    PROVE  ReadInv'
<1>1. CASE Enter(c) BY <1>1, EnterReads
<1>2. CASE Expired(c) \/ ReplayConflict(c) \/ LoadReplay(c) \/ WriteResult(c) \/ Escape(c)
  BY <1>2, EndReads DEF Expired, ReplayConflict, LoadReplay, WriteResult, Escape, ledger, world
<1>3. CASE Replay(c)
  BY <1>3, MoveReads DEF Replay, Proceed, CallAt, ledger, world
<1>4. CASE AcceptRequest(c)
  <2>1. CASE calls[c].document.plan
    BY <1>4, <2>1, MoveReads DEF AcceptRequest, Proceed, CallAt, world
  <2>2. CASE ~calls[c].document.plan
    BY <1>4, <2>2, EndReads DEF AcceptRequest, world
  <2> QED BY <2>1, <2>2
<1>5. CASE Discover(c) BY <1>5, DiscoverReads
<1>6. CASE TimedOut(c) \/ BrowserRefuses(c) BY <1>6, FailReads DEF TimedOut, BrowserRefuses
<1>7. CASE LookAgain(c) BY <1>7, LookAgainReads
<1>8. CASE \E r \in Roles : ReadBefore(c, r) \/ Shoot(c, r) \/ ReadAfter(c, r)
  BY <1>8, ReadBeforeReads, ShootReads, ReadAfterReads
<1>9. CASE Compile(c) BY <1>9, CompileReads
<1>10. CASE Commit(c) BY <1>10, CommitReads
<1> QED
  BY <1>1, <1>2, <1>3, <1>4, <1>5, <1>6, <1>7, <1>8, <1>9, <1>10 DEF Worker

\* The clock only moves what a worker compares with it further away.
LEMMA TickReads ==
    ASSUME IInv, ReadInv, Tick
    PROVE  ReadInv'
<1>1. clock \in Nat /\ clock' = clock + 1 /\ UNCHANGED <<calls, results, browser, changes>>
  BY DEF Tick, ledger, ReadInv, WorldShape
<1>2. ASSUME NEW c \in Callers PROVE CallRead(c)'
  <2>1. CallRead(c) BY DEF ReadInv
  <2>2. \A r \in Roles : RoleInv(c, r)'
    BY <1>1, <2>1 DEF CallRead, RoleInv, LookedBefore, Shot, LookedAfter, PlanRoles
  <2> QED BY <1>1, <2>1, <2>2 DEF CallRead, Truthful
<1>3. WorldShape' /\ ResultsTruthful'
  BY <1>1 DEF ReadInv, WorldShape, ResultsTruthful, Truthful
<1> QED BY <1>2, <1>3 DEF ReadInv

\* A page that looks different counts as a change; one that looks the same
\* leaves every comparison as it was.
LEMMA BrowserReads ==
    ASSUME IInv, ReadInv, NEW q \in Roles, BrowserChanges(q)
    PROVE  ReadInv'
<1>1. PICK page \in Pages[q] \ {browser[q]} :
         /\ browser' = [browser EXCEPT ![q] = page]
         /\ IF Identity(page) = Identity(browser[q]) THEN UNCHANGED changes
            ELSE changes < MaxChanges /\ changes' = changes + 1
  BY DEF BrowserChanges
<1>2. UNCHANGED <<calls, results, clock>> BY DEF BrowserChanges, ledger
<1>3. changes \in Nat /\ changes' \in Nat /\ changes' >= changes
      /\ (~Same(page, browser[q]) => changes' = changes + 1)
  BY <1>1 DEF ReadInv, WorldShape, Same
<1>4. DOMAIN browser' = Roles /\ browser'[q] = page
      /\ \A r \in Roles : r # q => browser'[r] = browser[r]
  BY <1>1 DEF ReadInv, WorldShape
<1>5. ASSUME NEW c \in Callers PROVE CallRead(c)'
  <2> DEFINE call == calls[c]
  <2>1. CallRead(c) BY DEF ReadInv
  <2>2. ASSUME NEW r \in Roles PROVE RoleInv(c, r)'
    <3>1. RoleInv(c, r) BY <2>1 DEF CallRead
    <3>2. /\ LookedBefore(c, r)' <=> LookedBefore(c, r)
          /\ Shot(c, r)' <=> Shot(c, r)
          /\ LookedAfter(c, r)' <=> LookedAfter(c, r)
      BY <1>2 DEF LookedBefore, Shot, LookedAfter, PlanRoles
    <3>3. call.seen \in Nat /\ (LookedBefore(c, r) => call.seen <= changes)
      BY <2>1 DEF CallRead, LookedBefore
    <3>4. Shot(c, r) => call.seen <= changes BY <2>1 DEF CallRead, Shot
    <3>5. Same(browser'[r], browser[r]) \/ changes' = changes + 1
      BY <1>3, <1>4 DEF Same
    <3>6. LookedBefore(c, r) => Same(call.before[r], browser'[r]) \/ changes' > call.seen
      BY <1>3, <3>1, <3>3, <3>5 DEF RoleInv, Same
    <3>7. Shot(c, r) =>
            \/ Same(call.shots[r], call.before[r])
            \/ changes' > call.seen /\ ~Same(call.before[r], browser'[r])
            \/ changes' > call.seen + 1
      BY <1>3, <3>1, <3>3, <3>4, <3>5 DEF RoleInv, Same
    <3>8. LookedAfter(c, r) =>
            \/ Same(call.shots[r], call.before[r])
            \/ ~Same(call.after[r], call.before[r])
            \/ changes' > call.seen + 1
      BY <1>3, <3>1, <3>3 DEF RoleInv
    <3> QED BY <1>2, <3>1, <3>2, <3>6, <3>7, <3>8 DEF RoleInv
  <2> QED BY <1>2, <1>3, <2>1, <2>2 DEF CallRead, Truthful
<1>6. WorldShape' BY <1>1, <1>2, <1>3, <1>4 DEF ReadInv, WorldShape
<1>7. ResultsTruthful' BY <1>2 DEF ReadInv, ResultsTruthful, Truthful
<1> QED BY <1>5, <1>6, <1>7 DEF ReadInv

LEMMA CrashReads ==
    ASSUME IInv, ReadInv, Crash
    PROVE  ReadInv'
<1>1. calls' = [c \in Callers |-> IdleCall] /\ UNCHANGED <<results, clock, browser, changes>>
  BY DEF Crash, ledger
<1>2. ASSUME NEW c \in Callers PROVE CallRead(c)'
  <2>1. calls'[c] = IdleCall BY <1>1
  <2> QED BY <2>1, IdleReads DEF CallRead, RoleInv, LookedBefore, Shot, LookedAfter
<1>3. WorldShape' /\ ResultsTruthful'
  BY <1>1 DEF ReadInv, WorldShape, ResultsTruthful, Truthful
<1> QED BY <1>2, <1>3 DEF ReadInv

LEMMA NothingKnownReads ==
    ASSUME ReadInv, UNCHANGED <<calls, results, clock, browser, changes>>
    PROVE  ReadInv'
  BY DEF ReadInv, WorldShape, CallRead, RoleInv, LookedBefore, Shot, LookedAfter, PlanRoles,
         ResultsTruthful, Truthful

LEMMA InitReads == Init => ReadInv
<1> SUFFICES ASSUME Init PROVE ReadInv OBVIOUS
<1>1. \A c \in Callers : calls[c] = IdleCall BY DEF Init
<1>2. ASSUME NEW c \in Callers PROVE CallRead(c)
  BY <1>1, IdleReads DEF CallRead, RoleInv, LookedBefore, Shot, LookedAfter
<1>3. WorldShape /\ ResultsTruthful BY DEF Init, WorldShape, ResultsTruthful
<1> QED BY <1>2, <1>3 DEF ReadInv

LEMMA StepReads ==
    ASSUME IInv, ReadInv, [Next]_captureVars
    PROVE  ReadInv'
<1>1. CASE UNCHANGED captureVars
  BY <1>1, NothingKnownReads DEF captureVars
<1>2. ASSUME NEW c \in Callers, \E j \in Jobs, d \in Documents : Accepted(c, j, d) PROVE ReadInv'
  BY <1>2, AcceptedReads
<1>3. ASSUME NEW c \in Callers, RateLimited(c) PROVE ReadInv'
  BY <1>3, NothingKnownReads DEF RateLimited, ledger, world
<1>4. ASSUME NEW c \in Callers, Cancel(c) PROVE ReadInv'
  BY <1>4, CancelReads
<1>5. ASSUME NEW c \in Callers, Worker(c) PROVE ReadInv'
  BY <1>5, WorkersRead
<1>6. CASE \E r \in Roles : BrowserChanges(r) BY <1>6, BrowserReads
<1>7. CASE Tick BY <1>7, TickReads
<1>8. CASE Crash BY <1>8, CrashReads
<1> QED BY <1>1, <1>2, <1>3, <1>4, <1>5, <1>6, <1>7, <1>8 DEF Next

THEOREM ReadInvariance ==
    ASSUME NoneIsNoResult
    PROVE  Spec => []ReadInv
<1>1. IInv /\ ReadInv /\ [Next]_captureVars => ReadInv' BY StepReads
<1> QED BY <1>1, InitReads, Invariance, PTL DEF Spec

\* The pictures of a committed result show the pages its numbers were read
\* from, whatever the operator does in between, unless the browser changed
\* at least twice: comparing fingerprints cannot see a change undone.
THEOREM PicturesShowTheViews ==
    ASSUME NoneIsNoResult
    PROVE  Spec => []ImagesShowTheViews
<1>1. ReadInv => ImagesShowTheViews
  BY DEF ReadInv, ResultsTruthful, Truthful, Same, ImagesShowTheViews
<1> QED BY <1>1, ReadInvariance, PTL

\* No released quote is older at the last look than the accepted age and
\* the time the capture may take, though its age is checked only once.
THEOREM ReleasedQuotesFresh ==
    ASSUME NoneIsNoResult
    PROVE  Spec => []QuotesFresh
<1>1. ReadInv => QuotesFresh
  BY DEF ReadInv, ResultsTruthful, Truthful, QuotesFresh
<1> QED BY <1>1, ReadInvariance, PTL

=============================================================================
