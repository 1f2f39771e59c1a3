------------------------- MODULE AnalysisJobsProofs -------------------------
(***************************************************************************)
(* Proofs about the analysis queue, for any number of stories, workers,    *)
(* models and attempts: its types, the order of the Story State, one       *)
(* capture per job, one provider identity per job, and the finality of     *)
(* Jones's decision.                                                       *)
(***************************************************************************)
EXTENDS AnalysisJobs, TLAPS

----------------------------------------------------------------------------
(* Types *)

\* What a worker holds in each phase of its tick.
WorkerHolds ==
    \A w \in Workers :
        /\ wk[w].pc \notin {"idle", "analyse"} => wk[w].job \in Jobs
        /\ wk[w].pc \in {"loaded", "begun", "invoked", "answered"} =>
              wk[w].manifest \in Manifests

TypeInv == RowsTyped /\ WorkerHolds

\* The parts of a job identity, and its recomposition.
LEMMA JobParts ==
    ASSUME NEW j \in Jobs
    PROVE  j[1] \in Stories /\ j[2] \in 0..MaxE1 /\ j = <<j[1], j[2]>>
BY DEF Jobs

\* The latest row of a story is a row of its history, or the absent row.
LEMMA LastRowType ==
    ASSUME RowsTyped, NEW s \in Stories
    PROVE  /\ LastRow(s).status \in {"NONE", "ACTIVE", "CLOSED"}
           /\ LastRow(s).e1 \in 0..MaxE1
<1>1. CASE hist[s] = <<>>
  BY <1>1, MaxE1Assumption DEF LastRow, NoRow
<1>2. CASE hist[s] # <<>>
  <2>1. hist[s][Len(hist[s])] \in Rows
    BY <1>2 DEF RowsTyped
  <2> QED BY <2>1, <1>2 DEF LastRow, Rows
<1> QED BY <1>1, <1>2

LEMMA MemoryType ==
    ASSUME RowsTyped, NEW j \in Jobs
    PROVE  Memory(j) \in Memories
<1>1. j[1] \in Stories /\ j[2] \in 0..MaxE1
  BY JobParts
<1>2. LatestSummaries(ResultsOf(j[1])) \in SUBSET (0..MaxE1)
  BY DEF LatestSummaries, ResultsOf
<1>3. CASE j[2] = 0
  BY <1>3, MaxE1Assumption DEF Memory, Memories
<1>4. CASE j[2] # 0
  BY <1>1, <1>2, <1>4, LastRowType DEF Memory, Memories
<1> QED BY <1>3, <1>4

\* A worker that goes back to idle, or moves on within its tick, stays typed.
LEMMA IdleType ==
    ASSUME TypeInv, NEW w \in Workers, ToIdle(w)
    PROVE  wk' \in [Workers -> WorkerStates] /\ WorkerHolds'
BY DEF TypeInv, RowsTyped, WorkerHolds, ToIdle, WorkerStates, Phases

LEMMA GotoType ==
    ASSUME TypeInv, NEW w \in Workers, NEW pc \in Phases, Goto(w, pc),
           pc \notin {"idle", "analyse"} => wk[w].job \in Jobs,
           pc \in {"loaded", "begun", "invoked", "answered"} =>
               wk[w].manifest \in Manifests
    PROVE  wk' \in [Workers -> WorkerStates] /\ WorkerHolds'
<1>1. wk[w] \in WorkerStates
  BY DEF TypeInv, RowsTyped
<1>2. [wk[w] EXCEPT !.pc = pc] \in WorkerStates
  BY <1>1 DEF WorkerStates
<1>3. wk' = [wk EXCEPT ![w] = [wk[w] EXCEPT !.pc = pc]]
  BY DEF Goto
<1>4. [wk[w] EXCEPT !.pc = pc].pc = pc
      /\ [wk[w] EXCEPT !.pc = pc].job = wk[w].job
      /\ [wk[w] EXCEPT !.pc = pc].manifest = wk[w].manifest
  BY <1>1 DEF WorkerStates
<1> QED BY <1>2, <1>3, <1>4 DEF TypeInv, RowsTyped, WorkerHolds

\* Counting a failed attempt saturates at MaxAttempts.
LEMMA CountFailureType ==
    ASSUME RowsTyped, NEW j \in Jobs
    PROVE  [fails EXCEPT ![j] = CountFailure(j)] \in [Jobs -> 0..MaxAttempts]
<1>1. CountFailure(j) \in 0..MaxAttempts
  BY MaxAttemptsAssumption DEF RowsTyped, CountFailure
<1> QED BY <1>1 DEF RowsTyped

\* Initially everything is empty.
LEMMA TypeInit == Init => TypeInv
BY MaxAttemptsAssumption
   DEF Init, TypeInv, RowsTyped, WorkerHolds, Statuses, Owners, Timers,
       WorkerStates, Phases

\* Every action keeps the types.
LEMMA TypeStep == TypeInv /\ [Next]_vars => TypeInv'
<1> SUFFICES ASSUME TypeInv, [Next]_vars PROVE TypeInv'
  OBVIOUS
<1> USE MaxAttemptsAssumption, MaxE1Assumption
<1>1. ASSUME NEW s \in Stories, NEW time \in LiqTimes, IngestLiq(s, time)
      PROVE  TypeInv'
  <2>1. <<s, 0>> \in Jobs
    BY DEF Jobs
  <2> QED BY <1>1, <2>1 DEF TypeInv, RowsTyped, WorkerHolds, IngestLiq, Enqueue, Statuses
<1>2. ASSUME NEW s \in Stories, NEW k \in 1..MaxE1, NEW time \in E1Times,
             IngestE1(s, k, time)
      PROVE  TypeInv'
  <2>1. <<s, k>> \in Jobs
    BY DEF Jobs
  <2> QED BY <1>2, <2>1 DEF TypeInv, RowsTyped, WorkerHolds, IngestE1, Enqueue, Statuses
<1>3. ASSUME NEW time \in E1Times, IngestOrphanE1(time)
      PROVE  TypeInv'
  BY <1>3 DEF TypeInv, RowsTyped, WorkerHolds, IngestOrphanE1
<1>4. ASSUME NEW w \in Workers, NEW j \in Jobs, RequeueExpired(w, j)
      PROVE  TypeInv'
  <2>1. wk' \in [Workers -> WorkerStates] /\ WorkerHolds'
    BY <1>4, GotoType DEF RequeueExpired, Phases
  <2>2. fails' \in [Jobs -> 0..MaxAttempts]
    BY <1>4, CountFailureType DEF RequeueExpired, TypeInv
  <2> QED BY <1>4, <2>1, <2>2 DEF TypeInv, RowsTyped, RequeueExpired, Statuses, Owners, Timers
<1>5. ASSUME NEW w \in Workers, NEW j \in Jobs, ClaimCapture(w, j)
      PROVE  TypeInv'
  BY <1>5 DEF TypeInv, RowsTyped, WorkerHolds, ClaimCapture, Statuses, Owners, Timers,
              WorkerStates, Phases
<1>6. ASSUME NEW w \in Workers, NothingToCapture(w)
      PROVE  TypeInv'
  <2>1. wk' \in [Workers -> WorkerStates] /\ WorkerHolds'
    BY <1>6, GotoType DEF NothingToCapture, Phases
  <2> QED BY <1>6, <2>1 DEF TypeInv, RowsTyped, NothingToCapture
<1>7. ASSUME NEW w \in Workers, RecordCapture(w)
      PROVE  TypeInv'
  BY <1>7 DEF TypeInv, RowsTyped, WorkerHolds, RecordCapture, Statuses, Owners, Timers,
              WorkerStates, Phases
<1>8. ASSUME NEW w \in Workers, CaptureFailure(w)
      PROVE  TypeInv'
  <2> DEFINE j == wk[w].job
  <2>1. wk' \in [Workers -> WorkerStates] /\ WorkerHolds'
    BY <1>8, IdleType DEF CaptureFailure
  <2>2. j \in Jobs
    BY <1>8 DEF CaptureFailure, TypeInv, WorkerHolds
  <2>3. fails' \in [Jobs -> 0..MaxAttempts]
    <3>1. fails' = fails \/ fails' = [fails EXCEPT ![j] = CountFailure(j)]
      BY <1>8 DEF CaptureFailure
    <3>2. fails \in [Jobs -> 0..MaxAttempts] /\ RowsTyped
      BY DEF TypeInv, RowsTyped
    <3> QED BY <2>2, <3>1, <3>2, CountFailureType
  <2>4. owner' \in [Jobs -> Owners] /\ timer' \in [Jobs -> Timers]
        /\ status' \in [Jobs -> Statuses]
    BY <1>8 DEF CaptureFailure, TypeInv, RowsTyped, Owners, Timers, Statuses
  <2> QED BY <1>8, <2>1, <2>3, <2>4 DEF TypeInv, RowsTyped, CaptureFailure
<1>9. ASSUME NEW w \in Workers, CaptureLeaseLost(w) \/ EndTick(w) \/ Crash(w)
                                  \/ IdentityConflict(w)
      PROVE  TypeInv'
  <2>1. wk' \in [Workers -> WorkerStates] /\ WorkerHolds'
    BY <1>9, IdleType DEF CaptureLeaseLost, EndTick, Crash, IdentityConflict
  <2> QED BY <1>9, <2>1 DEF TypeInv, RowsTyped, CaptureLeaseLost, EndTick, Crash,
              IdentityConflict
<1>10. ASSUME NEW w \in Workers, NEW j \in Jobs, ClaimNext(w, j)
       PROVE  TypeInv'
  BY <1>10 DEF TypeInv, RowsTyped, WorkerHolds, ClaimNext, Statuses, Owners, Timers,
               WorkerStates, Phases
<1>11. ASSUME NEW w \in Workers, NEW m \in Models, LoadBundle(w, m)
       PROVE  TypeInv'
  <2>1. wk[w].job \in Jobs
    BY <1>11 DEF LoadBundle, TypeInv, WorkerHolds
  <2>2. [model |-> m, memory |-> Memory(wk[w].job)] \in Manifests
    BY <2>1, MemoryType DEF Manifests, TypeInv
  <2>3. wk' \in [Workers -> WorkerStates]
    BY <1>11, <2>1, <2>2 DEF LoadBundle, TypeInv, RowsTyped, WorkerStates, Phases
  <2>4. WorkerHolds'
    BY <1>11, <2>1, <2>2 DEF LoadBundle, TypeInv, RowsTyped, WorkerHolds
  <2> QED BY <1>11, <2>3, <2>4 DEF TypeInv, RowsTyped, LoadBundle
<1>12. ASSUME NEW w \in Workers, BeginProviderAttempt(w)
       PROVE  TypeInv'
  <2>1. wk[w].job \in Jobs /\ wk[w].manifest \in Manifests
    BY <1>12 DEF BeginProviderAttempt, TypeInv, WorkerHolds
  <2>2. wk' \in [Workers -> WorkerStates] /\ WorkerHolds'
    BY <1>12, <2>1, GotoType DEF BeginProviderAttempt, Phases
  <2>3. attempts' \in [Jobs -> SUBSET Attempts]
    BY <1>12, <2>1 DEF BeginProviderAttempt, TypeInv, RowsTyped, Attempts
  <2> QED BY <1>12, <2>2, <2>3 DEF TypeInv, RowsTyped, BeginProviderAttempt
<1>13. ASSUME NEW w \in Workers, Invoke(w)
       PROVE  TypeInv'
  <2>1. wk[w].job \in Jobs /\ wk[w].manifest \in Manifests
    BY <1>13 DEF Invoke, TypeInv, WorkerHolds
  <2>2. wk' \in [Workers -> WorkerStates] /\ WorkerHolds'
    BY <1>13, <2>1, GotoType DEF Invoke, Phases
  <2> QED BY <1>13, <2>1, <2>2 DEF TypeInv, RowsTyped, Invoke
<1>14. ASSUME NEW w \in Workers, Answer(w)
       PROVE  TypeInv'
  <2>1. wk[w].job \in Jobs /\ wk[w].manifest \in Manifests
    BY <1>14 DEF Answer, TypeInv, WorkerHolds
  <2>2. wk' \in [Workers -> WorkerStates] /\ WorkerHolds'
    BY <1>14, <2>1, GotoType DEF Answer, Phases
  <2> QED BY <1>14, <2>2 DEF TypeInv, RowsTyped, Answer
<1>15. ASSUME NEW w \in Workers, Complete(w)
       PROVE  TypeInv'
  <2> DEFINE j == wk[w].job
  <2>1. j \in Jobs /\ wk[w].manifest \in Manifests
    BY <1>15 DEF Complete, TypeInv, WorkerHolds
  <2>2. wk' \in [Workers -> WorkerStates] /\ WorkerHolds'
    BY <1>15, IdleType DEF Complete
  <2>3. CASE j \in results
    BY <1>15, <2>2, <2>3 DEF TypeInv, RowsTyped, Complete
  <2>4. CASE j \notin results
    <3>1. StoreResult(j, wk[w].manifest)
      BY <1>15, <2>4 DEF Complete
    <3>2. j[1] \in Stories /\ j[2] \in 0..MaxE1
      BY <2>1, JobParts
    <3>3. [status |-> "ACTIVE", e1 |-> j[2], decision |-> "NULL"] \in Rows
      BY <3>2 DEF Rows
    <3>4. hist' \in [Stories -> Seq(Rows)]
      BY <3>1, <3>2, <3>3 DEF StoreResult, TypeInv, RowsTyped
    <3>5. attempts' \in [Jobs -> SUBSET Attempts]
      BY <2>1, <3>1 DEF StoreResult, TypeInv, RowsTyped, Attempts
    <3> QED BY <1>15, <2>1, <2>2, <3>1, <3>4, <3>5
         DEF TypeInv, RowsTyped, Complete, StoreResult, Statuses, Owners, Timers
  <2> QED BY <2>3, <2>4
<1>16. ASSUME NEW w \in Workers, TechnicalFailure(w)
       PROVE  TypeInv'
  <2> DEFINE j == wk[w].job
             new == {[outcome |-> "TECHNICAL_FAILURE", manifest |-> a.manifest] :
                        a \in Requested(j)}
  <2>1. wk' \in [Workers -> WorkerStates] /\ WorkerHolds'
    BY <1>16, IdleType DEF TechnicalFailure
  <2>2. j \in Jobs
    BY <1>16 DEF TechnicalFailure, TypeInv, WorkerHolds
  <2>3. new \subseteq Attempts
    BY <2>2 DEF Requested, Attempts, TypeInv, RowsTyped
  <2>4. attempts' = [attempts EXCEPT ![j] = attempts[j] \cup new]
    BY <1>16 DEF TechnicalFailure
  <2>5. attempts' \in [Jobs -> SUBSET Attempts]
    <3> HIDE DEF new, j
    <3> QED BY <2>3, <2>4 DEF TypeInv, RowsTyped
  <2> QED BY <1>16, <2>1, <2>5 DEF TypeInv, RowsTyped, TechnicalFailure,
               Statuses, Owners, Timers
<1>17. ASSUME NEW s \in Stories, NEW d \in Decisions, CloseStory(s, d)
       PROVE  TypeInv'
  <2>1. [status |-> "CLOSED", decision |-> d, e1 |-> LastRow(s).e1] \in Rows
    BY LastRowType DEF Rows, TypeInv
  <2> QED BY <1>17, <2>1 DEF TypeInv, RowsTyped, WorkerHolds, CloseStory
<1>18. ASSUME NEW j \in Jobs, Elapse(j)
       PROVE  TypeInv'
  BY <1>18 DEF TypeInv, RowsTyped, WorkerHolds, Elapse, Timers
<1>19. CASE UNCHANGED vars
  BY <1>19 DEF TypeInv, RowsTyped, WorkerHolds, vars
<1> QED
  BY <1>1, <1>2, <1>3, <1>4, <1>5, <1>6, <1>7, <1>8, <1>9, <1>10, <1>11, <1>12,
     <1>13, <1>14, <1>15, <1>16, <1>17, <1>18, <1>19
     DEF Next, IngestStep, CaptureStep, AnalysisStep

----------------------------------------------------------------------------
(* The order of the Story State *)

\* Jobs of a story exist without gaps from the baseline on.
JobsContiguous ==
    \A s \in Stories, k \in 0..MaxE1 : status[<<s, k>>] # "NONE" =>
        \A m \in 0..(k - 1) : status[<<s, m>>] # "NONE"

\* The phases of a tick that work on a job claimed by claim_next.
InAnalysis == {"claimed", "loaded", "begun", "invoked", "answered"}

\* A job under analysis exists, and its predecessors all have results.
AnalysisPriors ==
    \A w \in Workers :
        wk[w].pc \in InAnalysis =>
            /\ status[wk[w].job] # "NONE"
            /\ \A m \in 0..(wk[w].job[2] - 1) : <<wk[w].job[1], m>> \in results

CompletedHasResult ==
    \A j \in Jobs : status[j] = "COMPLETED" => j \in results

\* While a story is open its results are exactly its state rows.
ResultsAreRows ==
    \A s \in Stories : ~Closed(s) =>
        \A k \in 0..MaxE1 : <<s, k>> \in results <=> k < Len(hist[s])

OrderInv ==
    /\ TypeInv
    /\ JobsContiguous
    /\ AnalysisPriors
    /\ CompletedHasResult
    /\ ResultsAreRows
    /\ StoryInOrder

\* In an ordered history a story is closed exactly when its last row says so.
LEMMA ClosedIsLast ==
    ASSUME RowsTyped, StoryInOrder, NEW s \in Stories
    PROVE  Closed(s) <=> LastRow(s).status = "CLOSED"
<1>1. hist[s] \in Seq(Rows)
  BY DEF RowsTyped
<1>2. CASE hist[s] = <<>>
  BY <1>2 DEF Closed, LastRow, NoRow
<1>3. CASE hist[s] # <<>>
  <2>1. Len(hist[s]) \in DOMAIN hist[s] /\ LastRow(s) = hist[s][Len(hist[s])]
    BY <1>1, <1>3 DEF LastRow
  <2> QED BY <2>1 DEF Closed, StoryInOrder
<1> QED BY <1>2, <1>3

\* A step that leaves results, histories and every tick's job alone, and makes
\* no job vanish or complete, keeps the order invariant.
LEMMA OrderFrame ==
    ASSUME OrderInv, TypeInv', UNCHANGED <<results, hist>>,
           \A j \in Jobs : status[j] # "NONE" => status'[j] # "NONE",
           \A j \in Jobs : status'[j] = "COMPLETED" => status[j] = "COMPLETED",
           JobsContiguous', AnalysisPriors'
    PROVE  OrderInv'
<1>1. CompletedHasResult'
  BY DEF OrderInv, CompletedHasResult
<1>2. ResultsAreRows' /\ StoryInOrder'
  BY DEF OrderInv, ResultsAreRows, StoryInOrder, Closed
<1> QED BY <1>1, <1>2 DEF OrderInv

\* When only existing jobs change status, the set of jobs stays contiguous.
LEMMA ContiguousFrame ==
    ASSUME JobsContiguous,
           \A j \in Jobs : status[j] # "NONE" <=> status'[j] # "NONE"
    PROVE  JobsContiguous'
<1> SUFFICES ASSUME NEW s \in Stories, NEW k \in 0..MaxE1, status'[<<s, k>>] # "NONE",
                    NEW m \in 0..(k - 1)
             PROVE  status'[<<s, m>>] # "NONE"
  BY DEF JobsContiguous
<1>1. m \in 0..MaxE1
  BY MaxE1Assumption
<1>2. <<s, k>> \in Jobs /\ <<s, m>> \in Jobs
  BY <1>1 DEF Jobs
<1> QED BY <1>2 DEF JobsContiguous

\* A step after which no worker analyses a job it did not analyse before keeps
\* the predecessors of all of them stored.
LEMMA PriorsFrame ==
    ASSUME OrderInv,
           \A v \in Workers : wk'[v].pc \in InAnalysis =>
               wk[v].pc \in InAnalysis /\ wk'[v].job = wk[v].job,
           \A j \in Jobs : status[j] # "NONE" => status'[j] # "NONE",
           results \subseteq results'
    PROVE  AnalysisPriors'
<1> SUFFICES ASSUME NEW v \in Workers, wk'[v].pc \in InAnalysis
             PROVE  /\ status'[wk'[v].job] # "NONE"
                    /\ \A m \in 0..(wk'[v].job[2] - 1) : <<wk'[v].job[1], m>> \in results'
  BY DEF AnalysisPriors, InAnalysis
<1>1. wk[v].pc \in InAnalysis /\ wk'[v].job = wk[v].job
  OBVIOUS
<1>2. wk[v].job \in Jobs
  BY <1>1 DEF OrderInv, TypeInv, WorkerHolds, InAnalysis
<1> QED BY <1>1, <1>2 DEF OrderInv, AnalysisPriors

\* Going idle, or on within a tick, gives a worker nothing new to analyse.
LEMMA WorkerFrame ==
    ASSUME TypeInv, NEW w \in Workers,
           \/ ToIdle(w)
           \/ \E pc \in Phases : Goto(w, pc)
                   /\ (pc \in InAnalysis => wk[w].pc \in InAnalysis)
    PROVE  \A v \in Workers : wk'[v].pc \in InAnalysis =>
               wk[v].pc \in InAnalysis /\ wk'[v].job = wk[v].job
<1>1. CASE ToIdle(w)
  BY <1>1 DEF TypeInv, RowsTyped, ToIdle, InAnalysis
<1>2. ASSUME NEW pc \in Phases, Goto(w, pc), pc \in InAnalysis => wk[w].pc \in InAnalysis
      PROVE  \A v \in Workers : wk'[v].pc \in InAnalysis =>
                 wk[v].pc \in InAnalysis /\ wk'[v].job = wk[v].job
  <2>1. wk[w] \in WorkerStates /\ wk \in [Workers -> WorkerStates]
    BY DEF TypeInv, RowsTyped
  <2>2. [wk[w] EXCEPT !.pc = pc].pc = pc /\ [wk[w] EXCEPT !.pc = pc].job = wk[w].job
    BY <2>1 DEF WorkerStates
  <2>3. wk' = [wk EXCEPT ![w] = [wk[w] EXCEPT !.pc = pc]]
    BY <1>2 DEF Goto
  <2> QED BY <1>2, <2>1, <2>2, <2>3
<1> QED BY <1>1, <1>2

\* A step that changes neither results nor histories, and gives no worker a
\* new job to analyse and no job a COMPLETED status, keeps the order invariant.
LEMMA QuietStep ==
    ASSUME OrderInv, TypeInv', UNCHANGED <<results, hist>>,
           \A v \in Workers : wk'[v].pc \in InAnalysis =>
               wk[v].pc \in InAnalysis /\ wk'[v].job = wk[v].job,
           \A j \in Jobs : status[j] # "NONE" <=> status'[j] # "NONE",
           \A j \in Jobs : status'[j] = "COMPLETED" => status[j] = "COMPLETED"
    PROVE  OrderInv'
<1>1. AnalysisPriors'
  BY PriorsFrame
<1>2. JobsContiguous'
  BY ContiguousFrame DEF OrderInv
<1> QED BY <1>1, <1>2, OrderFrame

LEMMA OrderInit == Init => OrderInv
<1> SUFFICES ASSUME Init PROVE OrderInv
  OBVIOUS
<1>1. TypeInv
  BY TypeInit
<1>2. \A s \in Stories : hist[s] = <<>> /\ Len(hist[s]) = 0
  BY DEF Init
<1>3. JobsContiguous
  BY DEF Init, JobsContiguous, Jobs
<1>4. AnalysisPriors
  BY DEF Init, AnalysisPriors, InAnalysis
<1>5. CompletedHasResult /\ ResultsAreRows /\ StoryInOrder
  BY <1>2 DEF Init, CompletedHasResult, ResultsAreRows, StoryInOrder
<1> QED BY <1>1, <1>3, <1>4, <1>5 DEF OrderInv

\* Storing a Grade appends the next row of an open story, and only that.
LEMMA CompleteKeepsOrder ==
    ASSUME OrderInv, TypeInv', NEW w \in Workers, Complete(w)
    PROVE  OrderInv'
<1> DEFINE j == wk[w].job
           s == j[1]
           k == j[2]
<1>1. j \in Jobs /\ s \in Stories /\ k \in 0..MaxE1 /\ j = <<s, k>>
  BY JobParts DEF Complete, OrderInv, TypeInv, WorkerHolds
<1>2. /\ status[j] # "NONE"
      /\ \A m \in 0..(k - 1) : <<s, m>> \in results
  BY DEF Complete, OrderInv, AnalysisPriors, InAnalysis
<1>3. \A v \in Workers : wk'[v].pc \in InAnalysis =>
          wk[v].pc \in InAnalysis /\ wk'[v].job = wk[v].job
  BY WorkerFrame DEF Complete, OrderInv
<1>4. CASE j \in results
  <2>1. UNCHANGED <<results, hist, status>>
    BY <1>4 DEF Complete
  <2>2. AnalysisPriors'
    BY <1>3, <2>1, PriorsFrame
  <2>3. JobsContiguous'
    BY <2>1, ContiguousFrame DEF OrderInv
  <2> QED BY <2>1, <2>2, <2>3, OrderFrame
<1>5. CASE j \notin results
  <2>1. StoreResult(j, wk[w].manifest)
    BY <1>5 DEF Complete
  <2>2. /\ results' = results \cup {j}
        /\ status' = [status EXCEPT ![j] = "COMPLETED"]
        /\ status \in [Jobs -> Statuses]
    BY <2>1 DEF StoreResult, OrderInv, TypeInv, RowsTyped
  <2>3. \A i \in Jobs : status[i] # "NONE" <=> status'[i] # "NONE"
    BY <1>1, <1>2, <2>2
  <2>4. JobsContiguous'
    BY <2>3, ContiguousFrame DEF OrderInv
  <2>5. AnalysisPriors'
    BY <1>3, <2>2, <2>3, PriorsFrame
  <2>6. CompletedHasResult'
    BY <2>2 DEF OrderInv, CompletedHasResult
  <2>7. hist \in [Stories -> Seq(Rows)] /\ hist[s] \in Seq(Rows)
    BY <1>1 DEF OrderInv, TypeInv, RowsTyped
  <2>8. CASE Closed(s)
    <3>1. hist' = hist
      BY <2>1, <2>8 DEF StoreResult
    <3>2. \A t \in Stories : Closed(t)' <=> Closed(t)
      BY <3>1 DEF Closed
    <3>3. ResultsAreRows'
      BY <1>1, <2>2, <2>8, <3>1, <3>2 DEF OrderInv, ResultsAreRows
    <3>4. StoryInOrder'
      BY <3>1 DEF OrderInv, StoryInOrder
    <3> QED BY <2>4, <2>5, <2>6, <3>3, <3>4 DEF OrderInv
  <2>9. CASE ~Closed(s)
    <3> DEFINE row == [status |-> "ACTIVE", e1 |-> k, decision |-> "NULL"]
               n == Len(hist[s])
    <3>1. n = k
      <4>1. n \in Nat /\ k >= n
        <5>1. n \in Nat
          BY <2>7
        <5>2. ~(k < n)
          BY <1>1, <1>5, <2>9 DEF OrderInv, ResultsAreRows
        <5> QED BY <1>1, <5>1, <5>2
      <4>2. ~(n < k)
        <5> SUFFICES ASSUME n < k PROVE FALSE
          OBVIOUS
        <5>1. n \in 0..(k - 1) /\ n \in 0..MaxE1
          BY <1>1, <4>1, MaxE1Assumption
        <5>2. <<s, n>> \in results
          BY <1>2, <5>1
        <5> QED BY <1>1, <2>9, <5>1, <5>2 DEF OrderInv, ResultsAreRows
      <4> QED BY <1>1, <4>1, <4>2
    <3>2. hist' = [hist EXCEPT ![s] = Append(hist[s], row)]
      BY <2>1, <2>9 DEF StoreResult
    <3>3. hist'[s] = Append(hist[s], row) /\ \A t \in Stories \ {s} : hist'[t] = hist[t]
      BY <1>1, <2>7, <3>2
    <3>4. /\ Len(hist'[s]) = n + 1
          /\ DOMAIN hist'[s] = 1..(n + 1)
          /\ hist'[s][n + 1] = row
          /\ \A i \in 1..n : hist'[s][i] = hist[s][i]
          /\ DOMAIN hist[s] = 1..n
      BY <2>7, <3>3
    <3>5. \A i \in 1..n : hist[s][i].status # "CLOSED"
      BY <2>9, <3>4 DEF Closed
    <3>6. StoryInOrder'
      <4> SUFFICES ASSUME NEW t \in Stories, NEW i \in DOMAIN hist'[t]
                   PROVE  /\ hist'[t][i].status = "ACTIVE" => hist'[t][i].e1 = i - 1
                          /\ hist'[t][i].status = "CLOSED" => i = Len(hist'[t])
        BY DEF StoryInOrder
      <4>1. CASE t # s
        BY <3>3, <4>1 DEF OrderInv, StoryInOrder
      <4>2. CASE t = s /\ i = n + 1
        BY <1>1, <3>1, <3>4, <4>2
      <4>3. CASE t = s /\ i \in 1..n
        BY <3>4, <3>5, <4>3 DEF OrderInv, StoryInOrder
      <4>4. t = s => i \in 1..n \/ i = n + 1
        BY <1>1, <3>1, <3>4
      <4> QED BY <4>1, <4>2, <4>3, <4>4
    <3>7. ResultsAreRows'
      <4> SUFFICES ASSUME NEW t \in Stories, ~Closed(t)', NEW m \in 0..MaxE1
                   PROVE  <<t, m>> \in results' <=> m < Len(hist'[t])
        BY DEF ResultsAreRows
      <4>1. CASE t # s
        <5>1. ~Closed(t)
          BY <3>3, <4>1 DEF Closed
        <5>2. <<t, m>> # j
          BY <1>1, <4>1
        <5> QED BY <2>2, <3>3, <4>1, <5>1, <5>2 DEF OrderInv, ResultsAreRows
      <4>2. CASE t = s
        <5>1. <<s, m>> \in results <=> m < n
          BY <1>1, <2>9 DEF OrderInv, ResultsAreRows
        <5>2. <<s, m>> = j <=> m = k
          BY <1>1
        <5> HIDE DEF j, s, k
        <5> QED BY <1>1, <2>2, <3>1, <3>4, <4>2, <5>1, <5>2
      <4> QED BY <4>1, <4>2
    <3> QED BY <2>4, <2>5, <2>6, <3>6, <3>7 DEF OrderInv
  <2> QED BY <2>8, <2>9
<1> QED BY <1>4, <1>5

\* Jones's row is the last of a story that was open.
LEMMA CloseKeepsOrder ==
    ASSUME OrderInv, TypeInv', NEW s \in Stories, NEW d \in Decisions,
           CloseStory(s, d)
    PROVE  OrderInv'
<1> DEFINE row == [status |-> "CLOSED", decision |-> d, e1 |-> LastRow(s).e1]
           n == Len(hist[s])
<1>1. hist[s] \in Seq(Rows) /\ hist \in [Stories -> Seq(Rows)]
  BY DEF OrderInv, TypeInv, RowsTyped
<1>2. ~Closed(s)
  BY ClosedIsLast DEF CloseStory, OrderInv, TypeInv
<1>3. hist'[s] = Append(hist[s], row) /\ \A t \in Stories \ {s} : hist'[t] = hist[t]
  BY <1>1 DEF CloseStory
<1>4. /\ n \in Nat
      /\ Len(hist'[s]) = n + 1
      /\ DOMAIN hist'[s] = 1..(n + 1)
      /\ hist'[s][n + 1] = row
      /\ \A i \in 1..n : hist'[s][i] = hist[s][i]
      /\ DOMAIN hist[s] = 1..n
  BY <1>1, <1>3
<1>5. StoryInOrder'
  <2> SUFFICES ASSUME NEW t \in Stories, NEW i \in DOMAIN hist'[t]
               PROVE  /\ hist'[t][i].status = "ACTIVE" => hist'[t][i].e1 = i - 1
                      /\ hist'[t][i].status = "CLOSED" => i = Len(hist'[t])
    BY DEF StoryInOrder
  <2>1. CASE t # s
    BY <1>3, <2>1 DEF OrderInv, StoryInOrder
  <2>2. CASE t = s /\ i = n + 1
    BY <1>4, <2>2
  <2>3. CASE t = s /\ i \in 1..n
    BY <1>2, <1>4, <2>3 DEF OrderInv, StoryInOrder, Closed
  <2> QED BY <1>4, <2>1, <2>2, <2>3
<1>6. Closed(s)'
  <2>1. n + 1 \in DOMAIN hist'[s] /\ hist'[s][n + 1].status = "CLOSED"
    BY <1>4
  <2> QED BY <2>1 DEF Closed
<1>7. ResultsAreRows'
  <2> SUFFICES ASSUME NEW t \in Stories, ~Closed(t)', NEW m \in 0..MaxE1
               PROVE  <<t, m>> \in results' <=> m < Len(hist'[t])
    BY DEF ResultsAreRows
  <2>1. t # s
    BY <1>6
  <2>2. ~Closed(t) /\ hist'[t] = hist[t] /\ results' = results
    BY <1>3, <2>1 DEF Closed, CloseStory
  <2> QED BY <2>2 DEF OrderInv, ResultsAreRows
<1>8. JobsContiguous' /\ AnalysisPriors' /\ CompletedHasResult'
  BY DEF CloseStory, OrderInv, JobsContiguous, AnalysisPriors, CompletedHasResult
<1> QED BY <1>5, <1>7, <1>8 DEF OrderInv

\* Every action keeps the order invariant.
LEMMA OrderStep == OrderInv /\ [Next]_vars => OrderInv'
<1> SUFFICES ASSUME OrderInv, [Next]_vars PROVE OrderInv'
  OBVIOUS
<1>0. TypeInv /\ TypeInv' /\ status \in [Jobs -> Statuses]
  BY TypeStep DEF OrderInv, TypeInv, RowsTyped
<1>1. ASSUME NEW s \in Stories, NEW time \in LiqTimes, IngestLiq(s, time)
      PROVE  OrderInv'
  <2>1. status' = [status EXCEPT ![<<s, 0>>] = "PENDING_CAPTURE"]
        /\ UNCHANGED <<results, hist, wk>>
    BY <1>1 DEF IngestLiq, Enqueue
  <2>2. JobsContiguous'
    <3> SUFFICES ASSUME NEW t \in Stories, NEW k \in 0..MaxE1, status'[<<t, k>>] # "NONE",
                        NEW m \in 0..(k - 1)
                 PROVE  status'[<<t, m>>] # "NONE"
      BY DEF JobsContiguous
    <3>1. m \in 0..MaxE1 /\ k # 0
      BY MaxE1Assumption
    <3>2. <<t, k>> \in Jobs /\ <<t, m>> \in Jobs /\ <<t, k>> # <<s, 0>>
      BY <3>1 DEF Jobs
    <3>3. status[<<t, m>>] # "NONE"
      BY <1>0, <2>1, <3>2 DEF OrderInv, JobsContiguous
    <3> QED BY <1>0, <2>1, <3>2, <3>3
  <2>3. AnalysisPriors'
    BY <1>0, <2>1, PriorsFrame
  <2> QED BY <1>0, <2>1, <2>2, <2>3, OrderFrame
<1>2. ASSUME NEW s \in Stories, NEW e \in 1..MaxE1, NEW time \in E1Times,
             IngestE1(s, e, time)
      PROVE  OrderInv'
  <2>1. status' = [status EXCEPT ![<<s, e>>] = "PENDING_CAPTURE"]
        /\ UNCHANGED <<results, hist, wk>>
    BY <1>2 DEF IngestE1, Enqueue
  <2>2. JobsContiguous'
    <3> SUFFICES ASSUME NEW t \in Stories, NEW k \in 0..MaxE1, status'[<<t, k>>] # "NONE",
                        NEW m \in 0..(k - 1)
                 PROVE  status'[<<t, m>>] # "NONE"
      BY DEF JobsContiguous
    <3>1. m \in 0..MaxE1
      BY MaxE1Assumption
    <3>2. <<t, k>> \in Jobs /\ <<t, m>> \in Jobs
      BY <3>1 DEF Jobs
    <3>3. status[<<t, m>>] # "NONE"
      <4>1. CASE <<t, k>> = <<s, e>>
        BY <1>2, <4>1 DEF IngestE1, IsNextE1
      <4>2. CASE <<t, k>> # <<s, e>>
        BY <1>0, <2>1, <3>2, <4>2 DEF OrderInv, JobsContiguous
      <4> QED BY <4>1, <4>2
    <3> QED BY <1>0, <2>1, <3>2, <3>3
  <2>3. AnalysisPriors'
    BY <1>0, <2>1, PriorsFrame
  <2> QED BY <1>0, <2>1, <2>2, <2>3, OrderFrame
<1>3. ASSUME NEW w \in Workers, NEW j \in Jobs, RequeueExpired(w, j)
      PROVE  OrderInv'
  <2>1. UNCHANGED <<results, hist>> /\ status[j] = "CLAIMED"
        /\ status' = [status EXCEPT ![j] = "PENDING_CAPTURE"]
    BY <1>3 DEF RequeueExpired, First, CaptureExpired
  <2>2. \A v \in Workers : wk'[v].pc \in InAnalysis =>
            wk[v].pc \in InAnalysis /\ wk'[v].job = wk[v].job
    BY <1>0, <1>3, WorkerFrame DEF RequeueExpired, Phases, InAnalysis
  <2> QED BY <1>0, <2>1, <2>2, QuietStep
<1>4. ASSUME NEW w \in Workers, NEW j \in Jobs, ClaimCapture(w, j)
      PROVE  OrderInv'
  <2>1. UNCHANGED <<results, hist>> /\ status[j] = "PENDING_CAPTURE"
        /\ status' = [status EXCEPT ![j] = "CLAIMED"]
    BY <1>4 DEF ClaimCapture, First, CapturePending
  <2>2. \A v \in Workers : wk'[v].pc \in InAnalysis =>
            wk[v].pc \in InAnalysis /\ wk'[v].job = wk[v].job
    BY <1>0, <1>4 DEF ClaimCapture, InAnalysis, TypeInv, RowsTyped
  <2> QED BY <1>0, <2>1, <2>2, QuietStep
<1>5. ASSUME NEW w \in Workers, NothingToCapture(w) PROVE OrderInv'
  BY <1>0, <1>5, WorkerFrame, QuietStep DEF NothingToCapture, Phases, InAnalysis
<1>6. ASSUME NEW w \in Workers, RecordCapture(w) PROVE OrderInv'
  <2>1. UNCHANGED <<results, hist>> /\ status[wk[w].job] = "CLAIMED"
        /\ status' = [status EXCEPT ![wk[w].job] = "CAPTURED"]
    BY <1>6 DEF RecordCapture, HoldsCapture
  <2>2. \A v \in Workers : wk'[v].pc \in InAnalysis =>
            wk[v].pc \in InAnalysis /\ wk'[v].job = wk[v].job
    BY <1>0, <1>6 DEF RecordCapture, InAnalysis, TypeInv, RowsTyped
  <2> QED BY <1>0, <2>1, <2>2, QuietStep
<1>7. ASSUME NEW w \in Workers, CaptureFailure(w) PROVE OrderInv'
  <2>1. UNCHANGED <<results, hist>> /\ status[wk[w].job] = "CLAIMED"
        /\ \/ status' = [status EXCEPT ![wk[w].job] = "TECHNICAL_FAILURE"]
           \/ status' = [status EXCEPT ![wk[w].job] = "PENDING_CAPTURE"]
    BY <1>7 DEF CaptureFailure, HoldsCapture
  <2>2. \A v \in Workers : wk'[v].pc \in InAnalysis =>
            wk[v].pc \in InAnalysis /\ wk'[v].job = wk[v].job
    BY <1>0, <1>7, WorkerFrame DEF CaptureFailure
  <2> QED BY <1>0, <2>1, <2>2, QuietStep
<1>8. ASSUME NEW w \in Workers, CaptureLeaseLost(w) \/ EndTick(w) \/ Crash(w)
                                  \/ IdentityConflict(w)
      PROVE  OrderInv'
  <2>1. ToIdle(w) /\ UNCHANGED <<results, hist, status>>
    BY <1>8 DEF CaptureLeaseLost, EndTick, Crash, IdentityConflict
  <2> QED BY <1>0, <2>1, WorkerFrame, QuietStep
<1>9. ASSUME NEW w \in Workers, NEW j \in Jobs, ClaimNext(w, j)
      PROVE  OrderInv'
  <2>1. /\ UNCHANGED <<results, hist>>
        /\ status[j] \in {"CAPTURED", "CLAIMED"}
        /\ status' = [status EXCEPT ![j] = "CLAIMED"]
    BY <1>9 DEF ClaimNext, AnalysisEligible
  <2>2. j[1] \in Stories /\ j[2] \in 0..MaxE1 /\ j = <<j[1], j[2]>>
    BY JobParts
  <2>3. \A m \in 0..(j[2] - 1) : <<j[1], m>> \in results
    <3> SUFFICES ASSUME NEW m \in 0..(j[2] - 1) PROVE <<j[1], m>> \in results
      OBVIOUS
    <3>1. <<j[1], m>> \in Jobs
      BY <2>2, MaxE1Assumption DEF Jobs
    <3>2. status[<<j[1], m>>] # "NONE"
      BY <2>1, <2>2 DEF OrderInv, JobsContiguous
    <3>3. status[<<j[1], m>>] = "COMPLETED"
      BY <1>9, <3>2 DEF ClaimNext, AnalysisEligible, PriorsCompleted
    <3> QED BY <3>1, <3>3 DEF OrderInv, CompletedHasResult
  <2>4. /\ wk'[w].pc = "claimed" /\ wk'[w].job = j
        /\ \A v \in Workers \ {w} : wk'[v] = wk[v]
    BY <1>0, <1>9 DEF ClaimNext, TypeInv, RowsTyped
  <2>5. \A i \in Jobs : status[i] # "NONE" <=> status'[i] # "NONE"
    BY <1>0, <2>1
  <2>6. AnalysisPriors'
    <3> SUFFICES ASSUME NEW v \in Workers, wk'[v].pc \in InAnalysis
                 PROVE  /\ status'[wk'[v].job] # "NONE"
                        /\ \A m \in 0..(wk'[v].job[2] - 1) :
                              <<wk'[v].job[1], m>> \in results'
      BY DEF AnalysisPriors, InAnalysis
    <3>1. CASE v = w
      BY <1>0, <2>1, <2>3, <2>4, <2>5, <3>1
    <3>2. CASE v # w
      <4>1. wk[v].job \in Jobs
        BY <2>4, <3>2 DEF OrderInv, TypeInv, WorkerHolds, InAnalysis
      <4> QED BY <2>1, <2>4, <2>5, <3>2, <4>1 DEF OrderInv, AnalysisPriors
    <3> QED BY <3>1, <3>2
  <2>7. JobsContiguous'
    BY <2>5, ContiguousFrame DEF OrderInv
  <2> QED BY <1>0, <2>1, <2>5, <2>6, <2>7, OrderFrame
<1>10. ASSUME NEW w \in Workers, NEW m \in Models, LoadBundle(w, m)
       PROVE  OrderInv'
  <2>1. \A v \in Workers : wk'[v].pc \in InAnalysis =>
            wk[v].pc \in InAnalysis /\ wk'[v].job = wk[v].job
    BY <1>0, <1>10 DEF LoadBundle, InAnalysis, TypeInv, RowsTyped
  <2>2. UNCHANGED <<results, hist, status>>
    BY <1>10 DEF LoadBundle
  <2> QED BY <1>0, <2>1, <2>2, QuietStep
<1>11. ASSUME NEW w \in Workers, BeginProviderAttempt(w) \/ Invoke(w) \/ Answer(w)
       PROVE  OrderInv'
  <2>1. UNCHANGED <<results, hist, status>> /\ wk[w].pc \in InAnalysis
    BY <1>11 DEF BeginProviderAttempt, Invoke, Answer, InAnalysis
  <2>2. \E pc \in Phases : Goto(w, pc)
    BY <1>11 DEF BeginProviderAttempt, Invoke, Answer, Phases
  <2>3. \A v \in Workers : wk'[v].pc \in InAnalysis =>
            wk[v].pc \in InAnalysis /\ wk'[v].job = wk[v].job
    BY <1>0, <2>1, <2>2, WorkerFrame
  <2> QED BY <1>0, <2>1, <2>3, QuietStep
<1>12. ASSUME NEW w \in Workers, Complete(w) PROVE OrderInv'
  BY <1>0, <1>12, CompleteKeepsOrder
<1>13. ASSUME NEW w \in Workers, TechnicalFailure(w) PROVE OrderInv'
  <2>1. UNCHANGED <<results, hist>> /\ wk[w].pc \in InAnalysis
        /\ status' = [status EXCEPT ![wk[w].job] = "TECHNICAL_FAILURE"]
    BY <1>13 DEF TechnicalFailure, InAnalysis
  <2>2. status[wk[w].job] # "NONE"
    BY <2>1 DEF OrderInv, AnalysisPriors
  <2>3. \A v \in Workers : wk'[v].pc \in InAnalysis =>
            wk[v].pc \in InAnalysis /\ wk'[v].job = wk[v].job
    BY <1>0, <1>13, WorkerFrame DEF TechnicalFailure
  <2> QED BY <1>0, <2>1, <2>2, <2>3, QuietStep
<1>14. ASSUME NEW s \in Stories, NEW d \in Decisions, CloseStory(s, d)
       PROVE  OrderInv'
  BY <1>0, <1>14, CloseKeepsOrder
<1>15. ASSUME \/ \E time \in E1Times : IngestOrphanE1(time)
              \/ \E j \in Jobs : Elapse(j)
              \/ UNCHANGED vars
       PROVE  OrderInv'
  <2>1. UNCHANGED <<results, hist, status, wk>>
    BY <1>15 DEF IngestOrphanE1, Elapse, vars
  <2> QED BY <1>0, <2>1, QuietStep
<1> QED
  BY <1>1, <1>2, <1>3, <1>4, <1>5, <1>6, <1>7, <1>8, <1>9, <1>10, <1>11, <1>12,
     <1>13, <1>14, <1>15 DEF Next, IngestStep, CaptureStep, AnalysisStep

\* The state rows of every story stay in the order baseline, E1 1, E1 2, ...
\* with the closing row last, however leases are taken over.
THEOREM StoryOrder == Spec => []StoryInOrder
<1>1. OrderInv => StoryInOrder
  BY DEF OrderInv
<1> QED BY OrderInit, OrderStep, <1>1, PTL DEF Spec

\* A closed story's history never changes again.
LEMMA ClosedStep ==
    ASSUME OrderInv, Next, NEW s \in Stories, Closed(s)
    PROVE  hist'[s] = hist[s]
<1>0. RowsTyped /\ StoryInOrder /\ hist \in [Stories -> Seq(Rows)]
  BY DEF OrderInv, TypeInv, RowsTyped
<1>1. ASSUME NEW t \in Stories, NEW d \in Decisions, CloseStory(t, d)
      PROVE  hist'[s] = hist[s]
  <2>1. t # s
    BY <1>0, <1>1, ClosedIsLast DEF CloseStory
  <2> QED BY <1>0, <1>1, <2>1 DEF CloseStory
<1>2. ASSUME NEW w \in Workers, Complete(w)
      PROVE  hist'[s] = hist[s]
  BY <1>0, <1>2 DEF Complete, StoreResult
<1>3. CASE \E w \in Workers : CaptureStep(w) \/ Crash(w)
  BY <1>3 DEF CaptureStep, Crash, RequeueExpired, ClaimCapture, NothingToCapture,
              RecordCapture, CaptureFailure, CaptureLeaseLost
<1>4. CASE IngestStep \/ \E j \in Jobs : Elapse(j)
  BY <1>4 DEF IngestStep, IngestLiq, IngestE1, IngestOrphanE1, Enqueue, Elapse
<1>5. ASSUME NEW w \in Workers, AnalysisStep(w), ~Complete(w)
      PROVE  hist'[s] = hist[s]
  BY <1>5 DEF AnalysisStep, ClaimNext, EndTick, LoadBundle, BeginProviderAttempt,
              IdentityConflict, Invoke, Answer, TechnicalFailure
<1> QED BY <1>1, <1>2, <1>3, <1>4, <1>5 DEF Next

THEOREM ClosureFinal == Spec => ClosedIsFinal
<1>1. OrderInv /\ [Next]_vars =>
          [\A s \in Stories : Closed(s) => hist'[s] = hist[s]]_vars
  BY ClosedStep DEF vars
<1> QED BY OrderInit, OrderStep, <1>1, PTL DEF Spec, ClosedIsFinal

----------------------------------------------------------------------------
(* One capture per job *)

\* A job under analysis is captured, and a claimed job has an owner.
AnalysisCaptured ==
    \A w \in Workers : wk[w].pc \in InAnalysis => wk[w].job \in captured

ClaimedHasOwner == \A j \in Jobs : status[j] = "CLAIMED" => owner[j] # <<>>

\* A story that does not exist has no baseline job.
StoryBeforeBaseline == \A s \in Stories : srcTime[s] = 0 => status[<<s, 0>>] = "NONE"

CaptureInv ==
    /\ TypeInv
    /\ StoryBeforeBaseline
    /\ AnalysisCaptured
    /\ ClaimedHasOwner
    /\ CaptureOnce

\* A job that is neither analysed nor leased for analysis was never captured
\* while it is pending or leased for capture.
LEMMA NotCaptured ==
    ASSUME CaptureInv, NEW j \in Jobs,
           status[j] \in {"NONE", "PENDING_CAPTURE"} \/ owner[j] \in {"capture"} \X Workers
    PROVE  j \notin captured
BY DEF CaptureInv, CaptureOnce

\* What keeps CaptureOnce: only the rows of one job change, and consistently.
LEMMA CaptureFrame ==
    ASSUME CaptureInv, TypeInv', NEW j \in Jobs,
           \A i \in Jobs \ {j} : /\ status'[i] = status[i]
                                 /\ owner'[i] = owner[i]
                                 /\ i \in captured' <=> i \in captured
                                 /\ i \in results' <=> i \in results
                                 /\ \A c \in sent' : c[1] = i => c \in sent,
           status'[j] = "CLAIMED" => owner'[j] # <<>>,
           j \in captured => j \in captured',
           j \in captured' => /\ status'[j] \notin {"NONE", "PENDING_CAPTURE"}
                              /\ owner'[j] \notin {"capture"} \X Workers,
           \/ j \in captured'
           \/ /\ status'[j] \notin {"CAPTURED", "COMPLETED"}
              /\ owner'[j] \notin {"analysis"} \X Workers
              /\ j \in results' => j \in results
              /\ \A c \in sent' : c[1] = j => c \in sent,
           AnalysisCaptured',
           StoryBeforeBaseline'
    PROVE  CaptureInv'
<1>1. ClaimedHasOwner'
  BY DEF CaptureInv, ClaimedHasOwner
<1>2. CaptureOnce'
  <2> SUFFICES ASSUME NEW i \in Jobs
               PROVE  /\ i \in captured' =>
                            /\ status'[i] \notin {"NONE", "PENDING_CAPTURE"}
                            /\ owner'[i] \notin {"capture"} \X Workers
                      /\ \/ status'[i] \in {"CAPTURED", "COMPLETED"}
                         \/ owner'[i] \in {"analysis"} \X Workers
                         \/ i \in results'
                         \/ \E c \in sent' : c[1] = i
                         => i \in captured'
    BY DEF CaptureOnce
  <2>1. CASE i # j
    BY <2>1 DEF CaptureInv, CaptureOnce
  <2>2. CASE i = j
    BY <2>2 DEF CaptureInv, CaptureOnce
  <2> QED BY <2>1, <2>2
<1> QED BY <1>1, <1>2 DEF CaptureInv

\* Workers that analyse nothing new keep working on captured jobs.
LEMMA AnalysisCapturedFrame ==
    ASSUME CaptureInv, captured \subseteq captured',
           \A v \in Workers : wk'[v].pc \in InAnalysis =>
               wk[v].pc \in InAnalysis /\ wk'[v].job = wk[v].job
    PROVE  AnalysisCaptured'
BY DEF CaptureInv, AnalysisCaptured

LEMMA BaselineFrame ==
    ASSUME CaptureInv, UNCHANGED srcTime,
           \A j \in Jobs : status[j] = "NONE" => status'[j] = "NONE"
    PROVE  StoryBeforeBaseline'
<1> SUFFICES ASSUME NEW s \in Stories, srcTime'[s] = 0 PROVE status'[<<s, 0>>] = "NONE"
  BY DEF StoryBeforeBaseline
<1>1. <<s, 0>> \in Jobs
  BY MaxE1Assumption DEF Jobs
<1> QED BY <1>1 DEF CaptureInv, StoryBeforeBaseline

LEMMA CaptureInit == Init => CaptureInv
<1> SUFFICES ASSUME Init PROVE CaptureInv
  OBVIOUS
<1>1. TypeInv
  BY TypeInit
<1>2. StoryBeforeBaseline
  BY MaxE1Assumption DEF Init, StoryBeforeBaseline, Jobs
<1>3. AnalysisCaptured /\ ClaimedHasOwner /\ CaptureOnce
  BY DEF Init, AnalysisCaptured, InAnalysis, ClaimedHasOwner, CaptureOnce
<1> QED BY <1>1, <1>2, <1>3 DEF CaptureInv

LEMMA CaptureStepInv == CaptureInv /\ [Next]_vars => CaptureInv'
<1> SUFFICES ASSUME CaptureInv, [Next]_vars PROVE CaptureInv'
  OBVIOUS
<1>0. /\ TypeInv /\ TypeInv' /\ status \in [Jobs -> Statuses]
      /\ owner \in [Jobs -> Owners] /\ wk \in [Workers -> WorkerStates]
  BY TypeStep DEF CaptureInv, TypeInv, RowsTyped
<1>1. ASSUME NEW j \in Jobs, status[j] = "NONE", StoryBeforeBaseline',
             status' = [status EXCEPT ![j] = "PENDING_CAPTURE"],
             UNCHANGED <<owner, captured, results, sent, wk>>
      PROVE  CaptureInv'
  <2>1. j \notin captured
    BY <1>1, NotCaptured
  <2>2. AnalysisCaptured'
    BY <1>1, AnalysisCapturedFrame
  <2>3. owner[j] \notin {"analysis"} \X Workers
    BY <2>1 DEF CaptureInv, CaptureOnce
  <2> QED BY <1>0, <1>1, <2>1, <2>2, <2>3, CaptureFrame
<1>2. ASSUME NEW s \in Stories, NEW time \in LiqTimes, IngestLiq(s, time)
      PROVE  CaptureInv'
  <2>1. <<s, 0>> \in Jobs /\ \A t \in Stories : <<t, 0>> \in Jobs
    BY MaxE1Assumption DEF Jobs
  <2>2. status[<<s, 0>>] = "NONE" /\ srcTime'[s] # 0
    BY <1>2, TimesAssumption DEF IngestLiq, CaptureInv, StoryBeforeBaseline, TypeInv, RowsTyped
  <2>3. status' = [status EXCEPT ![<<s, 0>>] = "PENDING_CAPTURE"]
        /\ UNCHANGED <<owner, captured, results, sent, wk>>
    BY <1>2 DEF IngestLiq, Enqueue
  <2>4. StoryBeforeBaseline'
    <3> SUFFICES ASSUME NEW t \in Stories, srcTime'[t] = 0 PROVE status'[<<t, 0>>] = "NONE"
      BY DEF StoryBeforeBaseline
    <3>1. t # s /\ srcTime[t] = 0
      BY <1>2, <2>2 DEF IngestLiq, TypeInv, RowsTyped, CaptureInv
    <3> QED BY <1>0, <2>1, <2>3, <3>1 DEF CaptureInv, StoryBeforeBaseline
  <2> QED BY <1>1, <2>1, <2>2, <2>3, <2>4
<1>3. ASSUME NEW s \in Stories, NEW e \in 1..MaxE1, NEW time \in E1Times,
             IngestE1(s, e, time)
      PROVE  CaptureInv'
  <2>1. <<s, e>> \in Jobs /\ \A t \in Stories : <<t, 0>> \in Jobs /\ <<t, 0>> # <<s, e>>
    BY MaxE1Assumption DEF Jobs
  <2>2. /\ status[<<s, e>>] = "NONE"
        /\ status' = [status EXCEPT ![<<s, e>>] = "PENDING_CAPTURE"]
        /\ UNCHANGED <<owner, captured, results, sent, wk, srcTime>>
    BY <1>3 DEF IngestE1, IsNextE1, Enqueue
  <2>3. StoryBeforeBaseline'
    BY <1>0, <2>1, <2>2 DEF CaptureInv, StoryBeforeBaseline
  <2> QED BY <1>1, <2>1, <2>2, <2>3
<1>4. ASSUME NEW w \in Workers, NEW j \in Jobs, RequeueExpired(w, j)
      PROVE  CaptureInv'
  <2>1. /\ status[j] = "CLAIMED" /\ owner[j] \in {"capture"} \X Workers
        /\ status' = [status EXCEPT ![j] = "PENDING_CAPTURE"]
        /\ owner' = [owner EXCEPT ![j] = <<>>]
        /\ UNCHANGED <<captured, results, sent, srcTime>>
    BY <1>4 DEF RequeueExpired, First, CaptureExpired
  <2>2. j \notin captured
    BY <2>1, NotCaptured
  <2>3. AnalysisCaptured'
    BY <1>0, <1>4, WorkerFrame, AnalysisCapturedFrame DEF RequeueExpired, Phases, InAnalysis
  <2>4. StoryBeforeBaseline'
    BY <1>0, <2>1, BaselineFrame
  <2> QED BY <1>0, <2>1, <2>2, <2>3, <2>4, CaptureFrame
<1>5. ASSUME NEW w \in Workers, NEW j \in Jobs, ClaimCapture(w, j)
      PROVE  CaptureInv'
  <2>1. /\ status[j] = "PENDING_CAPTURE"
        /\ status' = [status EXCEPT ![j] = "CLAIMED"]
        /\ owner' = [owner EXCEPT ![j] = <<"capture", w>>]
        /\ UNCHANGED <<captured, results, sent, srcTime>>
    BY <1>5 DEF ClaimCapture, First, CapturePending
  <2>2. j \notin captured
    BY <2>1, NotCaptured
  <2>3. \A v \in Workers : wk'[v].pc \in InAnalysis =>
            wk[v].pc \in InAnalysis /\ wk'[v].job = wk[v].job
    BY <1>0, <1>5 DEF ClaimCapture, InAnalysis
  <2>4. AnalysisCaptured' /\ StoryBeforeBaseline'
    BY <1>0, <2>1, <2>3, AnalysisCapturedFrame, BaselineFrame
  <2>5. owner'[j] = <<"capture", w>> /\ owner'[j] # <<>>
        /\ owner'[j] \notin {"analysis"} \X Workers
    BY <1>0, <2>1
  <2> QED BY <1>0, <2>1, <2>2, <2>4, <2>5, CaptureFrame
<1>6. ASSUME NEW w \in Workers, RecordCapture(w)
      PROVE  CaptureInv'
  <2> DEFINE j == wk[w].job
  <2>1. /\ j \in Jobs
        /\ status[j] = "CLAIMED"
        /\ status' = [status EXCEPT ![j] = "CAPTURED"]
        /\ owner' = [owner EXCEPT ![j] = <<>>]
        /\ captured' = captured \cup {j}
        /\ UNCHANGED <<results, sent, srcTime>>
    BY <1>0, <1>6 DEF RecordCapture, HoldsCapture, TypeInv, WorkerHolds
  <2>2. \A v \in Workers : wk'[v].pc \in InAnalysis =>
            wk[v].pc \in InAnalysis /\ wk'[v].job = wk[v].job
    BY <1>0, <1>6 DEF RecordCapture, InAnalysis
  <2>3. AnalysisCaptured' /\ StoryBeforeBaseline'
    BY <1>0, <2>1, <2>2, AnalysisCapturedFrame, BaselineFrame
  <2> HIDE DEF j
  <2> QED BY <1>0, <2>1, <2>3, CaptureFrame
<1>7. ASSUME NEW w \in Workers, CaptureFailure(w)
      PROVE  CaptureInv'
  <2> DEFINE j == wk[w].job
  <2>1. /\ j \in Jobs
        /\ status[j] = "CLAIMED" /\ owner[j] \in {"capture"} \X Workers
        /\ \/ status' = [status EXCEPT ![j] = "TECHNICAL_FAILURE"]
           \/ status' = [status EXCEPT ![j] = "PENDING_CAPTURE"]
        /\ owner' = [owner EXCEPT ![j] = <<>>]
        /\ UNCHANGED <<captured, results, sent, srcTime>>
    BY <1>0, <1>7 DEF CaptureFailure, HoldsCapture, TypeInv, WorkerHolds
  <2>2. j \notin captured
    BY <2>1, NotCaptured
  <2>3. AnalysisCaptured' /\ StoryBeforeBaseline'
    BY <1>0, <1>7, <2>1, WorkerFrame, AnalysisCapturedFrame, BaselineFrame
       DEF CaptureFailure
  <2> HIDE DEF j
  <2> QED BY <1>0, <2>1, <2>2, <2>3, CaptureFrame
<1>8. ASSUME NEW w \in Workers, NEW j \in Jobs, ClaimNext(w, j)
      PROVE  CaptureInv'
  <2>1. /\ status[j] = "CAPTURED" \/ (status[j] = "CLAIMED"
                                        /\ owner[j] \notin {"capture"} \X Workers)
        /\ status' = [status EXCEPT ![j] = "CLAIMED"]
        /\ owner' = [owner EXCEPT ![j] = <<"analysis", w>>]
        /\ UNCHANGED <<captured, results, sent, srcTime>>
    BY <1>8 DEF ClaimNext, AnalysisEligible
  <2>2. j \in captured
    <3>1. CASE status[j] = "CAPTURED"
      BY <3>1 DEF CaptureInv, CaptureOnce
    <3>2. CASE status[j] = "CLAIMED" /\ owner[j] \notin {"capture"} \X Workers
      <4>1. owner[j] # <<>> /\ owner[j] \in Owners
        BY <1>0, <3>2 DEF CaptureInv, ClaimedHasOwner
      <4>2. owner[j] \in {"analysis"} \X Workers
        BY <3>2, <4>1 DEF Owners
      <4> QED BY <4>2 DEF CaptureInv, CaptureOnce
    <3> QED BY <2>1, <3>1, <3>2
  <2>3. AnalysisCaptured'
    BY <1>0, <1>8, <2>2 DEF ClaimNext, CaptureInv, AnalysisCaptured
  <2>4. StoryBeforeBaseline'
    BY <1>0, <2>1, BaselineFrame
  <2>5. owner'[j] = <<"analysis", w>> /\ owner'[j] # <<>>
        /\ owner'[j] \notin {"capture"} \X Workers
    BY <1>0, <2>1
  <2> QED BY <1>0, <2>1, <2>2, <2>3, <2>4, <2>5, CaptureFrame
<1>9. ASSUME NEW w \in Workers, Invoke(w)
      PROVE  CaptureInv'
  <2> DEFINE j == wk[w].job
  <2>1. /\ j \in Jobs /\ j \in captured
        /\ sent' = sent \cup {<<j, wk[w].manifest>>}
        /\ UNCHANGED <<status, owner, captured, results, srcTime>>
    BY <1>0, <1>9 DEF Invoke, TypeInv, WorkerHolds, CaptureInv, AnalysisCaptured, InAnalysis
  <2>2. AnalysisCaptured' /\ StoryBeforeBaseline'
    BY <1>0, <1>9, <2>1, WorkerFrame, AnalysisCapturedFrame, BaselineFrame
       DEF Invoke, Phases, InAnalysis
  <2>3. \A i \in Jobs \ {j} : \A c \in sent' : c[1] = i => c \in sent
    BY <2>1
  <2>4. /\ status[j] \notin {"NONE", "PENDING_CAPTURE"}
        /\ owner[j] \notin {"capture"} \X Workers
        /\ status[j] = "CLAIMED" => owner[j] # <<>>
    BY <2>1 DEF CaptureInv, CaptureOnce, ClaimedHasOwner
  <2> HIDE DEF j
  <2> QED BY <1>0, <2>1, <2>2, <2>3, <2>4, CaptureFrame
<1>10. ASSUME NEW w \in Workers, Complete(w) \/ TechnicalFailure(w)
       PROVE  CaptureInv'
  <2> DEFINE j == wk[w].job
  <2>1. /\ j \in Jobs /\ j \in captured
        /\ ToIdle(w)
        /\ UNCHANGED <<captured, sent, srcTime>>
        /\ results' \subseteq results \cup {j} /\ results \subseteq results'
    <3>1. wk[w].pc \in InAnalysis
      BY <1>10 DEF Complete, TechnicalFailure, InAnalysis
    <3>2. j \in Jobs /\ j \in captured
      BY <1>0, <3>1 DEF TypeInv, WorkerHolds, CaptureInv, AnalysisCaptured, InAnalysis
    <3>3. CASE Complete(w)
      BY <3>2, <3>3 DEF Complete, StoreResult
    <3>4. CASE TechnicalFailure(w)
      BY <3>2, <3>4 DEF TechnicalFailure
    <3> QED BY <1>10, <3>3, <3>4
  <2>2. /\ status[j] \notin {"NONE", "PENDING_CAPTURE"}
        /\ owner[j] \notin {"capture"} \X Workers
        /\ status[j] = "CLAIMED" => owner[j] # <<>>
    BY <2>1 DEF CaptureInv, CaptureOnce, ClaimedHasOwner
  <2>3. \/ UNCHANGED <<status, owner>>
        \/ /\ \/ status' = [status EXCEPT ![j] = "COMPLETED"]
              \/ status' = [status EXCEPT ![j] = "TECHNICAL_FAILURE"]
           /\ owner' = [owner EXCEPT ![j] = <<>>]
    BY <1>10 DEF Complete, StoreResult, TechnicalFailure
  <2>4. AnalysisCaptured'
    BY <1>0, <2>1, WorkerFrame, AnalysisCapturedFrame
  <2>5. StoryBeforeBaseline'
    BY <1>0, <2>1, <2>2, <2>3, BaselineFrame
  <2>6. \A i \in Jobs \ {j} : /\ status'[i] = status[i]
                              /\ owner'[i] = owner[i]
                              /\ i \in results' <=> i \in results
    BY <1>0, <2>1, <2>3
  <2>7. /\ status'[j] \notin {"NONE", "PENDING_CAPTURE"}
        /\ owner'[j] \notin {"capture"} \X Workers
        /\ status'[j] = "CLAIMED" => owner'[j] # <<>>
    <3>1. CASE UNCHANGED <<status, owner>>
      BY <2>2, <3>1
    <3>2. CASE owner' = [owner EXCEPT ![j] = <<>>]
      BY <1>0, <2>1, <2>3, <2>2, <3>2
    <3> QED BY <2>3, <3>1, <3>2
  <2> HIDE DEF j
  <2> QED BY <1>0, <2>1, <2>4, <2>5, <2>6, <2>7, CaptureFrame
<1>11. ASSUME UNCHANGED <<srcTime, status, owner, captured, results, sent>>,
              \A v \in Workers : wk'[v].pc \in InAnalysis =>
                  wk[v].pc \in InAnalysis /\ wk'[v].job = wk[v].job
       PROVE  CaptureInv'
  <2>1. AnalysisCaptured' /\ StoryBeforeBaseline'
    BY <1>11, AnalysisCapturedFrame, BaselineFrame
  <2> QED BY <1>0, <1>11, <2>1 DEF CaptureInv, ClaimedHasOwner, CaptureOnce
<1>12. ASSUME NEW w \in Workers, NothingToCapture(w) PROVE CaptureInv'
  BY <1>0, <1>11, <1>12, WorkerFrame DEF NothingToCapture, Phases, InAnalysis
<1>13. ASSUME NEW w \in Workers, CaptureLeaseLost(w) \/ EndTick(w) \/ Crash(w)
                                   \/ IdentityConflict(w)
       PROVE  CaptureInv'
  BY <1>0, <1>11, <1>13, WorkerFrame DEF CaptureLeaseLost, EndTick, Crash, IdentityConflict
<1>14. ASSUME NEW w \in Workers, NEW m \in Models, LoadBundle(w, m) PROVE CaptureInv'
  <2>1. \A v \in Workers : wk'[v].pc \in InAnalysis =>
            wk[v].pc \in InAnalysis /\ wk'[v].job = wk[v].job
    BY <1>0, <1>14 DEF LoadBundle, InAnalysis
  <2> QED BY <1>11, <1>14, <2>1 DEF LoadBundle
<1>15. ASSUME NEW w \in Workers, BeginProviderAttempt(w) PROVE CaptureInv'
  BY <1>0, <1>11, <1>15, WorkerFrame DEF BeginProviderAttempt, Phases, InAnalysis
<1>16. ASSUME NEW w \in Workers, Answer(w) PROVE CaptureInv'
  BY <1>0, <1>11, <1>16, WorkerFrame DEF Answer, Phases, InAnalysis
<1>17. ASSUME \/ \E time \in E1Times : IngestOrphanE1(time)
              \/ \E j \in Jobs : Elapse(j)
              \/ \E s \in Stories, d \in Decisions : CloseStory(s, d)
              \/ UNCHANGED vars
       PROVE  CaptureInv'
  BY <1>11, <1>17 DEF IngestOrphanE1, Elapse, CloseStory, vars
<1> QED
  BY <1>2, <1>3, <1>4, <1>5, <1>6, <1>7, <1>8, <1>9, <1>10, <1>12, <1>13, <1>14,
     <1>15, <1>16, <1>17 DEF Next, IngestStep, CaptureStep, AnalysisStep

\* No job is captured twice, and none is analysed or completed uncaptured.
THEOREM CapturedOnce == Spec => []CaptureOnce
<1>1. CaptureInv => CaptureOnce
  BY DEF CaptureInv
<1> QED BY CaptureInit, CaptureStepInv, <1>1, PTL DEF Spec

----------------------------------------------------------------------------
(* One row per job *)

OneRowEach ==
    /\ \A j \in Jobs : status[j] # "NONE" <=> \E i \in DOMAIN queue : queue[i] = j
    /\ \A i, k \in DOMAIN queue : queue[i] = queue[k] => i = k

\* A step that enqueues nothing, and gives no absent job a status, adds no row.
LEMMA QueueFrame ==
    ASSUME OneRowEach, UNCHANGED queue,
           \A j \in Jobs : status[j] # "NONE" <=> status'[j] # "NONE"
    PROVE  OneRowEach'
BY DEF OneRowEach

\* A job that did not exist gets the last row of the table.
LEMMA EnqueueAddsRow ==
    ASSUME TypeInv, OneRowEach, NEW j \in Jobs, status[j] = "NONE", Enqueue(j)
    PROVE  OneRowEach'
<1> DEFINE n == Len(queue)
<1>1. /\ n \in Nat /\ DOMAIN queue = 1..n /\ DOMAIN queue' = 1..(n + 1)
      /\ queue'[n + 1] = j
      /\ \A i \in 1..n : queue'[i] = queue[i]
  BY DEF Enqueue, TypeInv, RowsTyped
<1>2. /\ status'[j] # "NONE"
      /\ \A i \in Jobs \ {j} : status'[i] = status[i]
  BY DEF Enqueue, TypeInv, RowsTyped
<1>3. \A i \in 1..n : queue[i] # j
  BY <1>1 DEF OneRowEach
<1>4. ASSUME NEW i \in Jobs
      PROVE  status'[i] # "NONE" <=> \E k \in 1..(n + 1) : queue'[k] = i
  <2>1. CASE i = j
    <3>1. n + 1 \in 1..(n + 1)
      BY <1>1
    <3> QED BY <1>1, <1>2, <2>1, <3>1
  <2>2. CASE i # j
    <3>1. status[i] # "NONE" <=> \E k \in 1..n : queue[k] = i
      BY <1>1 DEF OneRowEach
    <3>2. \A k \in 1..(n + 1) : k \in 1..n \/ k = n + 1
      BY <1>1
    <3>3. 1..n \subseteq 1..(n + 1)
      BY <1>1
    <3> HIDE DEF n
    <3> QED BY <1>1, <1>2, <2>2, <3>1, <3>2, <3>3
  <2> QED BY <2>1, <2>2
<1>5. ASSUME NEW i \in 1..(n + 1), NEW k \in 1..(n + 1), queue'[i] = queue'[k]
      PROVE  i = k
  <2>1. (i \in 1..n \/ i = n + 1) /\ (k \in 1..n \/ k = n + 1)
    BY <1>1
  <2>2. \A a, b \in 1..n : queue[a] = queue[b] => a = b
    BY <1>1 DEF OneRowEach
  <2> HIDE DEF n
  <2> QED BY <1>1, <1>3, <1>5, <2>1, <2>2
<1> QED BY <1>1, <1>4, <1>5 DEF OneRowEach

\* Only an ingest that numbers a new job adds a row.
LEMMA RowStep ==
    ASSUME OrderInv, CaptureInv, OneRowEach, [Next]_vars
    PROVE  OneRowEach'
<1>0. TypeInv /\ status \in [Jobs -> Statuses]
  BY DEF OrderInv, TypeInv, RowsTyped
<1>1. ASSUME NEW s \in Stories, NEW time \in LiqTimes, IngestLiq(s, time)
      PROVE  OneRowEach'
  <2>1. <<s, 0>> \in Jobs /\ status[<<s, 0>>] = "NONE"
    BY <1>1, MaxE1Assumption DEF IngestLiq, CaptureInv, StoryBeforeBaseline, Jobs
  <2> QED BY <1>0, <1>1, <2>1, EnqueueAddsRow DEF IngestLiq
<1>2. ASSUME NEW s \in Stories, NEW e \in 1..MaxE1, NEW time \in E1Times,
             IngestE1(s, e, time)
      PROVE  OneRowEach'
  <2>1. <<s, e>> \in Jobs /\ status[<<s, e>>] = "NONE"
    BY <1>2, MaxE1Assumption DEF IngestE1, IsNextE1, Jobs
  <2> QED BY <1>0, <1>2, <2>1, EnqueueAddsRow DEF IngestE1
<1>3. ASSUME NEW j \in Jobs, status[j] # "NONE", NEW new \in Statuses \ {"NONE"},
             status' = [status EXCEPT ![j] = new], UNCHANGED queue
      PROVE  OneRowEach'
  BY <1>0, <1>3, QueueFrame
<1>4. ASSUME UNCHANGED <<queue, status>> PROVE OneRowEach'
  BY <1>4, QueueFrame
<1>5. ASSUME NEW w \in Workers, NEW j \in Jobs,
             RequeueExpired(w, j) \/ ClaimCapture(w, j) \/ ClaimNext(w, j)
      PROVE  OneRowEach'
  <2>1. /\ status[j] # "NONE" /\ UNCHANGED queue
        /\ \/ status' = [status EXCEPT ![j] = "PENDING_CAPTURE"]
           \/ status' = [status EXCEPT ![j] = "CLAIMED"]
    BY <1>5 DEF RequeueExpired, ClaimCapture, ClaimNext, First, CaptureExpired,
                CapturePending, AnalysisEligible
  <2> QED BY <1>3, <2>1 DEF Statuses
<1>6. ASSUME NEW w \in Workers, RecordCapture(w) \/ CaptureFailure(w)
      PROVE  OneRowEach'
  <2>1. wk[w].job \in Jobs
    BY <1>0, <1>6 DEF RecordCapture, CaptureFailure, TypeInv, WorkerHolds
  <2>2. /\ status[wk[w].job] # "NONE" /\ UNCHANGED queue
        /\ \/ status' = [status EXCEPT ![wk[w].job] = "CAPTURED"]
           \/ status' = [status EXCEPT ![wk[w].job] = "PENDING_CAPTURE"]
           \/ status' = [status EXCEPT ![wk[w].job] = "TECHNICAL_FAILURE"]
    BY <1>6 DEF RecordCapture, CaptureFailure, HoldsCapture
  <2> QED BY <1>3, <2>1, <2>2 DEF Statuses
<1>7. ASSUME NEW w \in Workers, Complete(w) \/ TechnicalFailure(w)
      PROVE  OneRowEach'
  <2>1. wk[w].pc \in InAnalysis
    BY <1>7 DEF Complete, TechnicalFailure, InAnalysis
  <2>2. wk[w].job \in Jobs /\ status[wk[w].job] # "NONE"
    BY <1>0, <2>1 DEF TypeInv, WorkerHolds, InAnalysis, OrderInv, AnalysisPriors
  <2>3. /\ UNCHANGED queue
        /\ \/ status' = status
           \/ status' = [status EXCEPT ![wk[w].job] = "COMPLETED"]
           \/ status' = [status EXCEPT ![wk[w].job] = "TECHNICAL_FAILURE"]
    BY <1>7 DEF Complete, StoreResult, TechnicalFailure
  <2> QED BY <1>3, <1>4, <2>2, <2>3 DEF Statuses
<1>8. ASSUME NEW w \in Workers,
             \/ NothingToCapture(w) \/ CaptureLeaseLost(w) \/ EndTick(w) \/ Crash(w)
             \/ \E m \in Models : LoadBundle(w, m)
             \/ BeginProviderAttempt(w) \/ IdentityConflict(w)
             \/ Invoke(w) \/ Answer(w)
      PROVE  OneRowEach'
  BY <1>4, <1>8 DEF NothingToCapture, CaptureLeaseLost, EndTick, Crash, LoadBundle,
                    BeginProviderAttempt, IdentityConflict, Invoke, Answer
<1>9. ASSUME \/ \E time \in E1Times : IngestOrphanE1(time)
             \/ \E j \in Jobs : Elapse(j)
             \/ \E s \in Stories, d \in Decisions : CloseStory(s, d)
             \/ UNCHANGED vars
      PROVE  OneRowEach'
  BY <1>4, <1>9 DEF IngestOrphanE1, Elapse, CloseStory, vars
<1> QED
  BY <1>1, <1>2, <1>5, <1>6, <1>7, <1>8, <1>9
     DEF Next, IngestStep, CaptureStep, AnalysisStep

\* Every row, lease and process of the queue keeps its type, and no story gets
\* two jobs of one number, for any instance.
THEOREM TypeCorrect == Spec => []TypeOK
<1> DEFINE IInv == OrderInv /\ CaptureInv /\ OneRowEach
<1>1. Init => IInv
  <2>1. Init => OneRowEach
    BY DEF Init, OneRowEach
  <2> QED BY <2>1, OrderInit, CaptureInit
<1>2. IInv /\ [Next]_vars => IInv'
  BY OrderStep, CaptureStepInv, RowStep
<1>3. IInv => TypeOK
  BY DEF OrderInv, TypeInv, OneRowEach, TypeOK
<1> QED BY <1>1, <1>2, <1>3, PTL DEF Spec

----------------------------------------------------------------------------
(* One provider identity per job *)

\* From begin_provider_attempt on, a worker's manifest is the durable one.
BegunIsDurable ==
    \A w \in Workers : wk[w].pc \in {"begun", "invoked", "answered"} =>
        [outcome |-> "REQUESTED", manifest |-> wk[w].manifest] \in attempts[wk[w].job]

IdentityInv == TypeInv /\ BegunIsDurable /\ ProviderIdentity

\* A REQUESTED row is its manifest and nothing else.
LEMMA RequestedRow ==
    ASSUME RowsTyped, NEW j \in Jobs, NEW a \in Requested(j)
    PROVE  a = [outcome |-> "REQUESTED", manifest |-> a.manifest]
BY DEF RowsTyped, Attempts, Requested

\* Steps that add neither a call nor an attempt keep the identities.
LEMMA IdentityFrame ==
    ASSUME IdentityInv, TypeInv', UNCHANGED <<attempts, sent>>,
           \A v \in Workers : wk'[v].pc \in {"begun", "invoked", "answered"} =>
               /\ wk[v].pc \in {"begun", "invoked", "answered"}
               /\ wk'[v].job = wk[v].job /\ wk'[v].manifest = wk[v].manifest
    PROVE  IdentityInv'
BY DEF IdentityInv, BegunIsDurable, ProviderIdentity, Requested

LEMMA IdleIdentity ==
    ASSUME TypeInv, NEW w \in Workers, ToIdle(w)
    PROVE  \A v \in Workers : wk'[v].pc \in {"begun", "invoked", "answered"} =>
               /\ wk[v].pc \in {"begun", "invoked", "answered"}
               /\ wk'[v].job = wk[v].job /\ wk'[v].manifest = wk[v].manifest
BY DEF TypeInv, RowsTyped, ToIdle

\* Moving on within a tick changes the phase and nothing else.
LEMMA GotoEffect ==
    ASSUME TypeInv, NEW w \in Workers, NEW pc \in Phases, Goto(w, pc)
    PROVE  /\ wk'[w].pc = pc /\ wk'[w].job = wk[w].job
           /\ wk'[w].manifest = wk[w].manifest
           /\ \A v \in Workers \ {w} : wk'[v] = wk[v]
<1>1. wk[w] \in WorkerStates /\ wk \in [Workers -> WorkerStates]
  BY DEF TypeInv, RowsTyped
<1>2. wk' = [wk EXCEPT ![w] = [wk[w] EXCEPT !.pc = pc]]
  BY DEF Goto
<1> QED BY <1>1, <1>2 DEF WorkerStates

\* Rows that are not REQUESTED, and VALIDATED only with a durable manifest,
\* can be added freely.
LEMMA AttemptsGrow ==
    ASSUME IdentityInv, TypeInv', UNCHANGED sent, NEW j \in Jobs, NEW new,
           attempts' = [attempts EXCEPT ![j] = attempts[j] \cup new],
           \A a \in new : a.outcome # "REQUESTED",
           \A a \in new : a.outcome = "VALIDATED" =>
               [outcome |-> "REQUESTED", manifest |-> a.manifest] \in attempts[j],
           \A v \in Workers : wk'[v].pc \in {"begun", "invoked", "answered"} =>
               /\ wk[v].pc \in {"begun", "invoked", "answered"}
               /\ wk'[v].job = wk[v].job /\ wk'[v].manifest = wk[v].manifest
    PROVE  IdentityInv'
<1>1. /\ attempts'[j] = attempts[j] \cup new
      /\ \A i \in Jobs \ {j} : attempts'[i] = attempts[i]
      /\ \A i \in Jobs : attempts[i] \subseteq attempts'[i]
  BY DEF IdentityInv, TypeInv, RowsTyped
<1>2. \A i \in Jobs : Requested(i)' = Requested(i)
  BY <1>1 DEF Requested
<1>3. BegunIsDurable'
  <2> SUFFICES ASSUME NEW v \in Workers, wk'[v].pc \in {"begun", "invoked", "answered"}
               PROVE  [outcome |-> "REQUESTED", manifest |-> wk'[v].manifest]
                          \in attempts'[wk'[v].job]
    BY DEF BegunIsDurable
  <2>1. wk[v].job \in Jobs
    BY DEF IdentityInv, TypeInv, WorkerHolds
  <2> QED BY <1>1, <2>1 DEF IdentityInv, BegunIsDurable
<1>4. ProviderIdentity'
  <2> SUFFICES ASSUME NEW i \in Jobs
               PROVE  /\ \A a, b \in Requested(i)' : a = b
                      /\ \A c \in sent' : c[1] = i =>
                           [outcome |-> "REQUESTED", manifest |-> c[2]] \in attempts'[i]
                      /\ \A a \in attempts'[i] : a.outcome = "VALIDATED" =>
                           [outcome |-> "REQUESTED", manifest |-> a.manifest]
                               \in attempts'[i]
    BY DEF ProviderIdentity
  <2> QED BY <1>1, <1>2 DEF IdentityInv, ProviderIdentity
<1> QED BY <1>3, <1>4 DEF IdentityInv

LEMMA IdentityInit == Init => IdentityInv
<1> SUFFICES ASSUME Init PROVE IdentityInv
  OBVIOUS
<1>1. TypeInv
  BY TypeInit
<1> QED BY <1>1 DEF Init, IdentityInv, BegunIsDurable, ProviderIdentity, Requested

LEMMA IdentityStep == IdentityInv /\ [Next]_vars => IdentityInv'
<1> SUFFICES ASSUME IdentityInv, [Next]_vars PROVE IdentityInv'
  OBVIOUS
<1>0. /\ TypeInv /\ TypeInv' /\ RowsTyped /\ wk \in [Workers -> WorkerStates]
  BY TypeStep DEF IdentityInv, TypeInv, RowsTyped
<1>1. CASE \/ IngestStep
           \/ UNCHANGED vars
           \/ \E j \in Jobs : Elapse(j)
           \/ \E s \in Stories, d \in Decisions : CloseStory(s, d)
  <2>1. UNCHANGED <<attempts, sent, wk>>
    BY <1>1 DEF IngestStep, IngestLiq, IngestE1, IngestOrphanE1, Enqueue, Elapse,
                CloseStory, vars
  <2> QED BY <1>0, <2>1, IdentityFrame
<1>2. ASSUME NEW w \in Workers,
             (\E j \in Jobs : RequeueExpired(w, j)) \/ NothingToCapture(w)
      PROVE  IdentityInv'
  <2>1. Goto(w, "analyse") /\ UNCHANGED <<attempts, sent>>
    BY <1>2 DEF RequeueExpired, NothingToCapture
  <2>2. wk'[w].pc = "analyse" /\ \A v \in Workers \ {w} : wk'[v] = wk[v]
    BY <1>0, <2>1, GotoEffect DEF Phases
  <2> QED BY <1>0, <2>1, <2>2, IdentityFrame
<1>3. ASSUME NEW w \in Workers,
             \/ \E j \in Jobs : ClaimCapture(w, j) \/ ClaimNext(w, j)
             \/ RecordCapture(w)
             \/ \E m \in Models : LoadBundle(w, m)
      PROVE  IdentityInv'
  <2>1. UNCHANGED <<attempts, sent>>
        /\ wk'[w].pc \in {"capturing", "analyse", "claimed", "loaded"}
        /\ \A v \in Workers \ {w} : wk'[v] = wk[v]
    BY <1>0, <1>3 DEF ClaimCapture, RecordCapture, ClaimNext, LoadBundle
  <2> QED BY <1>0, <2>1, IdentityFrame
<1>4. ASSUME NEW w \in Workers,
             \/ CaptureFailure(w) \/ CaptureLeaseLost(w) \/ EndTick(w) \/ Crash(w)
             \/ IdentityConflict(w)
      PROVE  IdentityInv'
  <2>1. ToIdle(w) /\ UNCHANGED <<attempts, sent>>
    BY <1>4 DEF CaptureFailure, CaptureLeaseLost, EndTick, Crash, IdentityConflict
  <2> QED BY <1>0, <2>1, IdleIdentity, IdentityFrame
<1>5. ASSUME NEW w \in Workers, BeginProviderAttempt(w)
      PROVE  IdentityInv'
  <2>0. PICK j \in Jobs, m \in Manifests : j = wk[w].job /\ m = wk[w].manifest
    BY <1>0, <1>5 DEF BeginProviderAttempt, TypeInv, WorkerHolds
  <2> DEFINE row == [outcome |-> "REQUESTED", manifest |-> m]
  <2>1. j \in Jobs /\ m \in Manifests /\ IdentityMatches(j, m)
    BY <1>5, <2>0 DEF BeginProviderAttempt
  <2>2. Goto(w, "begun") /\ UNCHANGED sent
    BY <1>5 DEF BeginProviderAttempt
  <2>3. /\ wk'[w].pc = "begun" /\ wk'[w].job = j /\ wk'[w].manifest = m
        /\ \A v \in Workers \ {w} : wk'[v] = wk[v]
    BY <1>0, <2>0, <2>2, GotoEffect DEF Phases
  <2>4. row \in attempts'[j] /\ attempts'[j] = attempts[j] \cup {row}
        /\ \A i \in Jobs \ {j} : attempts'[i] = attempts[i]
    <3>1. CASE Requested(j) = {}
      BY <1>0, <1>5, <2>0, <3>1 DEF BeginProviderAttempt, RowsTyped
    <3>2. CASE Requested(j) # {}
      <4>1. PICK a \in Requested(j) : TRUE
        BY <3>2
      <4>2. a = row /\ a \in attempts[j]
        BY <1>0, <2>1, <4>1, RequestedRow DEF IdentityMatches, Requested
      <4> QED BY <1>0, <1>5, <2>0, <3>2, <4>2 DEF BeginProviderAttempt, RowsTyped
    <3> QED BY <3>1, <3>2
  <2>5. \A a \in Requested(j)' : a = row
    <3> SUFFICES ASSUME NEW a \in Requested(j)' PROVE a = row
      OBVIOUS
    <3>1. a \in attempts'[j] /\ a.outcome = "REQUESTED"
      BY DEF Requested
    <3>2. CASE a \in attempts[j]
      <4>1. a \in Requested(j)
        BY <3>1, <3>2 DEF Requested
      <4> QED BY <1>0, <2>1, <4>1, RequestedRow DEF IdentityMatches
    <3>3. CASE a \notin attempts[j]
      BY <2>4, <3>1, <3>3
    <3> QED BY <3>2, <3>3
  <2>6. \A i \in Jobs \ {j} : Requested(i)' = Requested(i)
    BY <2>4 DEF Requested
  <2>7. BegunIsDurable'
    <3> SUFFICES ASSUME NEW v \in Workers, wk'[v].pc \in {"begun", "invoked", "answered"}
                 PROVE  [outcome |-> "REQUESTED", manifest |-> wk'[v].manifest]
                            \in attempts'[wk'[v].job]
      BY DEF BegunIsDurable
    <3>1. CASE v = w
      BY <2>3, <2>4, <3>1
    <3>2. CASE v # w
      <4>1. wk'[v] = wk[v] /\ wk[v].job \in Jobs
        BY <1>0, <2>3, <3>2 DEF TypeInv, WorkerHolds
      <4>2. [outcome |-> "REQUESTED", manifest |-> wk[v].manifest] \in attempts[wk[v].job]
        BY <4>1 DEF IdentityInv, BegunIsDurable
      <4> HIDE DEF row
      <4> QED BY <2>4, <4>1, <4>2
    <3> QED BY <3>1, <3>2
  <2>8. ProviderIdentity'
    <3> SUFFICES ASSUME NEW i \in Jobs
                 PROVE  /\ \A a, b \in Requested(i)' : a = b
                        /\ \A c \in sent' : c[1] = i =>
                             [outcome |-> "REQUESTED", manifest |-> c[2]] \in attempts'[i]
                        /\ \A a \in attempts'[i] : a.outcome = "VALIDATED" =>
                             [outcome |-> "REQUESTED", manifest |-> a.manifest]
                                 \in attempts'[i]
      BY DEF ProviderIdentity
    <3>1. CASE i # j
      BY <2>2, <2>4, <2>6, <3>1 DEF IdentityInv, ProviderIdentity
    <3>2. CASE i = j
      <4>1. row.outcome # "VALIDATED"
        OBVIOUS
      <4> HIDE DEF row
      <4> QED BY <2>2, <2>4, <2>5, <3>2, <4>1 DEF IdentityInv, ProviderIdentity
    <3> QED BY <3>1, <3>2
  <2> QED BY <1>0, <2>7, <2>8 DEF IdentityInv
<1>6. ASSUME NEW w \in Workers, Invoke(w) \/ Answer(w)
      PROVE  IdentityInv'
  <2> DEFINE j == wk[w].job
             m == wk[w].manifest
  <2>1. /\ [outcome |-> "REQUESTED", manifest |-> m] \in attempts[j]
        /\ sent' \subseteq sent \cup {<<j, m>>}
        /\ attempts' = attempts
    BY <1>6 DEF Invoke, Answer, IdentityInv, BegunIsDurable
  <2>2. /\ wk'[w].job = j /\ wk'[w].manifest = m
        /\ \A v \in Workers \ {w} : wk'[v] = wk[v]
    BY <1>0, <1>6, GotoEffect DEF Invoke, Answer, Phases
  <2>3. BegunIsDurable'
    BY <2>1, <2>2 DEF IdentityInv, BegunIsDurable
  <2>4. ProviderIdentity'
    BY <2>1 DEF IdentityInv, ProviderIdentity, Requested
  <2> QED BY <1>0, <2>3, <2>4 DEF IdentityInv
<1>7. ASSUME NEW w \in Workers, Complete(w)
      PROVE  IdentityInv'
  <2> DEFINE j == wk[w].job
             new == {[outcome |-> "VALIDATED", manifest |-> wk[w].manifest]}
  <2>1. /\ j \in Jobs
        /\ [outcome |-> "REQUESTED", manifest |-> wk[w].manifest] \in attempts[j]
        /\ ToIdle(w) /\ UNCHANGED sent
    BY <1>0, <1>7 DEF Complete, TypeInv, WorkerHolds, IdentityInv, BegunIsDurable
  <2>2. attempts' = attempts \/ attempts' = [attempts EXCEPT ![j] = attempts[j] \cup new]
    BY <1>7 DEF Complete, StoreResult
  <2>3. /\ \A a \in new : a.outcome # "REQUESTED"
        /\ \A a \in new : [outcome |-> "REQUESTED", manifest |-> a.manifest] \in attempts[j]
    BY <2>1
  <2> HIDE DEF j, new
  <2> QED BY <1>0, <2>1, <2>2, <2>3, IdleIdentity, IdentityFrame, AttemptsGrow
<1>8. ASSUME NEW w \in Workers, TechnicalFailure(w)
      PROVE  IdentityInv'
  <2> DEFINE j == wk[w].job
             new == {[outcome |-> "TECHNICAL_FAILURE", manifest |-> a.manifest] :
                        a \in Requested(j)}
  <2>1. j \in Jobs /\ ToIdle(w) /\ UNCHANGED sent
    BY <1>0, <1>8 DEF TechnicalFailure, TypeInv, WorkerHolds
  <2>2. attempts' = [attempts EXCEPT ![j] = attempts[j] \cup new]
    BY <1>8 DEF TechnicalFailure
  <2>3. \A a \in new : a.outcome = "TECHNICAL_FAILURE"
    OBVIOUS
  <2> HIDE DEF j, new
  <2> QED BY <1>0, <2>1, <2>2, <2>3, IdleIdentity, AttemptsGrow
<1>9. ASSUME NEW w \in Workers, CaptureStep(w) PROVE IdentityInv'
  BY <1>2, <1>3, <1>4, <1>9 DEF CaptureStep
<1>10. ASSUME NEW w \in Workers, AnalysisStep(w) PROVE IdentityInv'
  BY <1>3, <1>4, <1>5, <1>6, <1>7, <1>8, <1>10 DEF AnalysisStep
<1>11. ASSUME NEW w \in Workers, Crash(w) PROVE IdentityInv'
  BY <1>4, <1>11
<1>12. ASSUME NEW w \in Workers, CaptureStep(w) \/ AnalysisStep(w) \/ Crash(w)
       PROVE  IdentityInv'
  BY <1>9, <1>10, <1>11, <1>12
<1> QED BY <1>1, <1>12 DEF Next

\* Every provider call and every validated Grade of a job carries the manifest
\* of its one durable attempt.
THEOREM OneIdentity == Spec => []ProviderIdentity
<1>1. IdentityInv => ProviderIdentity
  BY DEF IdentityInv
<1> QED BY IdentityInit, IdentityStep, <1>1, PTL DEF Spec

----------------------------------------------------------------------------
(* The prior Grades in a request *)

\* Manifest m of a request for j carries the latest summaries before j.
Carries(j, m) == LatestSummaries(0..(j[2] - 1)) \subseteq m.memory.done

\* A result never precedes the results of earlier deltas, and follows a request.
ResultsContiguous ==
    \A s \in Stories, k \in 0..MaxE1 : <<s, k>> \in results =>
        \A m \in 0..(k - 1) : <<s, m>> \in results

ResultHasRequest == \A j \in results : Requested(j) # {}

RequestsCarry == \A j \in Jobs : \A a \in Requested(j) : Carries(j, a.manifest)

\* A worker that loaded its bundle too late, when its successor's result was
\* stored, will find the successor's request and stop.
LoadedCarries ==
    \A w \in Workers : wk[w].pc = "loaded" =>
        Carries(wk[w].job, wk[w].manifest) \/ Requested(wk[w].job) # {}

PriorsInv ==
    /\ OrderInv /\ IdentityInv
    /\ ResultsContiguous /\ ResultHasRequest /\ RequestsCarry /\ LoadedCarries

\* Steps that store no result, make no request and load no bundle.
LEMMA PriorsQuiet ==
    ASSUME PriorsInv, OrderInv', IdentityInv', UNCHANGED results,
           \A j \in Jobs : Requested(j)' = Requested(j),
           \A v \in Workers : wk'[v].pc = "loaded" => wk'[v] = wk[v]
    PROVE  PriorsInv'
<1>1. ResultsContiguous' BY DEF PriorsInv, ResultsContiguous
<1>2. ResultHasRequest' /\ RequestsCarry'
  BY DEF PriorsInv, OrderInv, TypeInv, RowsTyped, ResultHasRequest, RequestsCarry, Carries
<1>3. LoadedCarries'
  <2> SUFFICES ASSUME NEW v \in Workers, wk'[v].pc = "loaded"
               PROVE  Carries(wk'[v].job, wk'[v].manifest) \/ Requested(wk[v].job)' # {}
    BY DEF LoadedCarries, Carries, Requested
  <2>1. wk'[v] = wk[v] /\ wk[v].job \in Jobs
    BY DEF PriorsInv, OrderInv, TypeInv, WorkerHolds
  <2> QED BY <2>1 DEF PriorsInv, LoadedCarries
<1> QED BY <1>1, <1>2, <1>3 DEF PriorsInv

\* What story_memory reads for a job whose predecessors are all stored.
LEMMA MemoryCarries ==
    ASSUME PriorsInv, NEW w \in Workers, wk[w].pc = "claimed", NEW j \in Jobs, j = wk[w].job,
           j \notin results, NEW model
    PROVE  Carries(j, [model |-> model, memory |-> Memory(j)])
<1>1. j[1] \in Stories /\ j[2] \in 0..MaxE1 /\ j = <<j[1], j[2]>>
  BY JobParts
<1>2. CASE j[2] = 0
  <2>1. 0..(j[2] - 1) = {} BY <1>2
  <2> QED BY <2>1 DEF Carries, LatestSummaries
<1>3. CASE j[2] # 0
  <2>1. \A m \in 0..(j[2] - 1) : <<j[1], m>> \in results
    BY DEF PriorsInv, OrderInv, AnalysisPriors, InAnalysis
  <2>2. ASSUME NEW m \in 0..MaxE1, <<j[1], m>> \in results PROVE m \in 0..(j[2] - 1)
    <3>1. CASE m > j[2]
      <4>1. j[2] \in 0..(m - 1) BY <1>1, <3>1, MaxE1Assumption
      <4> QED BY <1>1, <2>2, <4>1 DEF PriorsInv, ResultsContiguous
    <3>2. m # j[2] BY <1>1, <2>2
    <3> QED BY <1>1, <3>1, <3>2, MaxE1Assumption
  <2>3. ResultsOf(j[1]) = 0..(j[2] - 1)
    BY <1>1, <2>1, <2>2, MaxE1Assumption DEF ResultsOf
  <2>4. Memory(j).done = LatestSummaries(0..(j[2] - 1))
    BY <1>3, <2>3 DEF Memory
  <2> QED BY <2>4 DEF Carries
<1> QED BY <1>2, <1>3

LEMMA LoadKeepsPriors ==
    ASSUME PriorsInv, OrderInv', IdentityInv', NEW w \in Workers, NEW m \in Models,
           LoadBundle(w, m)
    PROVE  PriorsInv'
<1>0. PICK j \in Jobs : j = wk[w].job
  BY DEF LoadBundle, PriorsInv, OrderInv, TypeInv, WorkerHolds
<1> DEFINE manifest == [model |-> m, memory |-> Memory(j)]
<1>1. /\ UNCHANGED <<results, attempts>> /\ wk[w].pc = "claimed"
      /\ wk' = [wk EXCEPT ![w] = [pc |-> "loaded", job |-> j, manifest |-> manifest]]
  BY <1>0 DEF LoadBundle
<1>2. PICK new : new = manifest OBVIOUS
<1>3. /\ wk'[w].job = j /\ wk'[w].manifest = new
      /\ \A v \in Workers \ {w} : wk'[v] = wk[v]
  BY <1>1, <1>2 DEF PriorsInv, OrderInv, TypeInv, RowsTyped
<1>4. Carries(j, new) \/ Requested(j) # {}
  <2>1. CASE j \in results BY <2>1 DEF PriorsInv, ResultHasRequest
  <2>2. CASE j \notin results BY <1>0, <1>1, <1>2, <2>2, MemoryCarries
  <2> QED BY <2>1, <2>2
<1> HIDE DEF manifest
<1>5. LoadedCarries'
  <2> SUFFICES ASSUME NEW v \in Workers, wk'[v].pc = "loaded"
               PROVE  Carries(wk'[v].job, wk'[v].manifest) \/ Requested(wk'[v].job) # {}
    BY <1>1 DEF LoadedCarries, Carries, Requested
  <2>1. CASE v = w BY <1>3, <1>4, <2>1
  <2>2. CASE v # w BY <1>3, <2>2 DEF PriorsInv, LoadedCarries
  <2> QED BY <2>1, <2>2
<1>6. ResultsContiguous' /\ ResultHasRequest' /\ RequestsCarry'
  BY <1>1 DEF PriorsInv, ResultsContiguous, ResultHasRequest, RequestsCarry, Requested, Carries
<1> QED BY <1>5, <1>6 DEF PriorsInv

LEMMA BeginKeepsPriors ==
    ASSUME PriorsInv, OrderInv', IdentityInv', NEW w \in Workers, BeginProviderAttempt(w)
    PROVE  PriorsInv'
<1>0. PICK j \in Jobs, m \in Manifests : j = wk[w].job /\ m = wk[w].manifest
  BY DEF BeginProviderAttempt, PriorsInv, OrderInv, TypeInv, WorkerHolds
<1> DEFINE row == [outcome |-> "REQUESTED", manifest |-> m]
<1>1. /\ UNCHANGED results /\ wk[w].pc = "loaded" /\ Goto(w, "begun")
      /\ attempts' = [attempts EXCEPT ![j] = IF Requested(j) = {} THEN @ \cup {row} ELSE @]
      /\ TypeInv /\ RowsTyped
  BY <1>0 DEF BeginProviderAttempt, PriorsInv, OrderInv, TypeInv
<1>2. /\ \A i \in Jobs \ {j} : Requested(i)' = Requested(i)
      /\ Requested(j)' = IF Requested(j) = {} THEN {row} ELSE Requested(j)
  BY <1>1 DEF Requested, RowsTyped
<1>3. wk'[w].pc = "begun" /\ \A v \in Workers \ {w} : wk'[v] = wk[v]
  BY <1>1, GotoEffect DEF Phases
<1>4. RequestsCarry'
  <2>1. CASE Requested(j) = {}
    <3>1. Carries(j, m) BY <1>0, <1>1, <2>1 DEF PriorsInv, LoadedCarries
    <3>2. \A a \in Requested(j)' : a.manifest = m BY <1>2, <2>1
    <3> QED BY <1>2, <3>1, <3>2 DEF PriorsInv, RequestsCarry, Carries
  <2>2. CASE Requested(j) # {}
    BY <1>2, <2>2 DEF PriorsInv, RequestsCarry, Carries
  <2> QED BY <2>1, <2>2
<1>5. ResultsContiguous' /\ ResultHasRequest'
  BY <1>1, <1>2 DEF PriorsInv, ResultsContiguous, ResultHasRequest, RowsTyped
<1>6. LoadedCarries'
  <2> SUFFICES ASSUME NEW v \in Workers, wk'[v].pc = "loaded"
               PROVE  Carries(wk'[v].job, wk'[v].manifest) \/ Requested(wk[v].job)' # {}
    BY <1>3 DEF LoadedCarries, Carries, Requested
  <2>1. wk'[v] = wk[v] /\ wk[v].job \in Jobs
    BY <1>1, <1>3 DEF TypeInv, WorkerHolds
  <2>2. Requested(wk[v].job) # {} => Requested(wk[v].job)' # {}
    BY <1>2, <2>1
  <2> QED BY <2>1, <2>2 DEF PriorsInv, LoadedCarries
<1> QED BY <1>4, <1>5, <1>6 DEF PriorsInv

\* Rows that are not REQUESTED leave the requests alone.
LEMMA SameRequests ==
    ASSUME RowsTyped, NEW j \in Jobs, NEW new, \A a \in new : a.outcome # "REQUESTED",
           attempts' = [attempts EXCEPT ![j] = attempts[j] \cup new]
    PROVE  \A i \in Jobs : Requested(i)' = Requested(i)
  BY DEF RowsTyped, Requested

LEMMA CompleteKeepsPriors ==
    ASSUME PriorsInv, OrderInv', IdentityInv', NEW w \in Workers, Complete(w)
    PROVE  PriorsInv'
<1>0. PICK j \in Jobs : j = wk[w].job
  BY DEF Complete, PriorsInv, OrderInv, TypeInv, WorkerHolds
<1>1. /\ RowsTyped /\ TypeInv /\ ToIdle(w) /\ wk[w].pc = "answered"
      /\ j[1] \in Stories /\ j[2] \in 0..MaxE1 /\ j = <<j[1], j[2]>>
  BY JobParts DEF Complete, PriorsInv, OrderInv, TypeInv
<1>2. \A v \in Workers : wk'[v].pc = "loaded" => wk'[v] = wk[v]
  BY <1>1 DEF ToIdle, RowsTyped
<1>3. CASE j \in results
  <2>1. UNCHANGED <<results, attempts>> BY <1>0, <1>3 DEF Complete
  <2> QED BY <1>2, <2>1, PriorsQuiet DEF Requested
<1>4. CASE j \notin results
  <2> DEFINE new == {[outcome |-> "VALIDATED", manifest |-> wk[w].manifest]}
  <2>1. /\ results' = results \cup {j} /\ Requested(j) # {}
        /\ attempts' = [attempts EXCEPT ![j] = attempts[j] \cup new]
    BY <1>0, <1>4 DEF Complete, StoreResult
  <2>2. \A a \in new : a.outcome # "REQUESTED" OBVIOUS
  <2> HIDE DEF new
  <2>3. \A i \in Jobs : Requested(i)' = Requested(i)
    BY <1>1, <2>1, <2>2, SameRequests
  <2>4. ResultsContiguous'
    <3> SUFFICES ASSUME NEW s \in Stories, NEW k \in 0..MaxE1, <<s, k>> \in results',
                        NEW m \in 0..(k - 1)
                 PROVE  <<s, m>> \in results'
      BY DEF ResultsContiguous
    <3>1. CASE <<s, k>> \in results
      BY <2>1, <3>1 DEF PriorsInv, ResultsContiguous
    <3>2. CASE <<s, k>> = j
      <4>1. \A i \in 0..(j[2] - 1) : <<j[1], i>> \in results
        BY <1>0, <1>1 DEF PriorsInv, OrderInv, AnalysisPriors, InAnalysis
      <4>2. s = j[1] /\ k = j[2] BY <3>2
      <4> QED BY <2>1, <4>1, <4>2
    <3> QED BY <2>1, <3>1, <3>2
  <2>5. ResultHasRequest' /\ RequestsCarry'
    <3>1. results \subseteq Jobs BY <1>1 DEF RowsTyped
    <3> QED BY <2>1, <2>3, <3>1 DEF PriorsInv, ResultHasRequest, RequestsCarry, Carries
  <2>6. LoadedCarries'
    <3> SUFFICES ASSUME NEW v \in Workers, wk'[v].pc = "loaded"
                 PROVE  Carries(wk'[v].job, wk'[v].manifest) \/ Requested(wk[v].job)' # {}
      BY <1>2 DEF LoadedCarries, Carries, Requested
    <3>1. wk'[v] = wk[v] /\ wk[v].job \in Jobs
      BY <1>1, <1>2 DEF TypeInv, WorkerHolds
    <3> QED BY <2>3, <3>1 DEF PriorsInv, LoadedCarries
  <2> QED BY <2>4, <2>5, <2>6 DEF PriorsInv
<1> QED BY <1>3, <1>4

LEMMA PriorsInit == Init => PriorsInv
<1>1. Init => ResultsContiguous /\ ResultHasRequest /\ RequestsCarry /\ LoadedCarries
  BY DEF Init, ResultsContiguous, ResultHasRequest, RequestsCarry, LoadedCarries, Requested
<1> QED BY <1>1, OrderInit, IdentityInit DEF PriorsInv

LEMMA PriorsStep == PriorsInv /\ [Next]_vars => PriorsInv'
<1> SUFFICES ASSUME PriorsInv, [Next]_vars PROVE PriorsInv'
  OBVIOUS
<1>0. /\ OrderInv' /\ IdentityInv' /\ TypeInv /\ RowsTyped /\ wk \in [Workers -> WorkerStates]
  BY OrderStep, IdentityStep DEF PriorsInv, OrderInv, TypeInv, RowsTyped
<1>1. CASE \/ IngestStep
           \/ UNCHANGED vars
           \/ \E j \in Jobs : Elapse(j)
           \/ \E s \in Stories, d \in Decisions : CloseStory(s, d)
  <2>1. UNCHANGED <<attempts, results, wk>>
    BY <1>1 DEF IngestStep, IngestLiq, IngestE1, IngestOrphanE1, Enqueue, Elapse,
                CloseStory, vars
  <2> QED BY <1>0, <2>1, PriorsQuiet DEF Requested
<1>2. ASSUME NEW w \in Workers, CaptureStep(w) PROVE PriorsInv'
  <2>1. UNCHANGED <<attempts, results>>
    BY <1>2 DEF CaptureStep, RequeueExpired, ClaimCapture, NothingToCapture, RecordCapture,
                CaptureFailure, CaptureLeaseLost
  <2>2. \A v \in Workers : wk'[v].pc = "loaded" => wk'[v] = wk[v]
    <3>1. CASE (\E j \in Jobs : RequeueExpired(w, j)) \/ NothingToCapture(w)
      BY <1>0, <3>1, GotoEffect DEF RequeueExpired, NothingToCapture, Phases
    <3>2. CASE (\E j \in Jobs : ClaimCapture(w, j)) \/ RecordCapture(w)
      BY <1>0, <3>2 DEF ClaimCapture, RecordCapture
    <3>3. CASE CaptureFailure(w) \/ CaptureLeaseLost(w)
      BY <1>0, <3>3 DEF CaptureFailure, CaptureLeaseLost, ToIdle
    <3> QED BY <1>2, <3>1, <3>2, <3>3 DEF CaptureStep
  <2> QED BY <1>0, <2>1, <2>2, PriorsQuiet DEF Requested
<1>3. ASSUME NEW w \in Workers,
             \/ \E j \in Jobs : ClaimNext(w, j)
             \/ EndTick(w) \/ IdentityConflict(w) \/ Invoke(w) \/ Answer(w) \/ Crash(w)
      PROVE  PriorsInv'
  <2>1. UNCHANGED <<attempts, results>>
    BY <1>3 DEF ClaimNext, EndTick, IdentityConflict, Invoke, Answer, Crash
  <2>2. \A v \in Workers : wk'[v].pc = "loaded" => wk'[v] = wk[v]
    <3>1. CASE Invoke(w) \/ Answer(w)
      BY <1>0, <3>1, GotoEffect DEF Invoke, Answer, Phases
    <3>2. CASE EndTick(w) \/ IdentityConflict(w) \/ Crash(w)
      BY <1>0, <3>2 DEF EndTick, IdentityConflict, Crash, ToIdle
    <3>3. CASE \E j \in Jobs : ClaimNext(w, j)
      BY <1>0, <3>3 DEF ClaimNext
    <3> QED BY <1>3, <3>1, <3>2, <3>3
  <2> QED BY <1>0, <2>1, <2>2, PriorsQuiet DEF Requested
<1>4. ASSUME NEW w \in Workers, TechnicalFailure(w) PROVE PriorsInv'
  <2>0. PICK j \in Jobs : j = wk[w].job
    BY <1>0, <1>4 DEF TechnicalFailure, TypeInv, WorkerHolds
  <2> DEFINE new == {[outcome |-> "TECHNICAL_FAILURE", manifest |-> a.manifest] :
                        a \in Requested(j)}
  <2>1. /\ attempts' = [attempts EXCEPT ![j] = attempts[j] \cup new]
        /\ UNCHANGED results /\ ToIdle(w)
    BY <1>4, <2>0 DEF TechnicalFailure
  <2>2. \A a \in new : a.outcome # "REQUESTED" OBVIOUS
  <2> HIDE DEF new
  <2>3. \A v \in Workers : wk'[v].pc = "loaded" => wk'[v] = wk[v]
    BY <1>0, <2>1 DEF ToIdle
  <2> QED BY <1>0, <2>1, <2>2, <2>3, SameRequests, PriorsQuiet
<1>5. ASSUME NEW w \in Workers, AnalysisStep(w) PROVE PriorsInv'
  BY <1>0, <1>3, <1>4, <1>5, LoadKeepsPriors, BeginKeepsPriors, CompleteKeepsPriors
     DEF AnalysisStep
<1> QED BY <1>1, <1>2, <1>3, <1>5 DEF Next

\* Every request that reaches the provider carries the latest Grades before
\* it, although bundles are loaded while other workers store and fail jobs.
THEOREM PriorsSent == Spec => []RequestCarriesPriors
<1>1. PriorsInv => RequestCarriesPriors
  <2> SUFFICES ASSUME PriorsInv, NEW c \in sent
               PROVE  LatestSummaries(0..(c[1][2] - 1)) \subseteq c[2].memory.done
    BY DEF RequestCarriesPriors
  <2>1. PICK j \in Jobs, m \in Manifests : c = <<j, m>>
    BY DEF PriorsInv, OrderInv, TypeInv, RowsTyped
  <2>2. [outcome |-> "REQUESTED", manifest |-> m] \in Requested(j)
    BY <2>1 DEF PriorsInv, IdentityInv, ProviderIdentity, Requested
  <2>3. Carries(j, m)
    BY <2>2 DEF PriorsInv, RequestsCarry
  <2> QED BY <2>1, <2>3 DEF Carries
<1> QED BY PriorsInit, PriorsStep, <1>1, PTL DEF Spec

----------------------------------------------------------------------------
(* The story an E1 joins *)

\* An E1 that becomes a job joins a story that is open and that no known LIQ
\* event separates from its bar.
LEMMA JoinsNewest ==
    ASSUME TypeInv, [Next]_vars, NEW s \in Stories, NEW k \in 1..MaxE1, NEW time \in E1Times,
           status[<<s, k>>] = "NONE", status'[<<s, k>>] # "NONE", e1Events[time] # e1Events'[time]
    PROVE  /\ ~Closed(s)
           /\ \A t \in Stories : ~(srcTime[s] < srcTime[t] /\ srcTime[t] < time)
<1>0. RowsTyped /\ (\A t \in Stories : srcTime[t] \in Nat) /\ time \in Nat
  <2>1. RowsTyped BY DEF TypeInv
  <2>2. srcTime \in [Stories -> LiqTimes \cup {0}] BY <2>1 DEF RowsTyped
  <2>3. LiqTimes \cup {0} \subseteq Nat
    <3>1. \A x \in LiqTimes : x \in Nat BY TimesAssumption
    <3> QED BY <3>1
  <2>4. ASSUME NEW t \in Stories PROVE srcTime[t] \in Nat
    BY <2>2, <2>3
  <2>5. time \in Nat BY TimesAssumption
  <2> QED BY <2>1, <2>4, <2>5
<1>1. PICK t \in Stories, m \in 1..MaxE1, e \in E1Times : IngestE1(t, m, e)
  <2>1. CASE IngestStep
    <3>1. ASSUME NEW t \in Stories, NEW e \in LiqTimes, IngestLiq(t, e) PROVE FALSE
      BY <3>1 DEF IngestLiq
    <3>2. ASSUME NEW e \in E1Times, IngestOrphanE1(e) PROVE FALSE
      BY <3>2 DEF IngestOrphanE1
    <3> QED BY <2>1, <3>1, <3>2 DEF IngestStep
  <2>2. CASE ~IngestStep
    <3>1. UNCHANGED e1Events
      <4>1. ASSUME NEW w \in Workers, CaptureStep(w) \/ AnalysisStep(w) \/ Crash(w)
            PROVE  UNCHANGED e1Events
        <5>1. CASE CaptureStep(w)
          BY <5>1 DEF CaptureStep, RequeueExpired, ClaimCapture, NothingToCapture,
                      RecordCapture, CaptureFailure, CaptureLeaseLost
        <5>2. CASE AnalysisStep(w)
          BY <5>2 DEF AnalysisStep, ClaimNext, EndTick, LoadBundle, BeginProviderAttempt,
                      IdentityConflict, Invoke, Answer, Complete, TechnicalFailure
        <5> QED BY <4>1, <5>1, <5>2 DEF Crash
      <4> QED BY <2>2, <4>1 DEF Next, CloseStory, Elapse, vars
    <3> QED BY <3>1
  <2> QED BY <2>1, <2>2
<1>2. /\ status' = [status EXCEPT ![<<t, m>>] = "PENDING_CAPTURE"]
      /\ e1Events' = [e1Events EXCEPT ![e] = "attached"]
      /\ IsLatestStory(t, e) /\ ~Closed(t)
  BY <1>1 DEF IngestE1, Enqueue, IsActiveStory
<1>3. <<s, k>> \in Jobs
  <2>1. k \in 0..MaxE1 BY MaxE1Assumption
  <2> QED BY <2>1 DEF Jobs
<1>4. <<s, k>> = <<t, m>> BY <1>0, <1>2, <1>3 DEF RowsTyped
<1>5. time = e BY <1>0, <1>2 DEF RowsTyped
<1>6. s = t BY <1>4
<1>7. ASSUME NEW u \in Stories, srcTime[s] < srcTime[u], srcTime[u] < time PROVE FALSE
  <2>1. u # s /\ srcTime[u] # 0 BY <1>0, <1>7
  <2>2. srcTime[u] < srcTime[s] \/ srcTime[u] = srcTime[s]
    BY <1>2, <1>5, <1>6, <1>7, <2>1 DEF IsLatestStory
  <2> QED BY <1>0, <1>7, <2>2
<1> QED BY <1>2, <1>6, <1>7

\* Closing the newest story never brings an older one back.
THEOREM JoinsNewestOnly == Spec => NewestStoryOnly
<1> DEFINE Joins ==
      \A s \in Stories, k \in 1..MaxE1, time \in E1Times :
          (status[<<s, k>>] = "NONE" /\ status'[<<s, k>>] # "NONE"
              /\ e1Events[time] # e1Events'[time]) =>
          /\ ~Closed(s)
          /\ \A t \in Stories : ~(srcTime[s] < srcTime[t] /\ srcTime[t] < time)
<1>1. TypeInv /\ [Next]_vars => Joins
  BY JoinsNewest
<1> QED BY TypeInit, TypeStep, <1>1, PTL DEF Spec, NewestStoryOnly

============================================================================
