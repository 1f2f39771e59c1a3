----------------------- MODULE CaptureDispatchProofs -----------------------
(***************************************************************************)
(* Proofs about the dispatch consumer, for any events, profiles, pins,     *)
(* timeframes and any number of deliveries, retries, crashes and touches:  *)
(* a completed dispatch has its whole bundle on disk, a picture shows what *)
(* it is filed under unless the operator touched the chart meanwhile, and  *)
(* the record of a dispatch is a store that is written once.               *)
(***************************************************************************)
EXTENDS CaptureDispatch, ChecksProofs

\* What stands for no record is none.
NeverIsNothing ==
    /\ \A a, b, c, d : <<a, b, c, d>> # Never
    /\ \A e, s, a, r : [event |-> e, status |-> s, attempts |-> a, result |-> r] # Never

----------------------------------------------------------------------------
(* What a passed check says *)

LEMMA SymbolPasses ==
    ASSUME NEW p, NEW s, SymbolFailure(p, s) = "OK"
    PROVE  s.alias[2] = p.symbol
<1>1. PICK checks : checks = <<
        <<s.alias \notin p.aliases \/ s.alias[2] # p.symbol, "WRONG_SYMBOL">>,
        <<~HeaderNames(s.header, "symbol", p.symbol), "WRONG_SYMBOL">>,
        <<s.alias[1] # p.feed \/ ~HeaderNames(s.header, "feed", p.feed), "WRONG_FEED">> >>
  OBVIOUS
<1>2. DOMAIN checks = 1 .. 3 /\ \A i \in 1 .. 3 : checks[i][2] # "OK" BY <1>1
<1>3. checks[1][1] <=> (s.alias \notin p.aliases \/ s.alias[2] # p.symbol) BY <1>1
<1>4. FirstFailure(checks) = "OK" BY <1>1 DEF SymbolFailure
<1>5. \A i \in 1 .. 3 : ~checks[i][1] BY <1>2, <1>4, NothingFailed
<1> QED BY <1>3, <1>5

LEMMA StatePasses ==
    ASSUME NEW p, NEW e, NEW s, NEW timeframe, NEW at, StateFailure(p, e, s, timeframe, at) = "OK"
    PROVE  /\ SymbolFailure(p, s) = "OK" /\ s.timeframe = timeframe
           /\ HeaderNames(s.header, "timeframe", timeframe)
<1> DEFINE checks == <<
        <<HasExpired(e, at), "SOURCE_EXPIRED">>,
        <<~s.ready, "PAGE_NOT_READY">>,
        <<~s.authenticated, "AUTH_UNUSABLE">>,
        <<s.modal, "MODAL_BLOCKING">>,
        <<~s.streaming, "STALE_CHART">>,
        <<s.url # p.url, "WRONG_TAB">>,
        <<s.layout # p.layout \/ s.charts # p.charts, "WRONG_LAYOUT">>,
        <<SymbolFailure(p, s) # "OK", SymbolFailure(p, s)>>,
        <<s.timeframe # timeframe \/ ~HeaderNames(s.header, "timeframe", timeframe),
          "WRONG_TIMEFRAME">>,
        <<~s.switchable, "MISSING_TIMEFRAME">>,
        <<s.bar + Duration[timeframe] <= e.adapter.bar, "STALE_CHART">>,
        <<s.bar > at, "STALE_CHART">> >>
<1>1. checks[8][1] <=> SymbolFailure(p, s) # "OK" OBVIOUS
<1>2. checks[8][2] = SymbolFailure(p, s) OBVIOUS
<1>3. DOMAIN checks = 1 .. 12 /\ \A i \in 1 .. 12 : checks[i][1] => checks[i][2] # "OK"
  BY <1>1, <1>2
<1>4. checks[9][1] <=> (s.timeframe # timeframe \/ ~HeaderNames(s.header, "timeframe", timeframe))
  OBVIOUS
<1>5. FirstFailure(checks) = "OK" BY DEF StateFailure
<1> HIDE DEF checks
<1>6. \A i \in 1 .. 12 : ~checks[i][1] BY <1>3, <1>5, NothingFailed
<1> QED BY <1>1, <1>4, <1>6

LEMMA ProfilePasses ==
    ASSUME NEW p, ProfileFailure(p) = "OK"
    PROVE  p.symbol = "XAUUSD"
<1>1. PICK checks : checks = <<
        <<p.symbol # "XAUUSD" \/ ~p.enabled, "WRONG_SYMBOL">>,
        <<p.feed # "ICMARKETS", "WRONG_FEED">>,
        <<~p.local, "PORT_MISMATCH">>,
        <<p.base # Base, "WRONG_TIMEFRAME">>,
        <<p.timeframes # Timeframes, "MISSING_TIMEFRAME">>,
        <<p.aliases = {}, "WRONG_SYMBOL">>,
        <<\E a \in p.aliases : a # <<p.feed, p.symbol>>, "WRONG_FEED">>,
        <<p.charts # 1, "WRONG_LAYOUT">> >>
  OBVIOUS
<1>2. DOMAIN checks = 1 .. 8 /\ \A i \in 1 .. 8 : checks[i][2] # "OK" BY <1>1
<1>3. checks[1][1] <=> (p.symbol # "XAUUSD" \/ ~p.enabled) BY <1>1
<1>4. FirstFailure(checks) = "OK" BY <1>1 DEF ProfileFailure
<1>5. \A i \in 1 .. 8 : ~checks[i][1] BY <1>2, <1>4, NothingFailed
<1> QED BY <1>3, <1>5

LEMMA ActivationPasses ==
    ASSUME NEW p, ActivationFailure(p) = "OK"
    PROVE  ProfileFailure(p) = "OK"
<1>1. PICK checks : checks = <<
        <<ProfileFailure(p) # "OK", "PROFILE_REFUSED">>,
        <<~p.active, "RUNTIME_ACTIVATION_DISABLED">> >>
  OBVIOUS
<1>2. DOMAIN checks = 1 .. 2 /\ \A i \in 1 .. 2 : checks[i][2] # "OK" BY <1>1
<1>3. checks[1][1] <=> ProfileFailure(p) # "OK" BY <1>1
<1>4. FirstFailure(checks) = "OK" BY <1>1 DEF ActivationFailure
<1>5. \A i \in 1 .. 2 : ~checks[i][1] BY <1>2, <1>4, NothingFailed
<1> QED BY <1>3, <1>5

LEMMA BeginPasses ==
    ASSUME BeginFailure = "OK"
    PROVE  ProfileFailure(Profile) = "OK"
<1>1. PICK checks : checks = <<
        <<ActivationFailure(Profile) # "OK", "RUNTIME_ACTIVATION_DISABLED">>,
        <<AnalysisReadyFailure(Event) # "OK", "SOURCE_INVALID">>,
        <<ChronologyFailure(Event, time) # "OK", "SOURCE_INVALID">>,
        <<probeFile, "DESTINATION_UNWRITABLE">> >>
  OBVIOUS
<1>2. DOMAIN checks = 1 .. 4 /\ \A i \in 1 .. 4 : checks[i][2] # "OK" BY <1>1
<1>3. checks[1][1] <=> ActivationFailure(Profile) # "OK" BY <1>1
<1>4. FirstFailure(checks) = "OK" BY <1>1 DEF BeginFailure
<1>5. \A i \in 1 .. 4 : ~checks[i][1] BY <1>2, <1>4, NothingFailed
<1> QED BY <1>3, <1>5, ActivationPasses

LEMMA CompilePasses ==
    ASSUME NEW p, NEW e, NEW m, NEW created, RequestFailure(p, e, m, created) = "OK"
    PROVE  m.status = "COMPLETE" /\ m.restored /\ {i.timeframe : i \in m.artifacts} = Required
<1>1. PICK checks : checks = <<
        <<ProfileFailure(p) # "OK", "PROFILE_REFUSED">>,
        <<AnalysisReadyFailure(e) # "OK", "SOURCE_INVALID">>,
        <<HasExpired(e, created), "SOURCE_EXPIRED">>,
        <<m.event # e.id, "CONTRACT_COMPILATION_FAILURE">>,
        <<m.status # "COMPLETE" \/ m.failed, "PARTIAL_CAPTURE">>,
        <<~m.restored, "WRONG_TIMEFRAME">>,
        <<\E i, j \in m.artifacts : i # j /\ i.timeframe = j.timeframe, "PARTIAL_CAPTURE">>,
        <<{i.timeframe : i \in m.artifacts} # Required, "MISSING_TIMEFRAME">>,
        <<HasExpired(e, m.finished), "SOURCE_EXPIRED">>,
        <<created < m.finished, "CONTRACT_COMPILATION_FAILURE">> >>
  OBVIOUS
<1>2. DOMAIN checks = 1 .. 10 /\ \A i \in 1 .. 10 : checks[i][2] # "OK" BY <1>1
<1>3. /\ checks[5][1] <=> (m.status # "COMPLETE" \/ m.failed)
      /\ checks[6][1] <=> ~m.restored
      /\ checks[8][1] <=> {i.timeframe : i \in m.artifacts} # Required
  BY <1>1
<1>4. FirstFailure(checks) = "OK" BY <1>1 DEF RequestFailure
<1>5. \A i \in 1 .. 10 : ~checks[i][1] BY <1>2, <1>4, NothingFailed
<1> QED BY <1>3, <1>5

LEMMA ManifestVerifies ==
    ASSUME NEW dir, dir.manifest.status \notin {"NONE", "TORN"},
           dir.manifest.artifacts \subseteq dir.images
    PROVE  ManifestFailure(dir) = "OK"
<1>1. PICK checks : checks = <<
        <<dir.manifest.status = "NONE", "ARTIFACT_MISSING">>,
        <<dir.manifest.status = "TORN", "JSON_REFUSED">>,
        <<\E i \in dir.manifest.artifacts : i \notin dir.images, "ARTIFACT_HASH_MISMATCH">> >>
  OBVIOUS
<1>2. DOMAIN checks = 1 .. 3 BY <1>1
<1>3. /\ checks[1][1] <=> dir.manifest.status = "NONE"
      /\ checks[2][1] <=> dir.manifest.status = "TORN"
      /\ checks[3][1] <=> \E i \in dir.manifest.artifacts : i \notin dir.images
  BY <1>1
<1>4. \A i \in DOMAIN checks : ~checks[i][1] BY <1>2, <1>3
<1> QED BY <1>1, <1>4, AllPassed DEF ManifestFailure

LEMMA NothingRefused ==
    ASSUME NEW e, NEW retry, RefusalOf(e, retry) = "OK"
    PROVE  dispatch # Never => dispatch.event = e
<1>1. PICK checks : checks = <<
        <<AnalysisReadyFailure(EventOf[e]) # "OK", "SOURCE_INVALID">>,
        <<dispatch # Never /\ dispatch.event # e, "DISPATCH_CONFLICT">>,
        <<dispatch # Never /\ \E r \in RetryCounts : retry <= r, "RETRY_SEQUENCE_INVALID">> >>
  OBVIOUS
<1>2. DOMAIN checks = 1 .. 3 /\ \A i \in 1 .. 3 : checks[i][2] # "OK" BY <1>1
<1>3. checks[2][1] <=> (dispatch # Never /\ dispatch.event # e) BY <1>1
<1>4. FirstFailure(checks) = "OK" BY <1>1 DEF RefusalOf
<1>5. \A i \in 1 .. 3 : ~checks[i][1] BY <1>2, <1>4, NothingFailed
<1> QED BY <1>3, <1>5

\* A chart that was verified shows the interval in its series and its header,
\* and the symbol of the profile.
LEMMA VerifiedShows ==
    ASSUME NEW p, NEW e, NEW timeframe, NEW at, StateFailure(p, e, Inspect, timeframe, at) = "OK"
    PROVE  chart.timeframe = timeframe /\ chart.header = timeframe /\ chart.symbol = p.symbol
<1>1. /\ SymbolFailure(p, Inspect) = "OK" /\ Inspect.timeframe = timeframe
      /\ HeaderNames(Inspect.header, "timeframe", timeframe)
  BY StatePasses
<1>2. Inspect.alias[2] = p.symbol BY <1>1, SymbolPasses
<1>3. Inspect.timeframe = chart.timeframe /\ Inspect.alias[2] = chart.symbol BY DEF Inspect
<1>4. chart.header \in HeaderValues(Inspect.header, "timeframe")
  <2> DEFINE shown == [visible |-> TRUE, kind |-> "timeframe", value |-> chart.header]
  <2>1. shown \in Inspect.header.candidates BY DEF Inspect
  <2>2. shown.visible /\ shown.kind = "timeframe" /\ shown.value = chart.header OBVIOUS
  <2> HIDE DEF shown
  <2> QED BY <2>1, <2>2 DEF HeaderValues
<1>5. HeaderValues(Inspect.header, "timeframe") = {timeframe} BY <1>1 DEF HeaderNames
<1> QED BY <1>1, <1>2, <1>3, <1>4, <1>5

----------------------------------------------------------------------------
(* The invariant *)

CaptureFields ==
    {"pc", "event", "retry", "profile", "pin", "started", "at", "stable", "polls", "touched",
     "failed", "taken", "restoring", "restored"}

ChartFields == {"symbol", "timeframe", "header"}
DirectoryFields == {"images", "manifest", "bundle", "torn"}

\* The directory of an attempt holds what its manifest promises.
Good(a) ==
    LET dir == store[a] IN
    /\ dir.manifest.status = "COMPLETE" /\ dir.manifest.restored
    /\ {i.timeframe : i \in dir.manifest.artifacts} = Required
    /\ dir.manifest.artifacts \subseteq dir.images

\* Every file of the bundle of an event is there, and whole.
Bundled(a, e) == ~store[a].torn /\ store[a].bundle = BundleFiles(e, store[a].manifest)

\* The chart still is what was verified, unless somebody touched it.
Verified ==
    /\ capture.touched \in Nat /\ capture.touched <= touches
    /\ capture.touched = touches =>
         chart.timeframe = Wanted /\ chart.header = Wanted /\ chart.symbol = "XAUUSD"

\* What the consumer may rely on: it works only on a dispatch that is not
\* complete, and each stage leaves on disk what the next one promises.
CaptureInv ==
    /\ DOMAIN capture = CaptureFields
    /\ capture.pc # "idle" => This \in Attempts /\ capture.taken \subseteq store[This].images
    /\ capture.pc = "begin" => capture.taken = {}
    /\ capture.pc \notin {"idle", "answer"} => ~Completed
    /\ capture.pc = "answer" => Completed /\ dispatch.result = This
    /\ capture.pc \notin {"idle", "begin", "record", "answer"} => ProfileFailure(Profile) = "OK"
    /\ capture.pc = "shoot" => Verified
    /\ capture.pc = "compile" => store[This].manifest.artifacts \subseteq store[This].images
    /\ capture.pc = "bundle" => Good(This)
    /\ capture.pc = "record" /\ ~capture.failed => Good(This) /\ Bundled(This, capture.event)

StoreInv ==
    /\ time \in 0 .. MaxTime /\ touches \in Nat
    /\ DOMAIN store = Attempts
    /\ \A a \in Attempts : DOMAIN store[a] = DirectoryFields
    /\ DOMAIN chart = ChartFields
    /\ Completed => dispatch.result \in Attempts /\ Good(dispatch.result)
                    /\ Bundled(dispatch.result, dispatch.event)
    /\ PicturesMatch

DInv == CaptureInv /\ StoreInv

\* The consumer goes on with the same attempt.
SameAttempt ==
    /\ DOMAIN capture' = CaptureFields
    /\ capture'.event = capture.event /\ capture'.profile = capture.profile
    /\ capture'.retry = capture.retry /\ capture'.started = capture.started
    /\ capture'.taken = capture.taken

LEMMA RestingFields ==
    DOMAIN Resting = CaptureFields /\ Resting.pc = "idle" /\ Resting.taken = {}
  BY DEF Resting, CaptureFields

LEMMA SameDirectory ==
    ASSUME SameAttempt
    PROVE  This' = This /\ Event' = Event /\ Profile' = Profile
  BY DEF SameAttempt, This, Event, Profile

\* Everything but the consumer's own record stays.
LEMMA StoreStays ==
    ASSUME DInv, UNCHANGED <<dispatch, store, time, touches>>,
           UNCHANGED chart \/ DOMAIN chart' = ChartFields
    PROVE  StoreInv'
  BY DEF DInv, StoreInv, Completed, Good, Bundled, PicturesMatch, Attempts

LEMMA RestingKeeps ==
    ASSUME DInv, capture' = Resting,
           UNCHANGED <<dispatch, store, chart, time, touches>>
    PROVE  DInv'
<1>1. CaptureInv' BY RestingFields DEF CaptureInv
<1> QED BY <1>1, StoreStays DEF DInv

\* A consumer that goes on with what it has, to a stage that asks for nothing
\* new of the disk.
LEMMA MoveKeeps ==
    ASSUME DInv, UNCHANGED <<dispatch, store, time, touches>>,
           UNCHANGED chart \/ DOMAIN chart' = ChartFields,
           capture.pc \notin {"idle", "begin", "record", "answer"}, SameAttempt,
           capture'.pc \in {"preflight", "switch", "watch", "finalize"}
    PROVE  DInv'
<1>1. /\ This' = This /\ This \in Attempts /\ ~Completed' /\ ProfileFailure(Profile)' = "OK"
      /\ capture'.taken \subseteq store'[This].images
  BY SameDirectory DEF SameAttempt, DInv, CaptureInv, Completed
<1>2. CaptureInv' BY <1>1 DEF CaptureInv, SameAttempt
<1> QED BY <1>2, StoreStays DEF DInv

\* A failed attempt asks nothing of the disk.
LEMMA FailInv ==
    ASSUME CaptureInv, FailAttempt, UNCHANGED dispatch,
           capture.pc \notin {"idle", "answer"}
    PROVE  CaptureInv'
<1>1. /\ DOMAIN capture' = CaptureFields /\ capture'.pc = "record" /\ capture'.failed
      /\ capture'.taken = {} /\ capture'.started = 0
      /\ capture'.event = capture.event /\ capture'.profile = capture.profile
      /\ capture'.retry = capture.retry
  BY DEF FailAttempt, Resting, CaptureFields
<1>2. This' \in Attempts BY <1>1, BoundsAssumption DEF CaptureInv, This, Attempts
<1>3. ~Completed' BY DEF CaptureInv, Completed
<1> QED BY <1>1, <1>2, <1>3 DEF CaptureInv

LEMMA FailKeeps ==
    ASSUME DInv, FailAttempt, UNCHANGED <<dispatch, store, chart, time, touches>>,
           capture.pc \notin {"idle", "answer"}
    PROVE  DInv'
<1>1. CaptureInv' BY FailInv DEF DInv
<1> QED BY <1>1, StoreStays DEF DInv

LEMMA NothingMoves ==
    ASSUME DInv, UNCHANGED <<dispatch, store, chart, capture, time, touches>>
    PROVE  DInv'
<1>1. CaptureInv'
  BY DEF DInv, CaptureInv, This, Profile, Completed, Good, Bundled, Verified, Wanted
<1> QED BY <1>1, StoreStays DEF DInv

\* A consumer that goes on to write the bundle of a good directory.
LEMMA BundleKeeps ==
    ASSUME DInv, UNCHANGED <<dispatch, store, chart, time, touches>>,
           capture.pc = "compile", SameAttempt, capture'.pc = "bundle", Good(This)
    PROVE  DInv'
<1>1. This' = This /\ This \in Attempts /\ ~Completed' /\ ProfileFailure(Profile)' = "OK"
  BY SameDirectory DEF DInv, CaptureInv, Completed
<1>2. Good(This)' /\ capture'.taken \subseteq store'[This].images
  BY <1>1 DEF Good, SameAttempt, DInv, CaptureInv
<1>3. CaptureInv' BY <1>1, <1>2 DEF CaptureInv, SameAttempt
<1> QED BY <1>3, StoreStays DEF DInv

LEMMA StageMoves ==
    ASSUME DInv, NEW pc, capture' = Stage(pc)
    PROVE  SameAttempt /\ capture'.pc = pc
  BY DEF Stage, SameAttempt, DInv, CaptureInv, CaptureFields

LEMMA RestoreMoves ==
    ASSUME DInv, NEW failed, capture' = Restore(failed)
    PROVE  SameAttempt /\ capture'.pc = "switch"
  BY DEF Restore, Stage, SameAttempt, DInv, CaptureInv, CaptureFields

LEMMA AbandonMoves ==
    ASSUME DInv, capture' = Abandon
    PROVE  SameAttempt /\ capture'.pc \in {"switch", "finalize"}
  BY RestoreMoves, StageMoves DEF Abandon

----------------------------------------------------------------------------
(* Steps of the consumer *)

LEMMA AcceptKeeps ==
    ASSUME DInv, NEW e \in Events, NEW retry \in 0 .. MaxRetries, NEW requested,
           NEW p \in Profiles, NEW pin, Accept(e, retry, requested, p, pin)
    PROVE  DInv'
<1> DEFINE late == HasExpired(EventOf[e], requested)
           x == [Resting EXCEPT !.pc = IF late THEN "record" ELSE "begin", !.failed = late,
                                !.event = e, !.retry = retry, !.profile = p, !.pin = pin]
<1>1. capture' = x /\ UNCHANGED <<dispatch, store, chart, time, touches>> BY DEF Accept
<1>2. /\ x.pc \in {"record", "begin"} /\ (x.pc = "record" => x.failed)
      /\ x.taken = {} /\ DOMAIN x = CaptureFields
      /\ x.event = e /\ x.profile = p /\ x.retry = retry /\ x.started = 0
  BY DEF Resting, CaptureFields
<1> HIDE DEF x
<1>3. This' \in Attempts BY <1>1, <1>2, BoundsAssumption DEF This, Attempts
<1>4. ~Completed
  BY NothingRefused DEF Accept, Known, Completed
<1>5. CaptureInv'
  BY <1>1, <1>2, <1>3, <1>4 DEF CaptureInv, Completed
<1> QED BY <1>1, <1>5, StoreStays DEF DInv

LEMMA BeginKeeps ==
    ASSUME DInv, Begin
    PROVE  DInv'
<1>1. UNCHANGED <<dispatch, store, chart, time, touches>> /\ capture.pc = "begin"
  BY DEF Begin, Doing, bounds
<1>2. CASE BeginFailure # "OK" BY <1>1, <1>2, FailKeeps DEF Begin
<1>3. CASE BeginFailure = "OK"
  <2>1. capture' = [capture EXCEPT !.pc = "probe", !.started = time] BY <1>3 DEF Begin
  <2>2. /\ DOMAIN capture' = CaptureFields /\ capture'.pc = "probe" /\ capture'.started = time
        /\ capture'.event = capture.event /\ capture'.profile = capture.profile
        /\ capture'.retry = capture.retry /\ capture'.taken = {}
    BY <1>1, <2>1 DEF DInv, CaptureInv, CaptureFields
  <2>3. ProfileFailure(Profile)' = "OK" BY <1>3, <2>2, BeginPasses DEF Profile
  <2>4. This' \in Attempts BY <1>1, <2>2 DEF DInv, CaptureInv, StoreInv, This, Attempts
  <2>5. ~Completed' BY <1>1 DEF DInv, CaptureInv, Completed
  <2>6. CaptureInv' BY <2>2, <2>3, <2>4, <2>5 DEF CaptureInv
  <2> QED BY <1>1, <2>6, StoreStays DEF DInv
<1> QED BY <1>2, <1>3

LEMMA ProbeKeeps ==
    ASSUME DInv, Probe
    PROVE  DInv'
<1>1. UNCHANGED <<dispatch, store, chart, time, touches>> /\ capture.pc = "probe"
  BY DEF Probe, Doing, bounds
<1>2. CASE FailAttempt BY <1>1, <1>2, FailKeeps
<1>3. CASE capture' = [capture EXCEPT !.pc = "preflight"]
  <2>1. SameAttempt /\ capture'.pc = "preflight"
    BY <1>3 DEF SameAttempt, DInv, CaptureInv, CaptureFields
  <2> QED BY <1>1, <2>1, MoveKeeps
<1> QED BY <1>2, <1>3 DEF Probe

LEMMA PreflightKeeps ==
    ASSUME DInv, Preflight
    PROVE  DInv'
<1>1. UNCHANGED <<dispatch, store, chart, time, touches>> /\ capture.pc = "preflight"
  BY DEF Preflight, Doing, bounds
<1>2. \/ capture' = Undriven
      \/ capture' = Restore(TRUE)
      \/ capture' = [Stage("switch") EXCEPT !.at = 1]
  BY DEF Preflight
<1>3. SameAttempt /\ capture'.pc \in {"switch", "finalize"}
  <2>1. CASE capture' = Undriven
    BY <2>1 DEF Undriven, Stage, SameAttempt, DInv, CaptureInv, CaptureFields
  <2>2. CASE capture' = Restore(TRUE) BY <2>2, RestoreMoves
  <2>3. CASE capture' = [Stage("switch") EXCEPT !.at = 1]
    BY <2>3 DEF Stage, SameAttempt, DInv, CaptureInv, CaptureFields
  <2> QED BY <1>2, <2>1, <2>2, <2>3
<1> QED BY <1>1, <1>3, MoveKeeps

\* Only the consumer's own switch changes the chart here, and nothing has
\* been verified yet.
LEMMA SwitchKeeps ==
    ASSUME DInv, Switch \/ SwitchFails
    PROVE  DInv'
<1>1. UNCHANGED <<dispatch, store, time, touches>> /\ capture.pc = "switch"
  BY DEF Switch, SwitchFails, Doing, bounds
<1>2. DOMAIN chart' = ChartFields BY DEF Switch, SwitchFails, DInv, StoreInv, ChartFields
<1>3. SameAttempt /\ capture'.pc \in {"watch", "switch", "finalize"}
  <2>1. CASE Switch BY <2>1, StageMoves DEF Switch
  <2>2. CASE SwitchFails BY <2>2, AbandonMoves DEF SwitchFails
  <2> QED BY <2>1, <2>2
<1> QED BY <1>1, <1>2, <1>3, MoveKeeps

LEMMA InspectFailsKeeps ==
    ASSUME DInv, InspectFails
    PROVE  DInv'
<1>1. UNCHANGED <<dispatch, store, chart, time, touches>> /\ capture.pc = "watch"
  BY DEF InspectFails, Doing, bounds
<1>2. CASE capture' = Abandon BY <1>1, <1>2, AbandonMoves, MoveKeeps
<1>3. CASE capture' = [capture EXCEPT !.stable = 0, !.polls = @ + 1]
  <2>1. SameAttempt /\ capture'.pc = "watch"
    BY <1>1, <1>3 DEF SameAttempt, DInv, CaptureInv, CaptureFields
  <2> QED BY <1>1, <2>1, MoveKeeps
<1> QED BY <1>2, <1>3 DEF InspectFails

LEMMA ObserveKeeps ==
    ASSUME DInv, Observe
    PROVE  DInv'
<1> DEFINE stable == IF TransitionReady(Inspect, Wanted, time) THEN capture.stable + 1 ELSE 0
<1>1. UNCHANGED <<dispatch, store, chart, time, touches>> /\ capture.pc = "watch"
  BY DEF Observe, Doing, bounds
<1>2. \/ capture' = Abandon
      \/ capture' = [capture EXCEPT !.stable = stable, !.polls = @ + 1]
      \/ capture' = [Stage("finalize") EXCEPT !.restored = TRUE]
      \/ /\ StateFailure(Profile, Event, Inspect, Wanted, time) = "OK"
         /\ capture' = [Stage("shoot") EXCEPT !.touched = touches]
  BY DEF Observe
<1>3. CASE capture' = Abandon BY <1>1, <1>3, AbandonMoves, MoveKeeps
<1>4. CASE capture' = [capture EXCEPT !.stable = stable, !.polls = @ + 1]
  <2> HIDE DEF stable
  <2>1. SameAttempt /\ capture'.pc = "watch"
    BY <1>1, <1>4 DEF SameAttempt, DInv, CaptureInv, CaptureFields
  <2> QED BY <1>1, <2>1, MoveKeeps
<1>5. CASE capture' = [Stage("finalize") EXCEPT !.restored = TRUE]
  <2>1. SameAttempt /\ capture'.pc = "finalize"
    BY <1>5 DEF Stage, SameAttempt, DInv, CaptureInv, CaptureFields
  <2> QED BY <1>1, <2>1, MoveKeeps
<1>6. CASE /\ StateFailure(Profile, Event, Inspect, Wanted, time) = "OK"
           /\ capture' = [Stage("shoot") EXCEPT !.touched = touches]
  <2>1. ProfileFailure(Profile) = "OK" BY <1>1 DEF DInv, CaptureInv
  <2>2. chart.timeframe = Wanted /\ chart.header = Wanted /\ chart.symbol = "XAUUSD"
    BY <1>6, <2>1, VerifiedShows, ProfilePasses
  <2>3. /\ SameAttempt /\ capture'.pc = "shoot" /\ capture'.touched = touches
        /\ capture'.at = capture.at /\ capture'.restoring = capture.restoring
    BY <1>6 DEF Stage, SameAttempt, DInv, CaptureInv, CaptureFields
  <2>4. Verified' BY <1>1, <2>2, <2>3 DEF Verified, Wanted, DInv, StoreInv
  <2>5. /\ This' = This /\ This \in Attempts /\ ~Completed' /\ ProfileFailure(Profile)' = "OK"
        /\ capture'.taken \subseteq store'[This].images
    BY <1>1, <2>1, <2>3, SameDirectory DEF SameAttempt, DInv, CaptureInv, Completed
  <2>6. CaptureInv' BY <2>3, <2>4, <2>5 DEF CaptureInv, SameAttempt
  <2> QED BY <1>1, <2>6, StoreStays DEF DInv
<1> QED BY <1>2, <1>3, <1>4, <1>5, <1>6

\* A picture is taken of what was verified, or says that it was touched.
LEMMA ShootKeeps ==
    ASSUME DInv, Screenshot
    PROVE  DInv'
<1> DEFINE images == store[This].images \cup {Picture}
           next == IF capture.at < Len(Timeframes) THEN [Stage("switch") EXCEPT !.at = @ + 1]
                   ELSE Restore(HasExpired(Event, time))
<1>1. /\ UNCHANGED <<dispatch, chart, time, touches>> /\ capture.pc = "shoot"
      /\ store' = [store EXCEPT ![This].images = images]
      /\ capture' = [next EXCEPT !.taken = @ \cup {Picture}]
  BY DEF Screenshot, Doing, bounds
<1>2. /\ DOMAIN next = CaptureFields /\ next.pc = "switch"
      /\ next.event = capture.event /\ next.profile = capture.profile
      /\ next.retry = capture.retry /\ next.started = capture.started
      /\ next.taken = capture.taken
  BY DEF Restore, Stage, DInv, CaptureInv, CaptureFields
<1> HIDE DEF next
<1>3. /\ DOMAIN capture' = CaptureFields /\ capture'.pc = "switch"
      /\ capture'.event = capture.event /\ capture'.profile = capture.profile
      /\ capture'.retry = capture.retry /\ capture'.started = capture.started
      /\ capture'.taken = capture.taken \cup {Picture}
  BY <1>1, <1>2 DEF CaptureFields
<1>4. This \in Attempts /\ This' = This /\ Profile' = Profile
  BY <1>1, <1>3 DEF DInv, CaptureInv, This, Profile
<1>5. /\ DOMAIN store' = Attempts
      /\ \A a \in Attempts : DOMAIN store'[a] = DirectoryFields
      /\ store'[This].images = images
      /\ \A a \in Attempts : a # This => store'[a] = store[a]
  BY <1>1, <1>4 DEF DInv, StoreInv, DirectoryFields
<1>6. Picture.touched \/ (Picture.shows = Picture.timeframe /\ Picture.symbol = "XAUUSD")
  <2>1. Verified /\ touches \in Nat BY <1>1 DEF DInv, CaptureInv, StoreInv
  <2>2. touches > capture.touched \/ (chart.header = Wanted /\ chart.symbol = "XAUUSD")
    BY <2>1 DEF Verified
  <2>3. /\ Picture.touched = (touches > capture.touched) /\ Picture.timeframe = Wanted
        /\ Picture.shows = chart.header /\ Picture.symbol = chart.symbol
    BY DEF Picture
  <2> HIDE DEF Picture
  <2> QED BY ONLY <2>2, <2>3
<1> HIDE DEF images
<1>7. PicturesMatch'
  <2> SUFFICES ASSUME NEW a \in Attempts, NEW i \in store'[a].images
               PROVE  i.touched \/ (i.shows = i.timeframe /\ i.symbol = "XAUUSD")
    BY DEF PicturesMatch, Attempts
  <2>1. i \in store[a].images \/ i = Picture BY <1>4, <1>5 DEF images
  <2> QED BY <1>6, <2>1 DEF DInv, StoreInv, PicturesMatch
<1>8. ~Completed /\ ~Completed' BY <1>1 DEF DInv, CaptureInv, Completed
<1>9. StoreInv' BY <1>1, <1>5, <1>7, <1>8 DEF DInv, StoreInv
<1>10. capture'.taken \subseteq store'[This'].images
  BY <1>1, <1>3, <1>4, <1>5 DEF images, DInv, CaptureInv
<1>11. ProfileFailure(Profile)' = "OK" BY <1>1, <1>4 DEF DInv, CaptureInv
<1>12. CaptureInv' BY <1>3, <1>4, <1>8, <1>10, <1>11 DEF CaptureInv
<1> QED BY <1>9, <1>12 DEF DInv

\* The manifest names pictures that are in its directory.
LEMMA FinalizeKeeps ==
    ASSUME DInv, Finalize
    PROVE  DInv'
<1>1. UNCHANGED <<dispatch, chart, time, touches>> /\ capture.pc = "finalize"
  BY DEF Finalize, Doing, bounds
<1>2. CASE FailAttempt /\ UNCHANGED store BY <1>1, <1>2, FailKeeps
<1>3. CASE ~(FailAttempt /\ UNCHANGED store)
  <2>1. /\ store' = [store EXCEPT ![This].manifest = Manifest]
        /\ FailAttempt \/ capture' = [capture EXCEPT !.pc = "compile"]
    BY <1>3 DEF Finalize
  <2>2. Manifest.artifacts = capture.taken BY DEF Manifest
  <2>3. This \in Attempts BY <1>1 DEF DInv, CaptureInv
  <2>4. /\ DOMAIN store' = Attempts
        /\ \A a \in Attempts : DOMAIN store'[a] = DirectoryFields
        /\ \A a \in Attempts : store'[a].images = store[a].images
        /\ store'[This].manifest = Manifest
    BY <2>1, <2>3 DEF DInv, StoreInv, DirectoryFields
  <2>5. ~Completed /\ ~Completed' BY <1>1 DEF DInv, CaptureInv, Completed
  <2>6. PicturesMatch' BY <2>4 DEF DInv, StoreInv, PicturesMatch, Attempts
  <2>7. StoreInv' BY <1>1, <2>4, <2>5, <2>6 DEF DInv, StoreInv
  <2>8. CASE FailAttempt BY <1>1, <2>7, <2>8, FailInv DEF DInv
  <2>9. CASE capture' = [capture EXCEPT !.pc = "compile"]
    <3>1. SameAttempt /\ capture'.pc = "compile"
      BY <2>9 DEF SameAttempt, DInv, CaptureInv, CaptureFields
    <3>2. This' = This /\ ProfileFailure(Profile)' = "OK"
      BY <1>1, <3>1, SameDirectory DEF DInv, CaptureInv
    <3>3. capture'.taken \subseteq store'[This'].images
          /\ store'[This'].manifest.artifacts \subseteq store'[This'].images
      BY <1>1, <2>2, <2>3, <2>4, <3>1, <3>2 DEF SameAttempt, DInv, CaptureInv
    <3>4. CaptureInv' BY <2>3, <2>5, <3>1, <3>2, <3>3 DEF CaptureInv, SameAttempt
    <3> QED BY <2>7, <3>4 DEF DInv
  <2> QED BY <2>1, <2>8, <2>9
<1> QED BY <1>2, <1>3

\* The compiler passes only a manifest that is complete and restored.
LEMMA CompileKeeps ==
    ASSUME DInv, CompileRequest
    PROVE  DInv'
<1> DEFINE m == store[This].manifest
<1>1. UNCHANGED <<dispatch, store, chart, time, touches>> /\ capture.pc = "compile"
  BY DEF CompileRequest, Doing, bounds
<1>2. CASE FailAttempt BY <1>1, <1>2, FailKeeps
<1>3. CASE ~FailAttempt
  <2>1. RequestFailure(Profile, Event, m, m.finished) = "OK"
        /\ capture' = [capture EXCEPT !.pc = "bundle"]
    BY <1>3 DEF CompileRequest
  <2>2. Good(This)
    BY <1>1, <2>1, CompilePasses DEF Good, DInv, CaptureInv
  <2>3. SameAttempt /\ capture'.pc = "bundle"
    BY <2>1 DEF SameAttempt, DInv, CaptureInv, CaptureFields
  <2> QED BY <1>1, <2>2, <2>3, BundleKeeps
<1> QED BY <1>2, <1>3

\* A whole bundle was compared file by file.
LEMMA WriteBundleKeeps ==
    ASSUME DInv, WriteBundle
    PROVE  DInv'
<1> DEFINE files == BundleFiles(capture.event, store[This].manifest)
           longer == SubSeq(files, 1, Len(store[This].bundle) + 1)
<1>1. UNCHANGED <<dispatch, chart, time, touches>> /\ capture.pc = "bundle"
  BY DEF WriteBundle, Doing, bounds
<1>2. Good(This) /\ This \in Attempts BY <1>1 DEF DInv, CaptureInv
<1>3. CASE FailAttempt /\ UNCHANGED store BY <1>1, <1>3, FailKeeps
<1>4. CASE /\ ~store[This].torn /\ store[This].bundle = files
           /\ capture' = [capture EXCEPT !.pc = "record"] /\ UNCHANGED store
  <2>1. SameAttempt /\ capture'.pc = "record"
    BY <1>4 DEF SameAttempt, DInv, CaptureInv, CaptureFields
  <2>2. This' = This BY <2>1, SameDirectory
  <2>3. Good(This)' /\ Bundled(This, capture.event)'
    BY <1>2, <1>4, <2>1, <2>2 DEF Good, Bundled, SameAttempt
  <2>4. capture'.taken \subseteq store'[This'].images /\ ~Completed'
    BY <1>1, <1>4, <2>1, <2>2 DEF SameAttempt, DInv, CaptureInv, Completed
  <2>5. CaptureInv' BY <1>2, <2>1, <2>2, <2>3, <2>4 DEF CaptureInv, SameAttempt
  <2> QED BY <1>1, <1>4, <2>5, StoreStays DEF DInv
<1>5. CASE store' = [store EXCEPT ![This].bundle = longer] /\ UNCHANGED capture
  <2> HIDE DEF longer
  <2>1. This' = This /\ Profile' = Profile BY <1>5 DEF This, Profile
  <2>2. /\ DOMAIN store' = Attempts
        /\ \A a \in Attempts : /\ DOMAIN store'[a] = DirectoryFields
                               /\ store'[a].images = store[a].images
                               /\ store'[a].manifest = store[a].manifest
    BY <1>2, <1>5 DEF DInv, StoreInv, DirectoryFields
  <2>3. ~Completed /\ ~Completed' BY <1>1 DEF DInv, CaptureInv, Completed
  <2>4. PicturesMatch' BY <2>2 DEF DInv, StoreInv, PicturesMatch, Attempts
  <2>5. StoreInv' BY <1>1, <2>2, <2>3, <2>4 DEF DInv, StoreInv
  <2>6. Good(This)' BY <1>2, <2>1, <2>2 DEF Good
  <2>7. capture'.taken \subseteq store'[This'].images /\ ProfileFailure(Profile)' = "OK"
    BY <1>1, <1>2, <1>5, <2>1, <2>2 DEF DInv, CaptureInv
  <2>8. CaptureInv' BY <1>1, <1>2, <1>5, <2>1, <2>3, <2>6, <2>7 DEF DInv, CaptureInv
  <2> QED BY <2>5, <2>8 DEF DInv
<1> QED BY <1>3, <1>4, <1>5 DEF WriteBundle

\* What a completed record names was promised by the stages before it.
LEMMA RecordKeeps ==
    ASSUME NeverIsNothing, DInv, RecordAttempt
    PROVE  DInv'
<1>1. UNCHANGED <<store, chart, time, touches>> /\ capture.pc = "record"
  BY DEF RecordAttempt, Doing, bounds
<1>2. /\ dispatch'.status = Outcome /\ dispatch'.event = capture.event
      /\ dispatch'.result = IF Outcome = "COMPLETED" THEN This ELSE Never
      /\ dispatch' # Never
  BY DEF RecordAttempt, NeverIsNothing
<1>3. This \in Attempts BY <1>1 DEF DInv, CaptureInv
<1>4. CASE capture.failed
  <2>1. ~Completed' /\ capture' = Resting BY <1>2, <1>4 DEF Completed, Outcome, RecordAttempt
  <2>2. CaptureInv' BY <2>1, RestingFields DEF CaptureInv
  <2>3. StoreInv' BY <1>1, <2>1 DEF DInv, StoreInv, PicturesMatch, Attempts
  <2> QED BY <2>2, <2>3 DEF DInv
<1>5. CASE ~capture.failed
  <2>1. /\ Completed' /\ dispatch'.result = This
        /\ capture' = [capture EXCEPT !.pc = "answer"]
    BY <1>2, <1>5 DEF Completed, Outcome, RecordAttempt
  <2>2. SameAttempt /\ capture'.pc = "answer"
    BY <2>1 DEF SameAttempt, DInv, CaptureInv, CaptureFields
  <2>3. Good(This) /\ Bundled(This, capture.event) BY <1>1, <1>5 DEF DInv, CaptureInv
  <2>4. Good(dispatch.result)' /\ Bundled(dispatch.result, dispatch.event)'
    BY <1>1, <1>2, <2>1, <2>3 DEF Good, Bundled
  <2>5. StoreInv' BY <1>1, <1>3, <2>1, <2>4 DEF DInv, StoreInv, PicturesMatch, Attempts
  <2>6. This' = This /\ capture'.taken \subseteq store'[This'].images
    BY <1>1, <2>2, SameDirectory DEF SameAttempt, DInv, CaptureInv
  <2>7. CaptureInv' BY <1>3, <2>1, <2>2, <2>6 DEF CaptureInv, SameAttempt
  <2> QED BY <2>5, <2>7 DEF DInv
<1> QED BY <1>4, <1>5

\* Only files of an attempt that is not recorded as complete are torn.
LEMMA StopKeeps ==
    ASSUME DInv, Stop
    PROVE  DInv'
<1>1. UNCHANGED <<dispatch, chart, time, touches>> /\ capture' = Resting BY DEF Stop, bounds
<1>2. CASE UNCHANGED store BY <1>1, <1>2, RestingKeeps
<1>3. CASE ~UNCHANGED store
  <2>1. /\ capture.pc \in {"finalize", "bundle"}
        /\ \/ store' = [store EXCEPT ![This].manifest = TornManifest]
           \/ store' = [store EXCEPT ![This].torn = TRUE]
    BY <1>3 DEF Stop, MayTear, Doing
  <2>2. This \in Attempts /\ ~Completed' BY <1>1, <2>1 DEF DInv, CaptureInv, Completed
  <2>3. /\ DOMAIN store' = Attempts
        /\ \A a \in Attempts : DOMAIN store'[a] = DirectoryFields /\ store'[a].images = store[a].images
    BY <2>1, <2>2 DEF DInv, StoreInv, DirectoryFields
  <2>4. PicturesMatch' BY <2>3 DEF DInv, StoreInv, PicturesMatch, Attempts
  <2>5. StoreInv' BY <1>1, <2>2, <2>3, <2>4 DEF DInv, StoreInv
  <2>6. CaptureInv' BY <1>1, RestingFields DEF CaptureInv
  <2> QED BY <2>5, <2>6 DEF DInv
<1> QED BY <1>2, <1>3

LEMMA ConsumerKeeps ==
    ASSUME NeverIsNothing, DInv, Consumer
    PROVE  DInv'
<1>1. ASSUME NEW e, NEW retry \in 0 .. MaxRetries, Refuse(e, retry) \/ AnswerAgain(e, retry)
      PROVE  DInv'
  <2>1. UNCHANGED <<dispatch, store, chart, capture, time, touches>>
    BY <1>1 DEF Refuse, AnswerAgain
  <2> QED BY <2>1, NothingMoves
<1>2. ASSUME NEW e \in Events, NEW retry \in 0 .. MaxRetries, NEW requested, NEW p \in Profiles, NEW pin,
             Accept(e, retry, requested, p, pin)
      PROVE  DInv'
  BY <1>2, AcceptKeeps
<1>3. CASE Begin BY <1>3, BeginKeeps
<1>4. CASE Probe BY <1>4, ProbeKeeps
<1>5. CASE Preflight BY <1>5, PreflightKeeps
<1>6. CASE Switch \/ SwitchFails BY <1>6, SwitchKeeps
<1>7. CASE Observe BY <1>7, ObserveKeeps
<1>8. CASE StabilizationTimeout
  BY <1>8, AbandonMoves, MoveKeeps DEF StabilizationTimeout, Doing, bounds
<1>9. CASE Screenshot BY <1>9, ShootKeeps
<1>10. CASE ScreenshotFails
  BY <1>10, RestoreMoves, MoveKeeps DEF ScreenshotFails, Doing, bounds
<1>11. CASE Finalize BY <1>11, FinalizeKeeps
<1>12. CASE CompileRequest BY <1>12, CompileKeeps
<1>13. CASE WriteBundle BY <1>13, WriteBundleKeeps
<1>14. CASE RecordAttempt BY <1>14, RecordKeeps
<1>15. CASE Answer BY <1>15, RestingKeeps DEF Answer, bounds
<1>16. CASE InspectFails BY <1>16, InspectFailsKeeps
<1>17. CASE Stop BY <1>17, StopKeeps
<1> QED
  BY <1>1, <1>2, <1>3, <1>4, <1>5, <1>6, <1>7, <1>8, <1>9, <1>10, <1>11, <1>12, <1>13, <1>14, <1>15,
     <1>16, <1>17
     DEF Consumer

----------------------------------------------------------------------------
(* Steps of the world *)

\* A header that follows is the header of a chart that was not verified, and
\* a touch is counted.
LEMMA ChartMoves ==
    ASSUME DInv, HeaderFollows \/ Touch
    PROVE  DInv'
<1>1. /\ UNCHANGED <<dispatch, store, capture, time>> /\ touches \in Nat
      /\ DOMAIN chart' = ChartFields
  BY DEF HeaderFollows, Touch, bounds, DInv, StoreInv, ChartFields
<1>2. capture.pc = "shoot" => Verified'
  <2> SUFFICES ASSUME capture.pc = "shoot" PROVE Verified' OBVIOUS
  <2>1. Verified BY DEF DInv, CaptureInv
  <2>2. CASE HeaderFollows
    <3>1. UNCHANGED touches /\ chart.header # chart.timeframe BY <2>2 DEF HeaderFollows, bounds
    <3> QED BY <1>1, <2>1, <3>1 DEF Verified
  <2>3. CASE Touch
    <3>1. touches' = touches + 1 BY <2>3 DEF Touch
    <3> QED BY <1>1, <2>1, <3>1 DEF Verified
  <2> QED BY <2>2, <2>3
<1>3. CaptureInv' BY <1>1, <1>2 DEF DInv, CaptureInv, This, Profile, Completed, Good, Bundled
<1>4. touches' \in Nat
  <2>1. HeaderFollows => touches' = touches BY DEF HeaderFollows, bounds
  <2>2. Touch => touches' = touches + 1 BY DEF Touch
  <2> QED BY <1>1, <2>1, <2>2
<1>5. StoreInv' BY <1>1, <1>4 DEF DInv, StoreInv, Completed, Good, Bundled, PicturesMatch, Attempts
<1> QED BY <1>3, <1>5 DEF DInv

LEMMA PassKeeps ==
    ASSUME DInv, Pass
    PROVE  DInv'
<1>1. UNCHANGED <<dispatch, store, chart, capture, touches>> /\ time < MaxTime /\ time' = time + 1
  BY DEF Pass
<1>2. time' \in 0 .. MaxTime BY <1>1, BoundsAssumption DEF DInv, StoreInv
<1>3. CaptureInv'
  BY <1>1 DEF DInv, CaptureInv, This, Profile, Completed, Good, Bundled, Verified, Wanted
<1>4. StoreInv' BY <1>1, <1>2 DEF DInv, StoreInv, Completed, Good, Bundled, PicturesMatch, Attempts
<1> QED BY <1>3, <1>4 DEF DInv

LEMMA InitHolds == DispatchInit => DInv
<1> SUFFICES ASSUME DispatchInit PROVE DInv OBVIOUS
<1>1. CaptureInv BY RestingFields DEF DispatchInit, CaptureInv
<1>2. StoreInv
  BY BoundsAssumption
     DEF DispatchInit, StoreInv, Completed, PicturesMatch, ChartFields, DirectoryFields
<1> QED BY <1>1, <1>2 DEF DInv

LEMMA StepKeeps ==
    ASSUME NeverIsNothing, DInv, [DispatchNext]_dispatchVars
    PROVE  DInv'
<1>1. CASE UNCHANGED dispatchVars
  <2>1. UNCHANGED <<dispatch, store, chart, capture, time, touches>> BY <1>1 DEF dispatchVars
  <2> QED BY <2>1, NothingMoves
<1>2. CASE Consumer BY <1>2, ConsumerKeeps
<1>3. CASE HeaderFollows \/ Touch BY <1>3, ChartMoves
<1>4. CASE Pass BY <1>4, PassKeeps
<1> QED BY <1>1, <1>2, <1>3, <1>4 DEF DispatchNext

THEOREM Invariance ==
    ASSUME NeverIsNothing
    PROVE  DispatchSpec => []DInv
  BY InitHolds, StepKeeps, PTL DEF DispatchSpec

\* A dispatch recorded as completed has everything its result promises on
\* disk, whatever was retried, cut short or delivered again.
THEOREM CompletedIsWhole ==
    ASSUME NeverIsNothing
    PROVE  DispatchSpec => []CompletedHasBundle
<1>1. DInv => CompletedHasBundle
  <2> SUFFICES ASSUME DInv, Completed PROVE CompletedHasBundle BY DEF CompletedHasBundle
  <2>1. Good(dispatch.result) /\ Bundled(dispatch.result, dispatch.event) BY DEF DInv, StoreInv
  <2>2. ManifestFailure(store[dispatch.result]) = "OK" BY <2>1, ManifestVerifies DEF Good
  <2> QED BY <2>1, <2>2 DEF CompletedHasBundle, Good, Bundled
<1> QED BY <1>1, Invariance, PTL

\* No picture shows another interval or symbol than it is filed under while
\* nobody touches the chart: polling until the header follows is enough.
THEOREM PicturesShowTheirInterval ==
    ASSUME NeverIsNothing
    PROVE  DispatchSpec => []PicturesMatch
<1>1. DInv => PicturesMatch BY DEF DInv, StoreInv
<1> QED BY <1>1, Invariance, PTL

----------------------------------------------------------------------------
(* The refinement *)

ledgerValue == [k \in {"dispatch"} |-> IF Completed THEN dispatch.result ELSE Never]
ledgerServed == [k \in {"dispatch"} |-> answers]

\* The dispatch is worked on only while it is not complete, so the record is
\* completed once, and everybody is answered with what it names.
LEMMA StepRefines ==
    ASSUME NeverIsNothing, DInv, [DispatchNext]_dispatchVars
    PROVE  [Ledger!Next]_<<ledgerValue, ledgerServed>>
<1>1. ASSUME UNCHANGED <<dispatch, answers>>
      PROVE  UNCHANGED <<ledgerValue, ledgerServed>>
  BY <1>1 DEF ledgerValue, ledgerServed, Completed
<1>2. ASSUME Completed, UNCHANGED dispatch, answers' = answers \cup {dispatch.result}
      PROVE  Ledger!Next
  <2>1. Completed' BY <1>2 DEF Completed
  <2>2. dispatch.result # Never
    <3>1. dispatch.result \in Attempts BY <1>2 DEF DInv, StoreInv
    <3> QED BY <3>1 DEF NeverIsNothing, Attempts
  <2>3. Ledger!Serve("dispatch") BY <1>2, <2>1, <2>2 DEF Ledger!Serve
  <2> QED BY <2>3 DEF Ledger!Next
<1>3. CASE RecordAttempt
  <2>1. ~Completed /\ UNCHANGED answers
    BY <1>3 DEF DInv, CaptureInv, RecordAttempt, Doing
  <2>2. Ledger!Write("dispatch")
    BY <2>1 DEF Ledger!Write
  <2> QED BY <2>2 DEF Ledger!Next
<1>4. CASE Answer
  <2>1. Completed /\ dispatch.result = This BY <1>4 DEF DInv, CaptureInv, Answer, Doing
  <2> QED BY <1>2, <1>4, <2>1 DEF Answer
<1>5. ASSUME NEW e, NEW retry, AnswerAgain(e, retry)
      PROVE  [Ledger!Next]_<<ledgerValue, ledgerServed>>
  <2>1. CASE dispatch.status = "COMPLETED"
    <3>1. Completed BY <1>5, <2>1 DEF AnswerAgain, Known, Completed
    <3> QED BY <1>2, <1>5, <2>1, <3>1 DEF AnswerAgain
  <2>2. CASE dispatch.status # "COMPLETED"
    BY <1>1, <1>5, <2>2 DEF AnswerAgain
  <2> QED BY <2>1, <2>2
<1>6. CASE Consumer /\ ~RecordAttempt /\ ~Answer
           /\ ~\E e \in Events, retry \in 0 .. MaxRetries : AnswerAgain(e, retry)
  <2>1. UNCHANGED <<dispatch, answers>>
    BY <1>6 DEF Consumer, Refuse, Accept, Begin, Probe, Preflight, Switch, SwitchFails, Observe,
                InspectFails, StabilizationTimeout, Screenshot, ScreenshotFails, Finalize,
                CompileRequest, WriteBundle, Stop
  <2> QED BY <1>1, <2>1
<1>7. CASE UNCHANGED dispatchVars \/ HeaderFollows \/ Touch \/ Pass
  <2>1. UNCHANGED <<dispatch, answers>>
    BY <1>7 DEF dispatchVars, HeaderFollows, Touch, Pass
  <2> QED BY <1>1, <2>1
<1> QED BY <1>3, <1>4, <1>5, <1>6, <1>7 DEF DispatchNext

\* The record of a dispatch is a store written once: it completes once, and
\* every caller is told of the same attempt.
THEOREM DispatchImplementsStore ==
    ASSUME NeverIsNothing
    PROVE  DispatchSpec => OneCaptureCompletes
<1>1. DispatchInit => Ledger!Init
  BY DEF DispatchInit, Ledger!Init, Completed
<1>2. DInv /\ [DispatchNext]_dispatchVars => [Ledger!Next]_<<ledgerValue, ledgerServed>>
  BY StepRefines
<1> QED
  BY <1>1, <1>2, Invariance, PTL DEF OneCaptureCompletes, Ledger!Spec, DispatchSpec, ledgerValue, ledgerServed

=============================================================================
