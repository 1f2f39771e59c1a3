SPECIFICATION Spec
CONSTANTS
    s1 = s1
    s2 = s2
    w1 = w1
    w2 = w2
    m1 = m1
    m2 = m2
    entered = entered
    Decisions = {entered}
    NoJob = NoJob
    NoManifest = NoManifest
    Stories = {s1}
    Workers = {w1, w2}
    Models = {m1}
    LiqTimes = {1}
    E1Times = {2, 3}
    MaxE1 = 2
    MaxAttempts = 1
    SummaryLimit = 1
SYMMETRY Symmetry
INVARIANTS TypeOK StoryInOrder ProviderIdentity CaptureOnce RequestCarriesPriors
PROPERTIES ClosedIsFinal
