SPECIFICATION Spec
CONSTANTS
    s1 = s1
    s2 = s2
    w1 = w1
    w2 = w2
    m1 = m1
    m2 = m2
    entered = entered
    skipped = skipped
    Decisions = {entered, skipped}
    NoJob = NoJob
    NoManifest = NoManifest
    Stories = {s1}
    Workers = {w1, w2}
    Models = {m1, m2}
    LiqTimes = {1}
    E1Times = {1, 2}
    MaxE1 = 1
    MaxAttempts = 2
    SummaryLimit = 6
SYMMETRY Symmetry
INVARIANTS QuarantinedAfterMaxAttempts
