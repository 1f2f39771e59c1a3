SPECIFICATION FairSpec
CONSTANTS
    s1 = s1
    s2 = s2
    w1 = w1
    w2 = w2
    m1 = m1
    entered = entered
    Decisions = {entered}
    NoJob = NoJob
    NoManifest = NoManifest
    Stories = {s1, s2}
    Workers = {w1}
    Models = {m1}
    LiqTimes = {1}
    E1Times = {}
    MaxE1 = 0
    MaxAttempts = 2
    SummaryLimit = 6
PROPERTIES CaptureSettles
