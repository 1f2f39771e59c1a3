SPECIFICATION Spec
CONSTANTS
    s1 = s1
    s2 = s2
    s3 = s3
    w1 = w1
    w2 = w2
    m1 = m1
    m2 = m2
    entered = entered
    skipped = skipped
    Decisions = {entered, skipped}
    NoJob = NoJob
    NoManifest = NoManifest
    Stories = {s1, s2, s3}
    Workers = {}
    Models = {m1}
    LiqTimes = {1, 2, 3}
    E1Times = {1, 2, 3, 4}
    MaxE1 = 2
    MaxAttempts = 1
    SummaryLimit = 6
SYMMETRY Symmetry
PROPERTIES NewestStoryOnly
CHECK_DEADLOCK FALSE
