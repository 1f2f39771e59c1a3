SPECIFICATION Spec
CONSTANTS
    tg = tg
    nt = nt
    tv = tv
    w1 = w1
    w2 = w2
    None = None
    Messages = {tg}
    Drawings = {tv}
    Pages = {nt}
    Dispatchers = {w1, w2}
    MaxTypes = 2
    Objects = 2
    RetryLimit = 2
    MaxResets = 1
    MaxClaims = 3
SYMMETRY Symmetry
INVARIANTS TypeOK LatestClaimDecides AttemptBudget CompletedHasEffect PageIsHonest
PROPERTIES CompletedIsFinal OperatorReleases
CHECK_DEADLOCK FALSE
