SPECIFICATION Spec
CONSTANTS
    tv = tv
    w1 = w1
    w2 = w2
    None = None
    Messages = {}
    Drawings = {tv}
    Pages = {}
    Dispatchers = {w1, w2}
    MaxTypes = 2
    Objects = 2
    RetryLimit = 2
    MaxResets = 1
    MaxClaims = 3
SYMMETRY Symmetry
INVARIANTS DuplicatesHarmless
CHECK_DEADLOCK FALSE
