SPECIFICATION Spec
CONSTANTS
    Bad = Bad
    NoLevel = NoLevel
    Hash <- mcHash
    MaxAge = 1
    Bodies <- mcBodies
    Content <- mcContent
    Receivers = {r1, r2}
    Workers = {w1, w2}
    MaxClock = 1
    MaxPosts = 3
    MaxFaults = 1
    Nobody = Nobody
SYMMETRY Symmetry
INVARIANTS
    AcceptedIsOnLedger
    LedgerReplays
    TrackedFollowsStory
    WakeCarriesCapture
    OneWakePerTouch
CHECK_DEADLOCK FALSE
