SPECIFICATION MCSpec
CONSTANTS
    Limits <- mcLimits
    AtrPeriod = 1
    Callers = {1, 2}
    Jobs = {j1}
    Documents <- mcDocuments
    Views <- mcViews
    Pages <- mcPages
    RateLimit = 1
    RateWindow = 1
    Timeout = 1
    MaxClock = 2
    MaxCalls = 2
    MaxChanges = 2
    MaxCrashes = 1
    Nobody = Nobody
    None = None
    Events = {1, 2}
    EventOf <- mcEventOf
    Profiles = {p1}
    ProfileOf <- mcProfileOf
    TabPins <- mcTabPins
    Endpoints <- mcEndpoints
    Timeframes <- mcTimeframes
    Duration <- mcDuration
    Polls = 3
    StableSamples = 2
    MaxRetries = 1
    MaxTime = 1
    MaxTouches = 1
    MaxDeliveries = 2
    Never = Never
INVARIANTS
    ResultsReplayable
    ImagesShowTheViews
    QuotesFresh
    
    CompletedHasBundle
    PicturesMatch
PROPERTIES
    OneResultPerRequest
    OneCaptureCompletes
CHECK_DEADLOCK FALSE
