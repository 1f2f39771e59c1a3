SPECIFICATION Spec
CONSTANTS
    ready = ready
    invalidated = invalidated
    invalidatedAgain = invalidatedAgain
    evReady = evReady
    evInvalidated = evInvalidated
    setup = setup
    r1 = r1
    r2 = r2
    w1 = w1
    w2 = w2
    None = None
    NoSetup = NoSetup
    Events = {ready, invalidated, invalidatedAgain}
    Evidence = {evReady, evInvalidated}
    Setups = {setup}
    EventType <- MCEventType
    EvidenceOf <- MCEvidenceOf
    SetupOf <- MCSetupOf
    OccurredAt <- MCOccurredAt
    Receivers = {r1, r2}
    Workers = {w1}
    MaxAttempts = 2
    MaxReceipts = 3
    MaxClaims = 2
INVARIANT SameContentIsDuplicate
