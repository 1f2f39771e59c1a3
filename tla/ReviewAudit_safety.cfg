SPECIFICATION FairSpec
CONSTANTS
    Reviewers = {r1, r2}
    Dispatches <- mcDispatches
    Replies <- mcReplies
    Policy <- mcPolicy
    MaxAttempts = 2
    MaxReviews = 3
    MaxTime = 1
    Free = Free
    Stale = Stale
    Nothing = Nothing
    Torn = Torn
INVARIANTS
    CompletedIsLastVerdict
    CallBudget
    OnlyWaitersBreakTheChain
PROPERTIES
    OneVerdictServed
    ReviewsEnd
CHECK_DEADLOCK FALSE
