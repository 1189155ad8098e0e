SPECIFICATION FairSpec
CONSTANTS
    Ratings = {x1, x2, x3}
    Profane = {x1}
    Poison = {bad}
    Alike <- SomeAlike
    MaxHits = 2
    None = None
    MaxCrashes = 1
    x1 = x1
    x2 = x2
    x3 = x3
INVARIANTS
    TypeOK
    VerdictsAreOwn
    PendingIsAccountedFor
PROPERTIES
    EveryRatingJudged
