SPECIFICATION FairSpec
CONSTANTS
    Requests = {r1}
    Refreshes = {f1, f2}
    Ids = {i1}
    MaxVersion = 2
    NoId = NoId
INVARIANTS
    TypeOK
    OwnAnswerWins
    NotFoundMeansMissing
PROPERTIES
    OlderOnlyIfOvertaken
    CacheCatchesUp
