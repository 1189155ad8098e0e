SPECIFICATION FairSpec
CONSTANTS
    Instances = {v1, v2}
    Plans <- SomePlans
    MaxKey = 2
INVARIANTS
    TypeOK
    ServicesBeforeServers
    KeysAreRefreshed
    LatchCountsWhatIsLeft
PROPERTIES
    ShutdownEnds
    ServersComeUp
