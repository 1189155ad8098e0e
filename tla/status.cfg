SPECIFICATION Spec
CONSTANTS
    Requests = {r1, r2}
    Ids = {i1, i2}
    Names = {n1, n2}
    Bodies <- SomeBodies
    Seeds <- SomeSeeds
    NoId = NoId
    NoDoc = NoDoc
    i1 = i1
    i2 = i2
    n1 = n1
    n2 = n2
SYMMETRY Symmetry
INVARIANTS
    TypeOK
    PublicationExplained
PROPERTIES
    ApprovalIsKept
    UploadIsKept
