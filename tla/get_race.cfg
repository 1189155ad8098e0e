SPECIFICATION Spec
CONSTANTS
    Requests = {r1, r2}
    Ids = {i1, i2}
    Users = {u1, u2}
    Names = {n1}
    Ops = {"get", "search"}
    Bodies <- CreateBodies
    Seeds <- CreateSeeds
    Anon = Anon
    NoId = NoId
    NoItem = NoItem
    i1 = i1
    i2 = i2
    u1 = u1
    u2 = u2
    n1 = n1
    n2 = n2
SYMMETRY Symmetry
INVARIANTS
    NotFoundMeansAbsent
