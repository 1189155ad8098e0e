SPECIFICATION Spec
CONSTANTS
    Requests = {r1, r2}
    Ids = {i1, i2, i3, i4}
    Users = {u1}
    Alike <- SomeAlike
    StatusMapped = TRUE
    Ops = {"search", "list"}
    Forms <- OneForm
    Sizes = {1, 2}
    Pages = {1, 2}
    Window = 2
    Indexes <- FullIndex
    Anon = Anon
    NoDoc = NoDoc
    i1 = i1
    i2 = i2
    i3 = i3
    i4 = i4
    u1 = u1
    u2 = u2
    u3 = u3
SYMMETRY Symmetry
INVARIANTS
    OnlyPermittedShown
    TotalIsOwn
    PagesReachTheEnd
