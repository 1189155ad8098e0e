SPECIFICATION Spec
CONSTANTS
    Requests = {r1, r2}
    Ids = {i1, i2}
    Users = {u1, u2, u3}
    Alike <- SomeAlike
    StatusMapped = FALSE
    Ops = {"count", "list"}
    Forms <- SomeForms
    Sizes = {1}
    Pages = {1}
    Window = 2
    Indexes <- SomeIndexes
    Anon = Anon
    NoDoc = NoDoc
    i1 = i1
    i2 = i2
    i3 = i3
    i4 = i4
    u1 = u1
    u2 = u2
    u3 = u3
SYMMETRY Symmetry
INVARIANTS
    CountIsOwn
