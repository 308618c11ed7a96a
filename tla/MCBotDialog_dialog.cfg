CONSTANTS
    u1 = u1
    u2 = u2
    l1 = l1
    l2 = l2
    h1 = h1
    h2 = h2
    c1 = c1
    c2 = c2
    None = None
    Users = {u1}
    Links = {l1, l2}
    Handlers = {h1}
    Calls = {c1, c2}
    Overlap = FALSE
SPECIFICATION Spec
SYMMETRY Symmetry
INVARIANT TypeOK
INVARIANT ListedIsTracked
INVARIANT CachedHasListed
INVARIANT KnownHasRegistered
INVARIANT TrackedIsListed
