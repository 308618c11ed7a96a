CONSTANTS
    u1 = u1
    q1 = q1
    c1 = c1
    c2 = c2
    p1 = p1
    p2 = p2
    None = None
    Users = {u1}
    Links = {q1}
    Class <- OneQuestion
    Contexts = {c1, c2}
    Callers = {p1, p2}
    Items = {}
    ChanCap = 1
    MessageTransport = "kafka"
SPECIFICATION PgxSpec
SYMMETRY Symmetry
INVARIANT PgxTypeOK
INVARIANT PgxLiveIsTracked
INVARIANT PgxTrackedIsFiled
