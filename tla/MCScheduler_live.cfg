CONSTANTS
    r1 = r1
    q1 = q1
    b1 = b1
    c1 = c1
    c2 = c2
    p1 = p1
    p2 = p2
    i1 = i1
    i2 = i2
    None = None
    Links = {r1}
    Class <- RepoOnly
    Contexts = {c1}
    Callers = {p1}
    Items = {i1, i2}
    ChanCap = 2
    MessageTransport = "http"
SPECIFICATION FairSpec
PROPERTY CancelledMonitorEnds
PROPERTY SettledItemIsTold
