CONSTANTS
    u1 = u1
    u2 = u2
    q1 = q1
    q2 = q2
    b1 = b1
    c1 = c1
    c2 = c2
    p1 = p1
    p2 = p2
    i1 = i1
    None = None
    Users = {u1}
    Links = {q1, q2}
    Class <- QuestionAndShort
    Contexts = {c1, c2}
    Callers = {p1, p2}
    Items = {}
    ChanCap = 1
    MessageTransport = "kafka"
SPECIFICATION FairSpec
PROPERTY RequestEnds
ACTION_CONSTRAINT OfRequests
