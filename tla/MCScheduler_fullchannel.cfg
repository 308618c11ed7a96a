CONSTANTS
    r1 = r1
    q1 = q1
    b1 = b1
    c1 = c1
    c2 = c2
    p1 = p1
    p2 = p2
    i1 = i1
    i2 = i2
    None = None
    Links = {q1}
    Class <- QuestionOnly
    Contexts = {c1}
    Callers = {p1}
    Items = {i1, i2}
    ChanCap = 1
    MessageTransport = "kafka"
SPECIFICATION FairSpec
PROPERTY EveryItemIsTold
