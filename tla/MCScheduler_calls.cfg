CONSTANTS
    r1 = r1
    q1 = q1
    b1 = b1
    c1 = c1
    c2 = c2
    p1 = p1
    p2 = p2
    i1 = i1
    i2 = i2
    None = None
    Links = {q1, b1}
    Class <- QuestionAndRejected
    Contexts = {c1, c2}
    Callers = {p1, p2}
    Items = {i1, i2}
    ChanCap = 2
    MessageTransport = "kafka"
SPECIFICATION Spec
SYMMETRY Symmetry
INVARIANT TypeOK
INVARIANT StoredIsAnnounced
INVARIANT NoRepeat
INVARIANT AtMostOneLate
INVARIANT UpdateBudget
INVARIANT SoleIsCancellable
INVARIANT IInv
