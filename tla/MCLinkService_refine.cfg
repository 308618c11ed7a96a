CONSTANTS
    u1 = u1
    u2 = u2
    q1 = q1
    q2 = q2
    b1 = b1
    c1 = c1
    c2 = c2
    p1 = p1
    p2 = p2
    i1 = i1
    None = None
    Users = {u1, u2}
    Links = {q1, q2, b1}
    Class <- QuestionsAndRejected
    Contexts = {c1, c2}
    Callers = {p1, p2}
    Items = {i1}
    ChanCap = 1
    MessageTransport = "kafka"
SPECIFICATION Spec
SYMMETRY Symmetry
PROPERTY ImplementsSubscriptions
VIEW TablesView
