SPECIFICATION Spec
CONSTANTS
    c1 = c1
    g1 = g1
    g2 = g2
    f1 = f1
    m1 = m1
    m2 = m2
    s1 = s1
    udp = udp
    p1 = p1
    q1 = q1
    Client = {c1}
    Gateway = {g1, g2}
    Forward = {f1}
    Server = {s1}
    Proto = {udp}
    ProcPort = {p1}
    SrvPort = {q1}
    LocalPort = {1}
    MsgId = {m1, m2}
    NoAddr = NoAddr
    Flow <- MCFlow
    PlayFlow <- MCPlayFlow
    FixRoute = FALSE
    MaxReplies = 1
SYMMETRY Symmetry
INVARIANTS
    TypeOK
    RouteUsable
    AnswerFits
    ReturnPath
