SPECIFICATION MCSpec
CONSTANTS
    c1 = c1
    c2 = c2
    g1 = g1
    f1 = f1
    s1 = s1
    udp = udp
    p1 = p1
    s2 = s2
    q1 = q1
    Client = {c1, c2}
    Gateway = {g1}
    Forward = {f1}
    Server = {s1, s2}
    Proto = {udp}
    ProcPort = {p1}
    SrvPort = {q1}
    LocalPort = {1, 2}
    MsgId = {1}
    NoAddr = NoAddr
    Flow <- MCFlow
    PlayFlow <- MCPlayFlow
    FixRoute = FALSE
    MaxReplies = 2
INVARIANTS
    FlowIsolation
    CrossTalkNeedsPortReuse
    ServerGetsItsOwn
