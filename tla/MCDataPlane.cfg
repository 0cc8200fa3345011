SPECIFICATION DataSpec
CONSTANTS
    Clients = {c1, c2}
    Socks = {1, 2}
    Callers = {p1, p2}
    MaxSessions = 1
    Timeout = 1
    QueueCap = 1
    Conns = {k1, k2}
    Permits = 1
    Targets = 2
    LongestPrint = 2
    Listeners = 2
    Request = 1
    Answer = 2
    LinkCap = 2
    Chunk = 2
    Burst = 1
INVARIANTS UdpInv PermitsConserved NoFragmentBypass CleanEndMeansAll BilledIsWritten
PROPERTIES UdpLetsGo NoneStuck NothingLeftBehind
