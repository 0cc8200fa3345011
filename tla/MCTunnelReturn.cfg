SPECIFICATION UdpSpec
CONSTANTS
    Clients = {c1}
    Socks = {1, 2}
    Callers = {p1}
    MaxSessions = 1
    Timeout = 1
    QueueCap = 1
PROPERTY TunnelReturnHeals
