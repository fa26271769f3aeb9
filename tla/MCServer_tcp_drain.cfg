SPECIFICATION Spec

CONSTANTS
    Workers = {w1, w2}
    Tasks = {t1, t2}
    Conns = {c1}
    UdpMaxInflight = 2
    TcpMaxConnections = 1

INVARIANT DrainedOnReturn
