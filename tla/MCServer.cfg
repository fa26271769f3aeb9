SPECIFICATION FairSpec

CONSTANTS
    Workers = {w1, w2}
    Tasks = {t1, t2, t3}
    Conns = {c1, c2}
    UdpMaxInflight = 2
    TcpMaxConnections = 1


INVARIANTS
    TypeOK
    PermitsConserved
    TasksOwned
    UdpQuietAfterShutdown
PROPERTIES
    ShutdownCompletes
    DropStopsServing
    OverloadPasses
    IdleConnsClose
