\* A local or a remote server, attempts that may outlast the hold-off.
SPECIFICATION FairSpec
CONSTANTS
    t1 = t1
    t2 = t2
    d1 = d1
    Threads = {t1, t2}
    Devices = {d1}
    None = none
    Hosts = {"local", "remote"}
    MaxConnections = 2
    ChainReported = FALSE
INVARIANTS
    ConnectionSound
PROPERTIES
    ReplacedWhenSlow
    ConnectEnds
    ImplementsSession
