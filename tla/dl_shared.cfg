\* Devices locked speculatively, other clients of the server, no errors.
SPECIFICATION FairSpec
CONSTANTS
    t1 = t1
    t2 = t2
    o1 = o1
    o2 = o2
    Threads = {t1, t2}
    Opens = {o1, o2}
    Chain = chain
    None = none
    Other = other
    Calls <- MCNoHandBack
    PackStyles = {"auto"}
    OtherClients = TRUE
    CommandErrors = FALSE
    LinkLoss = FALSE
    OldServer = FALSE
INVARIANTS
    ServerAgrees
PROPERTIES
    ClaimEnds
    ServerReturned
