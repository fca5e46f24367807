SPECIFICATION Spec
CONSTANTS
    t1 = t1
    t2 = t2
    o1 = o1
    o2 = o2
    Threads = {t1, t2}
    Opens = {o1, o2}
    Chain = chain
    None = none
    Other = other
    Calls <- MCChainCalls
    PackStyles = {"auto"}
    OtherClients = FALSE
    CommandErrors = FALSE
    LinkLoss = TRUE
    OldServer = FALSE
PROPERTIES
    ReleasedByOwner
CHECK_DEADLOCK FALSE
