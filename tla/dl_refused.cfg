\* The server refuses locks and commands.
SPECIFICATION Spec
CONSTANTS
    t1 = t1
    t2 = t2
    o1 = o1
    o2 = o2
    Threads = {t1, t2}
    Opens = {o1, o2}
    Chain = chain
    None = none
    Other = other
    Calls <- MCNoHandBack
    PackStyles = {"never", "auto"}
    OtherClients = TRUE
    CommandErrors = TRUE
    LinkLoss = FALSE
    OldServer = FALSE
INVARIANTS
    IInv
    LinkOwned
    LocksConsistent
PROPERTIES
    ReleasedByOwner
    ImplementsSession
