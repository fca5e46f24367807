\* Everything may happen, with a server older than version 7. A crash ends the program.
SPECIFICATION Spec
CONSTANTS
    t1 = t1
    t2 = t2
    o1 = o1
    o2 = o2
    Threads = {t1, t2}
    Opens = {o1, o2}
    Chain = chain
    None = none
    Other = other
    Calls <- MCCalls
    PackStyles = {"never", "auto"}
    OtherClients = TRUE
    CommandErrors = TRUE
    LinkLoss = TRUE
    OldServer = TRUE
SYMMETRY Symmetry
INVARIANTS
    TypeOK
    ChainLockedAtServer
CHECK_DEADLOCK FALSE
