\* Two threads, two servers.
SPECIFICATION Spec
CONSTANTS
    t1 = t1
    t2 = t2
    near = near
    far = far
    a = a
    b = b
    c = c
    None = None
    Users = {t1, t2}
    Home = near
    Links <- MCLinks
    ChainLists <- MCChainLists
    Defined <- MCDefined
    Offered <- MCOffered
    NameLength <- MCNameLength
    Spaces = {1, 5}
    CallBound = 3
    FaultBound = 1
    EditBound = 2
SYMMETRY Threads
INVARIANTS
    TagTellsList
    ReadsOneList
    DefinedUnion
    NothingHeld
CHECK_DEADLOCK FALSE
