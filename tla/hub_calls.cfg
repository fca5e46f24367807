SPECIFICATION HubsSpec
CONSTANTS
    b = b
    x = x
    y = y
    Bridge = b
    Idcodes = {b, x, y}
    Worlds <- MCWorlds
    Wild = 255
    MAX_HIERARCHIES = 3
    QwordBits = 16
    IntBits = 8
    MaxFaults = 1
INVARIANTS
    LockFollows
    ListsTree
    LeadsToNode
    NoCrash
PROPERTIES
    ReleasedOnSuccess
