SPECIFICATION Spec
CONSTANTS
    p = p
    q = q
    x = x
    y = y
    Nobody = Nobody
    Procs = {p, q}
    Ids = {0, 1, 2}
    Unreadable = {y}
    Starts <- MCStarts
    MaxTime = 3
    g = g
    h = h
    Hosts = {g, h}
    Requests <- MCRequests
    Passwords = {x, y}
    Folded <- MCFolded
    HasLocal = {p}
    MayFail = {q}
    Temporary = 9
    MaxRetry = 1
CHECK_DEADLOCK FALSE
INVARIANTS
    TypeOK
    CopyIsFresh
    LinksMatchFile
    AddedIsStored
PROPERTIES
    ImplementsTable
