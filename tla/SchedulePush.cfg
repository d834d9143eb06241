\* Two requests to any of two nodes, one with a full send buffer.
SPECIFICATION SyncSpec
CONSTANTS
    n1 = n1
    n2 = n2
    s1 = s1
    s2 = s2
    s3 = s3
    Nodes = {n1, n2}
    Sockets = {s1, s3}
    NoSocket = NoSocket
    Owner <- MCOwner
    Requests = {r1, r2}
    Unset = Unset
    Slow = {n2}
    Faults = {}
SYMMETRY MCSymmetry
INVARIANTS
    SyncTypeOK
    ToldIsStored
CHECK_DEADLOCK FALSE
