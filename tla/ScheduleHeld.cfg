\* Two requests to one node with two connections, and every failure.
SPECIFICATION SyncSpec
CONSTANTS
    n1 = n1
    n2 = n2
    s1 = s1
    s2 = s2
    s3 = s3
    Nodes = {n1}
    Sockets = {s1, s2}
    NoSocket = NoSocket
    Owner <- MCOwner
    Requests = {r1, r2}
    Unset = Unset
    Slow = {}
    Faults = {"sever", "hub restart", "node restart", "native fails"}
INVARIANTS
    HolderIsTold
    EnginesHaveOnePolicy
PROPERTIES
    Converges
