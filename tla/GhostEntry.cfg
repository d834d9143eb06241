\* One node with at most two connections.
SPECIFICATION ConnSpec
CONSTANTS
    Nodes = {n1}
    Sockets = {s1, s2}
    NoSocket = NoSocket
    Owner <- MCOwner
INVARIANTS
    NoGhostEntry
