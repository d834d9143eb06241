\* One node with three connections: sockets of different nodes share nothing.
SPECIFICATION ConnSpec
CONSTANTS
    Nodes = {n1}
    Sockets = {s1, s2, s3}
    NoSocket = NoSocket
    Owner <- MCOwner
INVARIANTS
    ConnTypeOK
    ServedIsRegistered
    EntryHasCoroutine
PROPERTIES
    OnlyClosedLeave
    StableGetsRegistered
    OfflineIsNoticed
