\* A batch over two nodes; the only failure is a connection that ends.
SPECIFICATION DispatchSpec
CONSTANTS
    n1 = n1
    n2 = n2
    s1 = s1
    s2 = s2
    s3 = s3
    Nodes = {n1, n2}
    Sockets = {s1, s3}
    NoSocket = NoSocket
    Owner <- MCOwner
    Requests = {r1}
    Batches = {r1}
    Scheduled <- MCScheduled
    NoCommand = NoCommand
    Faults = {}
INVARIANTS
    BatchIsTolerant
CHECK_DEADLOCK FALSE
