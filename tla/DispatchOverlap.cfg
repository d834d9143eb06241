\* Two requests to one node over two overlapping connections.
SPECIFICATION DispatchSpec
CONSTANTS
    n1 = n1
    n2 = n2
    s1 = s1
    s2 = s2
    s3 = s3
    Nodes = {n1}
    Sockets = {s1, s2}
    NoSocket = NoSocket
    Owner <- MCOwner
    Requests = {r1, r2}
    Batches = {}
    Scheduled <- MCScheduled
    NoCommand = NoCommand
    Faults = {}
SYMMETRY MCSymmetry
INVARIANTS
    DispatchTypeOK
    AnswerIsTheNodes
    CommandInOnePlace
PROPERTIES
    FutureSettledOnce
    ImplementsCommandLog
CHECK_DEADLOCK FALSE
