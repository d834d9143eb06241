\* One command and two connections, with every failure.
SPECIFICATION DispatchSpec
CONSTANTS
    n1 = n1
    n2 = n2
    s1 = s1
    s2 = s2
    s3 = s3
    Nodes = {n1}
    Sockets = {s1, s2}
    NoSocket = NoSocket
    Owner <- MCOwner
    Requests = {r1}
    Batches = {r1}
    Scheduled <- MCScheduled
    NoCommand = NoCommand
    Faults = {"sever", "node restart", "hub crash", "user deleted"}
INVARIANTS
    NothingForgotten
    AnsweredIsRecorded
PROPERTIES
    RequestEnds
