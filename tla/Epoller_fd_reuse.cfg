SPECIFICATION Spec
CONSTANTS
    Channels = {conn1, conn2, timer}
    Connections = {conn1, conn2}
    Fds = {fd1, fd2}
    None = None
INVARIANTS
    NewFdNotInMap
CHECK_DEADLOCK FALSE
