SPECIFICATION SSpec
CONSTANTS
    MaxThreadNum = 1
    MaxCalls = 3
    Fds = {fd1, fd2}
    NoFd = NoFd
    Users = {u1}
    Talkers = {2}
    MaxQueued = 1
INVARIANTS
    RemovedInLoopThread
CHECK_DEADLOCK FALSE
