CONSTANTS
    f1 = f1
    f2 = f2
    Fds = {f1}
    Kinds = {"get", "close", "expect", "nolength", "badmethod", "toolarge"}
    Replies = {"respond", "nothing", "sendfile", "truncated"}
    MaxFiles = 2
    NumStacks = 1
    MaxCtx = 1
    TxCap = 1
    MaxConns = 2
    MaxReqs = 2
    MaxEnfile = 0
SPECIFICATION MCSpec
INVARIANTS
    TypeOK
    NoLostEdge
    WholeResponse
    DaemonKeepsCount
PROPERTIES
    ClientsServed
    DaemonLearns
CHECK_DEADLOCK FALSE
