CONSTANTS
    NFibers = 3
    NPages = 2
    PageSize = 1
    MaxOps = 2
    Ops = {"receive", "courtesy", "handover"}
    Fds = {f1, f2}
    Kinds = {"get", "expect"}
    Replies = {"respond"}
    MaxFiles = 3
    NumStacks = 1
    MaxCtx = 2
    TxCap = 1
    MaxConns = 3
    MaxReqs = 1
    MaxEnfile = 0
SPECIFICATION MCSpec
INVARIANTS
    QueuedKept
    NoLostWakeup
    PipeReadsPipe
    LinkedIffWaiting
    EventsReachOwner
    PoolExact
SYMMETRY Symmetry
CHECK_DEADLOCK FALSE
