CONSTANTS
    NFibers = 3
    NPages = 1
    PageSize = 1
    MaxOps = 2
    Ops = {"receive", "courtesy", "handover"}
SPECIFICATION EpollSpec
INVARIANTS NoResumeOfFinished
CHECK_DEADLOCK FALSE
