CONSTANTS
    Fds = {a, b, c}
    Timeout = 3
    MaxAge = 4
    MaxSteps = 1
    StepSize = 1
    Members = {1, 2, 3, 4}
    MaxN = 5
    Wrap = 8
    f1 = f1
    f2 = f2
    f3 = f3
    s1 = s1
    auto = auto
    l1 = l1
    l2 = l2
SPECIFICATION MCSpec
INVARIANTS
    IInv
    PromptExpiry
    EpollWaitersKept
    AnswerRight
    TimersNotEarly
    EmailFaithful
    PoolAccounted
PROPERTIES
    ImplementsTimeouts
    WaitersReturn
    MonitorReports
CHECK_DEADLOCK FALSE
