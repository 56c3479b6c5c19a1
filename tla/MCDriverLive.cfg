SPECIFICATION FairSpec
CONSTANTS
    None = None
    Tester = Tester
    Turn = {t1, t2}
    Parallel = 2
    Texts <- MCSegment
    MinSegment = 2
    QueueDepth = 1
    MaxLines = 1
    MaxEdits = 0
PROPERTY EveryCallReturns
CHECK_DEADLOCK FALSE
