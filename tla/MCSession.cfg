SPECIFICATION FairSpec
CONSTANTS
    SttDispatchDepth = 2
    VadOutDepth = 2
    ResponseInDepth = 2
    MaxTurns = 3
    MaxPasses = 3
INVARIANTS
    TypeOK
    EveryWaitIsBounded
    TurnCapCoversTurn
    TextStaysInTurn
    OnePassInFlight
    AnswerFindsItsTurn
    ClocksFollowTheTurn
PROPERTIES
    ImplementsLifecycle
    NoWaitIsForever
CHECK_DEADLOCK FALSE
