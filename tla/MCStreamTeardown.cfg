SPECIFICATION FairSpec
CONSTANTS
    DataDepth = 2
    InDepth = 1
    ControlDepth = 1
    MaxChunks = 4
    MaxMarks = 1
INVARIANTS CloseFollowsDrain AudioInOrder
PROPERTY TeardownCompletes
CHECK_DEADLOCK FALSE
