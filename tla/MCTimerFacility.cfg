SPECIFICATION FairSpec
CONSTANTS
    t1 = t1
    t2 = t2
    Names <- MCNames
    Modes <- MCModes
    InitialMode = "any"
    InitiallyArmed <- MCInitiallyArmed
    Handlers <- MCHandlers
    CompletionDepth = 1
    MaxSettled = 2
    MaxTimerID = 4
INVARIANTS TypeOK NoStaleDispatch ArmingDrivesOneDispatch
PROPERTY CloseUnblocksEveryone
CHECK_DEADLOCK FALSE
