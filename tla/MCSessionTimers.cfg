SPECIFICATION Spec
CONSTANTS
    Names <- MCNames
    Modes <- MCModes
    InitialMode = "AwaitingResponse"
    InitiallyArmed <- MCInitiallyArmed
    Handlers <- MCHandlers
    CompletionDepth = 1
    MaxSettled = 3
    MaxTimerID = 4
INVARIANT NoMutualWait
CHECK_DEADLOCK FALSE
