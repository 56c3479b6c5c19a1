SPECIFICATION FairSpec
CONSTANTS
    EventDepth = 1
    ClipFrames = 2
    MaxEvents = 3
    MaxQueued = 1
INVARIANTS MachineAlive LoopGoneAfterReply
PROPERTIES FarewellOwnsCarrier TimerEndsCall
CHECK_DEADLOCK FALSE
