SPECIFICATION FairSpec
CONSTANTS
    EventDepth = 2
    MaxEvents = 6
INVARIANTS NeverHangUpOnCaller CountFollowsPlayout
PROPERTY SilentCallEnds
CHECK_DEADLOCK FALSE
