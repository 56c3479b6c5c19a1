SPECIFICATION VADSpec
CONSTANTS
    FrameSize = 5
    WindowSize = 8
    WindowMS = 2
    Thresholds <- MCThresholds
    MaxWindows = 12
INVARIANT BoundariesOnTime
PROPERTY ImplementsSource
CHECK_DEADLOCK FALSE
