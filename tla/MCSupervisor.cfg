SPECIFICATION Spec
CONSTANTS
    a = a
    b = b
    None = None
    All = All
    Alien = Alien
    Bad = Bad
    Server <- MCServer
    Port <- MCPort
    Declared <- MCDeclared
    Detached = {b}
    Source = {a}
    Forking = {a}
    Prompted = {b}
    Configs <- MCSingles
    MaxPid = 2
    MaxVerbs = 3
    MaxEvents = 1
    MaxSessions = 1
INVARIANTS OneKnownChild QuitLeavesNoChild DownIsConfirmed
CHECK_DEADLOCK FALSE
