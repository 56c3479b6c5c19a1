SPECIFICATION FairSpec
CONSTANTS
    a = a
    b = b
    None = None
    All = All
    Alien = Alien
    Bad = Bad
    Server <- MCServer
    Port <- MCPort
    Declared <- MCDeclared
    Detached = {b}
    Source = {a}
    Forking = {a}
    Prompted = {b}
    Configs <- MCFleets
    MaxPid = 2
    MaxVerbs = 2
    MaxEvents = 1
    MaxSessions = 2
INVARIANT StraysAreLeftAlone
 
CHECK_DEADLOCK FALSE
