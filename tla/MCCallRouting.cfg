SPECIFICATION FairSpec
CONSTANTS
    s1 = s1
    Call = {c1, c2}
    Sid = {s1}
    CallSid <- MCCallSid
    Replier = {p1}
    RequestDepth = 2
    ResultDepth = 1
    RouteDepth = 1
    CancelDepth = 1
    MaxAbandoned = 1
    Clips = {2}
    MaxRequests = 2
    MaxCancels = 1
    None = None
INVARIANTS
    NewestCallIsReachable
    AbandonedIsSound
    ResultsAreFaithful
PROPERTIES
    RequestsResolve
CHECK_DEADLOCK FALSE
