SPECIFICATION Spec
CONSTANTS
    Browsers = {b1, b2}
    UdpBrowsers = {b2}
    MaxRequests = 2
    MaxAsked = 2
    StreamIds = {1, 2}
    LastId = 2
    MaxFrames = 2
    MaxEvents = 1
INVARIANTS
    RoutedToOwner
    SharedOnlyIfRaced
    StopReachesAll
    
    
CHECK_DEADLOCK FALSE
