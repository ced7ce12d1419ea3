SPECIFICATION ClientFairSpec
CONSTANTS
    MaxFlaps = 1
    MaxBrowsers = 2
INVARIANTS
    EndIsSeen
PROPERTIES
    MainIsTold
    MainReturns
CHECK_DEADLOCK FALSE
