SPECIFICATION ServerFairSpec
CONSTANTS
    MaxFlaps = 1
    MaxTunnels = 2
INVARIANTS
    NullTimerOnlyWhenForgotten
PROPERTIES
    LinkEnds
    
CHECK_DEADLOCK FALSE
