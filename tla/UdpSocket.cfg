SPECIFICATION FairSpec
CONSTANTS
    MaxSends = 3
    MaxCloses = 2
    MaxCtrl = 2
INVARIANTS
    ChainFollowsQueue
    CloseCallbackOnce
PROPERTIES
    ImplementsPipe
    CloseCompletes
CHECK_DEADLOCK FALSE
