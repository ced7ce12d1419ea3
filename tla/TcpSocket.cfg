SPECIFICATION FairSpec
CONSTANTS
    MaxSends = 3
    MaxCloses = 2
    MaxCtrl = 2
    DangerMark = 2
    SafeMark = 1
INVARIANTS
    NoStall
    NoReadStall
    OnlyLateResolveReopens
PROPERTIES
    ImplementsPipe
    CloseCompletes
CHECK_DEADLOCK FALSE
