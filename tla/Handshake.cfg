SPECIFICATION HttpSpec
CONSTANTS
    Greetings <- OneOrTwoMethods
    Requests <- Connects
    Leftovers <- LeftoversV
    Talks <- TalksV
    MaxCuts = 3
INVARIANTS
    TargetIsAsked
    RequestIsDecided
    RelaysWhatIsSaid
    HostsAreAsked
CHECK_DEADLOCK FALSE
