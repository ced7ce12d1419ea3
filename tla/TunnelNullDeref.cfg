SPECIFICATION Spec
CONSTANTS
    Protocols = {"Socks5Connect"}
    MaxUp = 1
    MaxDown = 1
    ChannelOpen = TRUE
    MayDisconnect = FALSE
INVARIANT
    NoNullDereference
CHECK_DEADLOCK FALSE
