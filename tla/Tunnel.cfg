SPECIFICATION FairSpec
CONSTANTS
    Protocols = {"Socks5Connect", "HttpPlain"}
    MaxUp = 2
    MaxDown = 2
    ChannelOpen = FALSE
    MayDisconnect = TRUE
INVARIANTS
    StreamsInOrder
    ReplyIsTrue
    OrderlyEndIsComplete
PROPERTIES
    BothEndsRelease
    RequestIsAnswered
CHECK_DEADLOCK FALSE
