SPECIFICATION Spec
CONSTANTS
    StreamIds <- IdsV
    HostLengths <- HostLengthsV
    Addresses <- AddressesV
    Ports <- PortsV
    DataLengths <- DataLengthsV
    StrayBytes <- StrayBytesV
    StrayLength = 9
INVARIANTS
    ArrivesAsSent
    AcceptedIsWellFormed
CHECK_DEADLOCK FALSE
