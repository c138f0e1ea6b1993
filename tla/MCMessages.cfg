\* Bus: two containers, of one id that is given out twice or of two ids, and two processes
\* of any kind; three calls: one handled, one that follows it and one that waits.
\* Netlink: a device that is made, removed and made again with another index, and a socket
\* that cannot be made at all (two failures).  Addresses of four bits in two bytes, every
\* bridge and netmask.
CONSTANTS
    Ids          = {1, 2}
    MaxGen       = 2
    MaxCreates   = 2
    MaxProcs     = 2
    ExitCodes    = {0, 1}
    MaxCalls     = 3
    MaxIndex     = 3
    MaxLinkCalls = 2
    MaxFailures  = 2
    Width        = 4
    ByteBits     = 2
    Bridges      = {0, 1, 2, 3, 4, 5, 6, 7, 8, 9, 10, 11, 12, 13, 14, 15}
    ContainerIds = {0, 1, 2, 3}

SPECIFICATION Spec

INVARIANTS
    BusTypeOK
    SignalsAreSound
    SyncSuccessIsOwn
    NetTypeOK
    RepliesBelong
    AddressesAreGood

PROPERTIES
    EndIsAnnounced
    BusIsServed
    CallsReturn

\* The agent ends when the bus name is lost, and stops in a wait for a process that runs on.
CHECK_DEADLOCK FALSE
