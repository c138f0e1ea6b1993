\* D-Bus: three processes are one more than the two buses need, so that a second proxy
\* for a bus would have room.  Cgroups: the integers are of 4 and 5 bits, so that the
\* products of amounts and units fall on both sides of their limits.  Network: two rules
\* and two activations.
CONSTANTS
    Entries     = {"r1", "r2"}
    HostBuses   = {"session"}
    Arrays     <- MCArrays
    MaxProxies  = 3
    DeviceNames = {"card", "galcore"}
    Modes       = {600, 46, 722}
    MaxDevices  = 3
    Amounts     = {7, 8, 17}
    Endings     = {"digit", "k", "classid"}
    Kilo        = 2
    MaxLL       = 15
    MaxInt      = 7
    MaxReads    = 3
    MaxTries    = 2
    Variables   = {"XDG_RUNTIME_DIR", "PULSE_SERVER"}
    Texts       = {"p", "q"}
    Separators  = {":"}
    MaxConfigs  = 3
    ProtocolLists <- MCProtocolLists
    MaxElements    = 2
    MaxActivations = 2

SPECIFICATION Spec

INVARIANTS
    GatewaysTypeOK
    ProxiesAreReaped
    DevicesAreCurrent
    LimitsAreSet
    VariablesAreSound
    NetworkTypeOK
    RulesDecide

 
