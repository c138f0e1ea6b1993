\* Containers: two ids and one restart; arrays of options with and without a write buffer.
\* Configuration: up to two manifests and two requests; every command line and every
\* configuration file with at most one bad value; two old containers.
CONSTANTS
    MaxId             = 1
    MaxRestarts       = 1
    OptionArrays     <- MCOptionArrays
    FilteredContents <- MCFiltered
    DefaultContents  <- MCDefault
    Requests         <- MCRequests
    MaxRequests       = 2
    Mandatory         = {"bridge"}
    Dependencies     <- MCDependencies
    Old               = 2

SPECIFICATION AgentSpec

INVARIANTS
    TypeOK
    IdsAccounted
    FreeIdsUnused
    FreeIdsUnmounted
    ListedIsUsable
    SettingsTypeOK
    StoreIsSound
    StartIsSound

PROPERTY StoreIsConstant
