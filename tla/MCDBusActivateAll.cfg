\* The agent does not know the session bus's address, and the system bus works.
CONSTANTS
    Entries    = {"r1", "r2"}
    HostBuses  = {}
    Arrays    <- BothBuses
    MaxProxies = 2

SPECIFICATION DBusSpec

INVARIANT ActivateAppliesAll

CHECK_DEADLOCK FALSE
