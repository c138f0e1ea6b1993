CONSTANTS
    FilteredContents <- MCFiltered
    DefaultContents  <- MCDefault
    Requests         <- MCRequests
    MaxRequests       = 0

SPECIFICATION StoreSpec

INVARIANTS
    EntriesAreCombined

CHECK_DEADLOCK FALSE
