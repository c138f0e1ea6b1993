SPECIFICATION NetworkSpec
CONSTANTS
    ProtocolLists <- MCProtocolLists
    MaxElements = 2
    MaxActivations = 2
INVARIANTS
    ActivatedHasRoute
