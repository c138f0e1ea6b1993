CONSTANTS
    MaxId = 0
    MaxRestarts = 1
    OptionArrays <- MCOptionArrays

SPECIFICATION FairSpec

PROPERTIES
    AgentComesBack

CHECK_DEADLOCK FALSE
