CONSTANTS
    MaxId = 0
    MaxRestarts = 0
    OptionArrays <- MCFailingArrays

SPECIFICATION Spec

INVARIANTS
    NoUnaskedWriteBuffer

CHECK_DEADLOCK FALSE
