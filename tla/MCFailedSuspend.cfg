\* The gateways do not matter here.
CONSTANTS
    NGateways = 0
    Dynamic   = {}
    Flagging  = {}
    Unchecked = {}
    Elements  = {e1}

SPECIFICATION Spec

INVARIANTS
    FailureIsInvalid

CHECK_DEADLOCK FALSE
