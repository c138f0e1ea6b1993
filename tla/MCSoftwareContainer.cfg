\* Gateway 1 is static and looks at all its failures (cgroups, environment); gateway 2
\* is dynamic, sets m_activatedOnce, and may answer true with elements not applied
\* (D-Bus).  Two elements, so that a configuration can be read or applied in part.
CONSTANTS
    NGateways = 2
    Dynamic   = {2}
    Flagging  = {2}
    Unchecked = {2}
    Elements  = {e1, e2}

SPECIFICATION Spec

SYMMETRY ElementSymmetry

INVARIANTS
    TypeOK
    LayersAgree
    DestructorUnmounts
    SuccessMeansApplied
    

PROPERTIES
    StaticGatewayIsFinal
    ProxiesAreStopped
    ImplementsLifecycle

CHECK_DEADLOCK FALSE
