SPECIFICATION Spec
CONSTANTS
    one = one
    two = two
    NULL = NULL
    Contexts <- MCContexts
    Algs <- MCAlgs
    PkLen <- MCPkLen
    SkLen <- MCSkLen
    SigLen <- MCSigLen
    Rooms = {0, 1, 2, 3}
    Data = {"a", "b"}
    MaxChanges = 5
SYMMETRY Symmetry
PROPERTIES
    ImplementsKeyStore
    LengthToldSuffices
CHECK_DEADLOCK FALSE
