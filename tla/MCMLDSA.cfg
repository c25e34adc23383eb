SPECIFICATION Spec
CONSTANTS
    Q = 41
    GAMMA2 = 4
    GAMMA1 = 4
    BETA = 1
    ETA = 1
    D = 3
    OMEGA = 1
    K = 2
    L = 2
    MaxContext = 2
    NonceRange = 4
    MaxAttempts = 2
    None = None
    Matrices <- MCMatrices
    Masks <- MCMasks
    Messages <- MCMessages
    Contexts <- MCContexts
INVARIANTS DistinctMasks HidesSecret
PROPERTY ImplementsScheme
CHECK_DEADLOCK FALSE
