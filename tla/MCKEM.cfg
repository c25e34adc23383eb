SPECIFICATION Spec
CONSTANTS
    alice = alice
    bob = bob
    Users <- MCUsers
    Variants <- MCVariants
    Q = 97
    K = 2
    Eta = 1
    DT = 5
    DU = 5
    DV = 3
    Matrices <- MCMatrices
    KeyNoise <- MCKeyNoise
    CoinNoise <- MCCoinNoise
    MaxCalls = 3
PROPERTY ImplementsIdealKEM
CHECK_DEADLOCK FALSE
