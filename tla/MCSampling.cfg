SPECIFICATION MCSpec
CONSTANTS
    Degree = 5
    TAU = 3
    SignBytes = 1
    RATE = 2
    Coefficients = 3
    Block <- MCBlock
    NBlocks <- MCNBlocks
    CounterRange = 4
    Refills = 3
    GroupN = 10
    GroupRate = 6
    GroupFill = 16
INVARIANTS
    Weight
    Uniform
    SamplesStream
    StaysInBuffers
CHECK_DEADLOCK FALSE
